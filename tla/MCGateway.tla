----------------------------- MODULE MCGateway ------------------------------
(***************************************************************************)
(* An instance of Gateway for TLC.                                         *)
(***************************************************************************)
EXTENDS Gateway, TLC

CONSTANTS p1, p2, p3, red, blue, title, body, wire, wired, wireless

\* Three documents on the second node, two of them in one partition, and one
\* on the first.
FourDocs == (1 :> p1) @@ (2 :> p2) @@ (3 :> p1) @@ (4 :> p3)

TwoNodes == (p1 :> 2) @@ (p2 :> 2) @@ (p3 :> 1)

\* The title is a scalar or nothing, the body an array, in one document with red
\* twice.
Coloured(in_title, in_body) == (title :> in_title) @@ (body :> in_body)

Colours == (1 :> Coloured(<<red>>, <<red, blue>>)) @@ (2 :> Coloured(<<blue>>, << >>))
               @@ (3 :> Coloured(<< >>, <<blue>>)) @@ (4 :> Coloured(<<red>>, <<red, red>>))

Word(word) == [field |-> NoField, word |-> word, form |-> "term"]

\* The words that start with "wire", and those one letter away from it.
Completions == (wire :> {wire, wired, wireless}) @@ (wired :> {wired}) @@ (wireless :> {wireless})
OneEdit == (wire :> {wire, wired}) @@ (wired :> {wired, wire}) @@ (wireless :> {wireless})

InFields(in_title, in_body) == (title :> in_title) @@ (body :> in_body) @@ (NoField :> {})

Texts == (1 :> InFields({wireless}, {wired})) @@ (2 :> InFields({wire, wireless}, {}))
             @@ (3 :> InFields({}, {wireless})) @@ (4 :> InFields({wireless, wired}, {wire}))

Req(limit, offset, consistency, grouped) ==
    [query |-> <<Word(wireless)>>, quoted |-> FALSE,
     default_fields |-> {title, body}, boost_fields |-> {},
     limit |-> limit, offset |-> offset, consistency |-> consistency,
     group_by_partition |-> grouped, facet_fields |-> <<title>>]

\* First and later pages, the empty page, and sums that reach 2^32.
Pages ==
    {Req(limit, offset, "Any", grouped) :
         limit \in 1 .. 2, offset \in 0 .. 2, grouped \in BOOLEAN}
        \union {Req(1, 1, "All", FALSE), Req(0, 0, "Any", FALSE), Req(7, 1, "Any", FALSE),
                Req(7, 3, "All", TRUE)}

\* Several bare words, over default fields, weighted fields, both and none; a
\* blank query, a phrase, clauses that name their field, alone and together, and
\* prefix and fuzzy tokens with and without a field.  Facets of none, one and both
\* fields, and of one field twice.
Queries ==
    LET all           == Req(3, 0, "All", FALSE)
        two           == <<Word(wireless), Word(wired)>>
        titled(f)     == [field |-> title, word |-> wire, form |-> f]
    IN  {[all EXCEPT !.query = two, !.facet_fields = <<body>>],
         [all EXCEPT !.query = two, !.boost_fields = {title}, !.facet_fields = << >>],
         [all EXCEPT !.query = two, !.default_fields = {}],
         [all EXCEPT !.query = << >>, !.facet_fields = <<title, body>>],
         [all EXCEPT !.query = two, !.quoted = TRUE, !.facet_fields = <<title, body, title>>],
         [all EXCEPT !.query = <<titled("term"), [titled("term") EXCEPT !.word = wired]>>],
         [all EXCEPT !.query = <<[Word(wire) EXCEPT !.form = "prefix"]>>]}
            \union {[all EXCEPT !.query = <<titled(f)>>] : f \in {"prefix", "fuzzy", "far"}}

Searches == Pages \union Queries
=============================================================================

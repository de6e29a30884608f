------------------------------- MODULE Query --------------------------------
(***************************************************************************)
(* What a search looks for: the expansion of bare queries over fields and  *)
(* the rewriting of prefix and fuzzy clauses in front of Tantivy's parser  *)
(* (Engine::search and try_build_json_special_query in                     *)
(* node/src/engine/core.rs).                                               *)
(*                                                                         *)
(* A query is the sequence of its tokens.  Words are atoms: case, and the  *)
(* letters a word has in common with another, are in Starting and Near.    *)
(***************************************************************************)
EXTENDS Naturals, Sequences

CONSTANTS
    Fields,    \* the sub-fields of `document`
    Words,     \* the words of queries and documents
    Starting,  \* the words that start with a word
    Near,      \* the words within the distance of a fuzzy token
    NoField    \* a token without a field

\* word, word*, word~1, and word~9, which is further than the rewriting goes.
Token == [field : Fields \union {NoField}, word : Words,
          form : {"term", "prefix", "fuzzy", "far"}]

\* A document's words by field.  Under NoField is what the parser finds for a
\* bare word, which it looks up in the `document` field as a whole.
Text == [Fields \union {NoField} -> SUBSET Words]

ASSUME QueryAssumption ==
    /\ Starting \in [Words -> SUBSET Words]
    /\ Near \in [Words -> SUBSET Words]
    /\ NoField \notin Fields

-----------------------------------------------------------------------------
\* No colon in the query.
Bare(req) == \A k \in DOMAIN req.query : req.query[k].field = NoField

\* boost_fields come first; default_fields are then of no account.
SearchFields(req) == IF req.boost_fields # {} THEN req.boost_fields ELSE req.default_fields

\* Neither blank nor quoted, and with fields to expand over.
Expanded(req) == /\ req.query # << >>
                 /\ Bare(req)
                 /\ ~req.quoted
                 /\ SearchFields(req) # {}

\* (document.f1:token OR document.f2:token OR ...)
Clause(req, token) == {[token EXCEPT !.field = f] : f \in SearchFields(req)}

\* One clause on a sub-field; what was expanded is in parentheses.
IsSpecial(req) == /\ ~Expanded(req)
                  /\ ~req.quoted
                  /\ Len(req.query) = 1
                  /\ Head(req.query).field # NoField
                  /\ Head(req.query).form \in {"prefix", "fuzzy"}

Special(text, token) ==
    text[token.field] \intersect
        (IF token.form = "prefix" THEN Starting[token.word] ELSE Near[token.word]) # {}

\* QueryParser on a JSON field takes a prefix for the word itself and a fuzzy
\* token for a phrase that no document has.
Parsed(text, token) == /\ token.form \in {"term", "prefix"}
                       /\ token.word \in text[token.field]

\* Mutant: the clauses of the tokens are joined by OR.
MatchesAnyToken(text, req) ==
    IF IsSpecial(req) THEN Special(text, Head(req.query))
    ELSE \E k \in DOMAIN req.query :
             IF Expanded(req)
             THEN \E token \in Clause(req, req.query[k]) : Parsed(text, token)
             ELSE Parsed(text, req.query[k])

\* The clauses of an expanded query are joined by AND.  In other queries the
\* parser joins by OR, and a phrase has all its words.
Matches(text, req) ==
    IF Expanded(req)
    THEN \A k \in DOMAIN req.query : \E token \in Clause(req, req.query[k]) : Parsed(text, token)
    ELSE IF IsSpecial(req) THEN Special(text, Head(req.query))
    ELSE IF req.quoted THEN \A k \in DOMAIN req.query : Parsed(text, req.query[k])
    ELSE \E k \in DOMAIN req.query : Parsed(text, req.query[k])

-----------------------------------------------------------------------------
(* What SearchRequest promises. *)

\* The words a token stands for.
Denoted(token) == CASE token.form = "term"   -> {token.word}
                    [] token.form = "prefix" -> Starting[token.word]
                    [] token.form = "fuzzy"  -> Near[token.word]
                    [] token.form = "far"    -> {}

\* Some field has a word the token stands for.
MeantIn(text, fields, token) == \E f \in fields : text[f] \intersect Denoted(token) # {}

\* Bare words must each be in one of the fields, whatever their weights; a clause
\* speaks of its own field; anything else is the parser's business.
Meant(text, req) ==
    IF Expanded(req)
    THEN \A k \in DOMAIN req.query : MeantIn(text, SearchFields(req), req.query[k])
    ELSE IF Len(req.query) = 1
    THEN MeantIn(text, {Head(req.query).field}, Head(req.query))
    ELSE Matches(text, req)

\* The queries the rewriting is made for: prefix and fuzzy tokens only as a
\* single clause that names its field.
Straight(req) ==
    \A k \in DOMAIN req.query :
        \/ req.query[k].form = "term"
        \/ /\ req.query[k].form \in {"prefix", "fuzzy"}
           /\ IsSpecial(req)
=============================================================================

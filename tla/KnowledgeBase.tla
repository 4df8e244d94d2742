--------------------------- MODULE KnowledgeBase ---------------------------
(***************************************************************************)
(* What the knowledge base of one organization looks like from outside: a   *)
(* set of documents, each with a status and the content that retrieval can  *)
(* find.  Content is replaced in one step, or not at all; a document that   *)
(* is being indexed, or whose indexing failed, keeps the content it had; a  *)
(* removed document has none and never gets any again.                      *)
(*                                                                          *)
(* Ingestion (routers/documents.py, the arq worker and                      *)
(* services/ingestion/pipeline.py) is shown to implement it.                *)
(***************************************************************************)
CONSTANTS Doc, Content

VARIABLES state, content

kbVars == <<state, content>>

KBInit == /\ state = [d \in Doc |-> "absent"]
          /\ content = [d \in Doc |-> {}]

Listed(d) == state[d] \in {"indexing", "ready", "failed"}

Add(d) == /\ state[d] = "absent"
          /\ state' = [state EXCEPT ![d] = "indexing"]
          /\ UNCHANGED content

\* An indexing run starts, or is asked for again.
StartIndexing(d) == /\ Listed(d)
                    /\ state' = [state EXCEPT ![d] = "indexing"]
                    /\ UNCHANGED content

\* A run replaces the content it found by what it extracted, nothing if the
\* source is empty.  What other runs put there in the meantime may stay.
Publish(d, extracted) ==
  /\ Listed(d)
  /\ \E replaced \in SUBSET content[d] :
       content' = [content EXCEPT ![d] = (@ \ replaced) \cup extracted]
  /\ state' = [state EXCEPT ![d] = "ready"]

FailIndexing(d) == /\ Listed(d)
                   /\ state' = [state EXCEPT ![d] = "failed"]
                   /\ UNCHANGED content

Remove(d) == /\ Listed(d)
             /\ state' = [state EXCEPT ![d] = "deleted"]
             /\ content' = [content EXCEPT ![d] = {}]

KBNext == \E d \in Doc :
  \/ Add(d) \/ StartIndexing(d) \/ FailIndexing(d) \/ Remove(d)
  \/ \E extracted \in {{}} \cup {{x} : x \in Content} : Publish(d, extracted)

KBSpec == KBInit /\ [][KBNext]_kbVars
=============================================================================

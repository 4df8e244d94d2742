------------------------------ MODULE Gateway ------------------------------
(***************************************************************************)
(* Which model answers and which model embeds: the gateways of             *)
(* services/llm.py and services/embeddings.py, each of which is built on a *)
(* hosted provider if there is a key, else on the Ollama server if a       *)
(* cached probe says it answers, else on an offline stand-in.              *)
(*                                                                         *)
(* An API process builds both anew for every chat turn, at different       *)
(* moments, and the turn uses each later than it is built; the worker      *)
(* builds its embedding service once, when it starts.  A probe blocks its  *)
(* process and is part of the step that needs it.  Of the chunks it        *)
(* matters here which model embedded them.  One turn of each process is    *)
(* followed at a time.                                                     *)
(***************************************************************************)
EXTENDS Naturals, FiniteSets

CONSTANTS
  Api,      \* API processes
  Worker,   \* the arq worker
  Ttl       \* PROBE_FAILURE_TTL_SECONDS, in ticks of the clock

ASSUME GatewayAssumption == Worker \notin Api /\ Ttl \in Nat \ {0}

VARIABLES
  keys,       \* the hosted providers that there are API keys for
  up,         \* whether the Ollama server answers
  since,      \* ticks since it last did not, at most Ttl
  probe,      \* _probe_cache of each process; left is what remains of a failure's TTL
  turn,       \* the chat turn in each API process: the providers of its gateways
  embedder,   \* ctx["embedding_service"] of the worker
  index       \* the model that embedded the chunks

services == <<turn, embedder, index>>
gatewayVars == <<keys, up, since, probe, services>>

Process == Api \cup {Worker}
Unprobed == [reachable |-> FALSE, left |-> 0]
Llms == {"hosted", "ollama", "offline"}
Embedders == {"openai", "ollama", "hashing"}

\* late (auxiliary): the turn began a TTL after the last outage.
Turn == [llm : Llms \cup {"none"}, embed : Embedders \cup {"none"}, late : BOOLEAN]
NoTurn == [llm |-> "none", embed |-> "none", late |-> FALSE]

-----------------------------------------------------------------------------
(* ollama_reachable.                                                        *)

\* Fault: the TTL in half ticks.
RetryAfterDouble == 2 * Ttl

RetryAfter == Ttl

\* Fault: a successful probe is not kept.
CachedFailure(p) == probe[p].left > 0

Cached(p) == probe[p].reachable \/ probe[p].left > 0

Fresh == [reachable |-> up, left |-> IF up THEN 0 ELSE RetryAfter]

Reachable(p) == IF Cached(p) THEN probe[p].reachable ELSE up

Probed(p) == IF Cached(p) THEN probe[p] ELSE Fresh

\* _default_provider of each gateway, and what is left of the probe it took.
LlmProvider(p) ==
  IF keys # {} THEN "hosted" ELSE IF Reachable(p) THEN "ollama" ELSE "offline"

EmbeddingProvider(p) ==
  IF "openai" \in keys THEN "openai" ELSE IF Reachable(p) THEN "ollama" ELSE "hashing"

AfterLlm(p) == IF keys # {} THEN probe ELSE [probe EXCEPT ![p] = Probed(p)]
AfterEmbedding(p) == IF "openai" \in keys THEN probe ELSE [probe EXCEPT ![p] = Probed(p)]

\* A call of a provider: stand-ins never raise, the others may at any time.
MayAnswer(provider) == provider # "ollama" \/ up
MayRaise(provider) == provider \notin {"offline", "hashing"}

-----------------------------------------------------------------------------
(* A chat turn: the endpoint's dependency builds the LLMGateway; the stream *)
(* builds the EmbeddingService, before its agent calls any model; and the   *)
(* question is embedded with that service after the route has been chosen.  *)

Ask(p) ==
  /\ turn[p].llm = "none"
  /\ turn' = [turn EXCEPT ![p] = [NoTurn EXCEPT !.llm = LlmProvider(p),
                                                !.late = (up /\ since = Ttl)]]
  /\ probe' = AfterLlm(p)
  /\ UNCHANGED <<keys, up, since, embedder, index>>

\* A cached answer ends the turn before the stream.
AnswerFromCache(p) ==
  /\ turn[p].llm # "none" /\ turn[p].embed = "none"
  /\ turn' = [turn EXCEPT ![p] = NoTurn]
  /\ UNCHANGED <<keys, up, since, probe, embedder, index>>

BuildDependencies(p) ==
  /\ turn[p].llm # "none" /\ turn[p].embed = "none"
  /\ turn' = [turn EXCEPT ![p].embed = EmbeddingProvider(p)] /\ probe' = AfterEmbedding(p)
  /\ UNCHANGED <<keys, up, since, embedder, index>>

\* The question is embedded with the service that the turn has, by then whatever
\* the server does; or the call raises, or the route needs no search.  What
\* matters here of the turn is over.
Search(p) ==
  /\ turn[p].embed # "none"
  /\ turn' = [turn EXCEPT ![p] = NoTurn]
  /\ UNCHANGED <<keys, up, since, probe, embedder, index>>

RestartApi(p) ==
  /\ turn' = [turn EXCEPT ![p] = NoTurn] /\ probe' = [probe EXCEPT ![p] = Unprobed]
  /\ UNCHANGED <<keys, up, since, embedder, index>>

-----------------------------------------------------------------------------
(* The worker: startup, and the ingestion of documents.                     *)

\* A new process has an empty cache, so its first probe tries the server.
Started == IF "openai" \in keys THEN "openai" ELSE IF up THEN "ollama" ELSE "hashing"
FirstProbe == IF "openai" \in keys THEN Unprobed ELSE Fresh

StartWorker ==
  /\ embedder' = Started /\ probe' = [probe EXCEPT ![Worker] = FirstProbe]
  /\ UNCHANGED <<keys, up, since, turn, index>>

\* All chunks of a run are embedded, or none: a run that raises leaves the old ones.
Ingest ==
  /\ MayAnswer(embedder) /\ index' = embedder
  /\ UNCHANGED <<keys, up, since, probe, turn, embedder>>

-----------------------------------------------------------------------------
(* The Ollama server and the clock.                                         *)

GoDown ==
  /\ up /\ up' = FALSE /\ since' = 0
  /\ turn' = [p \in Api |-> [turn[p] EXCEPT !.late = FALSE]]
  /\ UNCHANGED <<keys, probe, embedder, index>>

ComeUp == ~up /\ up' = TRUE /\ UNCHANGED <<keys, since, probe, services>>

Tick ==
  /\ since' = IF up /\ since < Ttl THEN since + 1 ELSE since
  /\ probe' = [p \in Process |-> [probe[p] EXCEPT !.left = IF @ = 0 THEN 0 ELSE @ - 1]]
  /\ UNCHANGED <<keys, up, services>>

\* With both keys everything is as with OpenAI's.
GatewayInit ==
  /\ keys \in {{}, {"anthropic"}, {"openai"}}
  /\ up \in BOOLEAN /\ since = IF up THEN Ttl ELSE 0
  /\ turn = [p \in Api |-> NoTurn]
  /\ embedder = Started /\ index = Started
  /\ probe = [[p \in Process |-> Unprobed] EXCEPT ![Worker] = FirstProbe]

GatewayStep ==
  \/ \E p \in Api : \/ Ask(p) \/ AnswerFromCache(p) \/ BuildDependencies(p) \/ Search(p)
                    \/ RestartApi(p)
  \/ Ingest \/ GoDown \/ ComeUp \/ Tick

-----------------------------------------------------------------------------
(* Correctness.                                                             *)

GatewayTypeOK ==
  /\ keys \subseteq {"anthropic", "openai"} /\ up \in BOOLEAN /\ since \in 0..Ttl
  /\ probe \in [Process -> [reachable : BOOLEAN, left : 0..Ttl]]
  /\ turn \in [Api -> Turn]
  /\ embedder \in Embedders /\ index \in Embedders

\* A turn that begins a TTL after the server has come back, or later, is not
\* answered by a stand-in, however earlier turns and probes of its process fell
\* into the outage, and embeds its question with the model that embedded the
\* chunks; unless the worker is still one that started in an outage, or left chunks
\* of that one.  A turn begun before may still use the stand-ins it was built with.
\* The same holds of what the worker, or any process, builds from then on.
RecoversWithinTtl ==
  /\ \A p \in Api : turn[p].late =>
       /\ turn[p].llm # "offline"
       /\ embedder # "hashing" /\ index = embedder => turn[p].embed \in {"none", index}
  /\ up /\ since = Ttl => \A p \in Process :
       /\ LlmProvider(p) # "offline"
       /\ embedder # "hashing" /\ index = embedder => EmbeddingProvider(p) = index

\* No turn that the model server answers searches with the stand-in, although the
\* two gateways of a turn probe one after the other and the server may go down in
\* between.  (With a hosted LLM and no OpenAI key that may happen.)
NeverHalfOffline ==
  \A p \in Api : turn[p].llm = "ollama" => turn[p].embed # "hashing"
=============================================================================

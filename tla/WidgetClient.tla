---------------------------- MODULE WidgetClient ----------------------------
(***************************************************************************)
(* The chat app in the widget's iframe (apps/widget/src/app/App.tsx), with *)
(* its stream consumer (api.ts), what it keeps in localStorage (storage.ts)*)
(* and the loader that shows and hides it (loader.ts).                     *)
(*                                                                         *)
(* Event handlers are steps.  A render with the effects it runs is a step  *)
(* of its own, which other events may precede.  The server is what it does *)
(* to this client: it mints a conversation for a question that names none, *)
(* and a stream gives tokens and then done or error, or breaks off         *)
(* (ChatTurn says when).  The n-th question of the visitor gets n as its   *)
(* turn, and as its conversation if it is asked without one.               *)
(***************************************************************************)
EXTENDS Naturals, Sequences

CONSTANT MaxTurns   \* bound on the questions asked

ASSUME WidgetAssumption == MaxTurns \in Nat

VARIABLES
  asked,      \* questions this visitor has sent
  open,       \* the loader shows the iframe
  loaded,     \* the iframe runs the app
  conv,       \* conversationId.current, 0 if undefined
  messages,   \* one element per question and answer
  streaming,  \* the composer is disabled
  streams,    \* responses that are being read
  csatOpen,   \* the rating prompt is shown
  timer,      \* the idle timer is set
  effects,    \* effects that the next render will run
  stored,     \* localStorage
  rated,      \* auxiliary: conversations a rating was posted for
  late,       \* auxiliary: those an event or a reload overtook
  cut         \* auxiliary: turns whose last event was not dispatched

clientVars == <<asked, open, loaded, conv, messages, streaming, streams, csatOpen, timer, effects,
          stored, rated, late, cut>>

\* The page around the app: the loader, and the visitor's count of questions.
page == <<asked, open, loaded>>

Turn == 1..MaxTurns
Conv == 0..MaxTurns

\* An answer: the turns its text came from (an error text comes from its own
\* turn too), and whether done has given it its message id.
Message == [turn : Turn, text : SUBSET Turn, settled : BOOLEAN]

\* A response: torn says that buffer holds events whose end was not recognized, over
\* that the last event has been received.
Stream == [turn : Turn, conv : Turn, torn : BOOLEAN, over : BOOLEAN]

ClientInit ==
  /\ asked = 0 /\ open = FALSE /\ loaded = FALSE
  /\ conv = 0 /\ messages = <<>> /\ streaming = FALSE /\ streams = {}
  /\ csatOpen = FALSE /\ timer = FALSE /\ effects = {"save", "idle"}
  /\ stored = [conv |-> 0, messages |-> <<>>] /\ rated = {} /\ late = {} /\ cut = {}

Changed(deps) == effects' = effects \cup deps

\* setMessages and setStreaming are dependencies of both effects.
MessagesChanged == Changed({"save", "idle"})

-----------------------------------------------------------------------------
(* Asking, and the stream of the answer.                                    *)

\* Fault: a question may be sent while another is being answered.
Composing == open
MaySend == open /\ ~streaming

Send ==
  /\ MaySend /\ asked < MaxTurns /\ asked' = asked + 1
  /\ messages' = Append(messages, [turn |-> asked', text |-> {}, settled |-> FALSE])
  /\ streams' = streams \cup {[turn |-> asked', conv |-> IF conv = 0 THEN asked' ELSE conv,
                                torn |-> FALSE, over |-> FALSE]}
  /\ streaming' = TRUE /\ MessagesChanged
  /\ UNCHANGED <<open, loaded, conv, csatOpen, timer, stored, rated, late, cut>>

\* The parser: a block up to a blank line is an event.  The text is cut into pieces
\* anywhere, and CR LF is replaced in each piece by itself: a piece that ends within
\* the second CR LF of an event leaves it joined to the next one.
Whole(s) == ~s.torn /\ ~s.over

Received(s, torn, last) ==
  streams' = (streams \ {s}) \cup {[s EXCEPT !.torn = torn, !.over = last]}

Tear(s) ==
  /\ ~s.over /\ \E last \in BOOLEAN : Received(s, TRUE, last)
  /\ UNCHANGED <<page, conv, messages, streaming, csatOpen, timer, effects, stored, rated,
                 late, cut>>

\* The data of joined events is not JSON, and is dropped.
Drop(s) ==
  /\ s.torn /\ ~s.over /\ \E last \in BOOLEAN : Received(s, FALSE, last)
  /\ UNCHANGED <<page, conv, messages, streaming, csatOpen, timer, effects, stored, rated,
                 late, cut>>

\* patchLast.
PatchLast(m) == messages' = [messages EXCEPT ![Len(messages)] = m]
Last == messages[Len(messages)]

OnToken(s) ==
  /\ Whole(s)
  /\ PatchLast([Last EXCEPT !.text = @ \cup {s.turn}]) /\ MessagesChanged
  /\ UNCHANGED <<page, conv, streaming, streams, csatOpen, timer, stored, rated, late, cut>>

\* Fault: done sets the conversation, and leaves the messages alone.
OnDoneSilently(s) ==
  /\ Whole(s)
  /\ conv' = s.conv /\ streaming' = FALSE /\ streams' = streams \ {s}
  /\ Changed({"idle"})
  /\ UNCHANGED <<page, messages, csatOpen, timer, stored, rated, late, cut>>

OnDone(s) ==
  /\ Whole(s)
  /\ conv' = s.conv /\ streaming' = FALSE /\ streams' = streams \ {s}
  /\ PatchLast([Last EXCEPT !.settled = TRUE]) /\ MessagesChanged
  /\ UNCHANGED <<page, csatOpen, timer, stored, rated, late, cut>>

\* Fault: an error leaves the composer to done.
OnErrorWaits(s) ==
  /\ Whole(s) /\ streams' = streams \ {s}
  /\ PatchLast([Last EXCEPT !.text = IF @ = {} THEN {s.turn} ELSE @]) /\ MessagesChanged
  /\ UNCHANGED <<page, conv, streaming, csatOpen, timer, stored, rated, late, cut>>

\* An error event, or a response that is not ok.
OnError(s) ==
  /\ Whole(s)
  /\ streaming' = FALSE /\ streams' = streams \ {s}
  /\ PatchLast([Last EXCEPT !.text = IF @ = {} THEN {s.turn} ELSE @]) /\ MessagesChanged
  /\ UNCHANGED <<page, conv, csatOpen, timer, stored, rated, late, cut>>

\* The connection fails, or the response ends and what is left in the buffer is no
\* event: no handler is called, and the composer stays disabled.
BreakOff(s) ==
  /\ streams' = streams \ {s} /\ cut' = cut \cup {s.turn}
  /\ UNCHANGED <<page, conv, messages, streaming, csatOpen, timer, effects, stored, rated,
                 late>>

\* A vote changes a message that has an id.
Vote ==
  /\ open /\ ~streaming /\ \E i \in 1..Len(messages) : messages[i].settled
  /\ MessagesChanged
  /\ UNCHANGED <<page, conv, messages, streaming, streams, csatOpen, timer, stored, rated, late, cut>>

-----------------------------------------------------------------------------
(* The rating prompt.                                                       *)

HasAnswer == \E i \in 1..Len(messages) : messages[i].text # {}

\* csatDone is never set: finishCsat only resets it.
ShouldAskCsat == HasAnswer /\ conv # 0

\* Fault: the conversation is kept after the rating.
FinishCsatKeeping == conv' = conv /\ csatOpen' = FALSE /\ Changed({"save"})

FinishCsat == conv' = 0 /\ csatOpen' = FALSE /\ Changed({"save"})

\* rateCsat; without a conversation a click does nothing.
Rate ==
  /\ open /\ csatOpen /\ conv # 0 /\ FinishCsat
  /\ rated' = rated \cup {conv}
  /\ late' = late \cup {s.conv : s \in {x \in streams : x.conv = conv}}
  /\ UNCHANGED <<page, messages, streaming, streams, timer, stored, cut>>

\* onClose: the first click asks for a rating, the second one closes.
Ask ==
  /\ open /\ ~csatOpen /\ ShouldAskCsat
  /\ csatOpen' = TRUE /\ Changed({"save"})
  /\ UNCHANGED <<page, conv, messages, streaming, streams, timer, stored, rated, late, cut>>

Dismiss ==
  /\ open /\ csatOpen /\ open' = FALSE /\ FinishCsat
  /\ UNCHANGED <<asked, loaded, messages, streaming, streams, timer, stored, rated, late, cut>>

Close ==
  /\ open /\ ~csatOpen /\ ~ShouldAskCsat /\ open' = FALSE
  /\ UNCHANGED <<asked, loaded, conv, messages, streaming, streams, csatOpen, timer, effects, stored, rated,
                 late, cut>>

\* The loader's button: it loads the app when it is first shown, and hides it
\* without asking it.
Launcher ==
  /\ open' = ~open /\ loaded' = TRUE
  /\ UNCHANGED <<asked, conv, messages, streaming, streams, csatOpen, timer, effects, stored, rated,
                 late, cut>>

\* Three minutes pass.  The prompt opens even if the conversation has been
\* rated since the timer was set.
IdleTimeout ==
  /\ timer /\ timer' = FALSE /\ csatOpen' = TRUE
  /\ effects' = effects \cup IF csatOpen THEN {} ELSE {"save"}
  /\ UNCHANGED <<page, conv, messages, streaming, streams, stored, rated, late, cut>>

-----------------------------------------------------------------------------
(* Effects, and the life of the page.                                       *)

RunEffects ==
  /\ loaded /\ effects # {} /\ effects' = {}
  /\ stored' = IF "save" \in effects THEN [conv |-> conv, messages |-> messages] ELSE stored
  /\ timer' = IF "idle" \in effects
              THEN messages # <<>> /\ ~streaming /\ ShouldAskCsat ELSE timer
  /\ UNCHANGED <<page, conv, messages, streaming, streams, csatOpen, rated, late, cut>>

\* The page is left, and its streams with it.  The app that is loaded next starts
\* from what is stored.
Reload ==
  /\ loaded /\ loaded' = FALSE /\ conv' = stored.conv /\ messages' = stored.messages
  /\ open' = FALSE /\ streaming' = FALSE /\ streams' = {} /\ csatOpen' = FALSE
  /\ timer' = FALSE /\ effects' = {"save", "idle"}
  /\ late' = late \cup IF stored.conv # conv /\ stored.conv # 0 THEN {stored.conv} ELSE {}
  /\ UNCHANGED <<asked, stored, rated, cut>>

ClientNext ==
  \/ Send \/ Vote \/ Rate \/ Ask \/ Dismiss \/ Close \/ Launcher \/ IdleTimeout
  \/ RunEffects \/ Reload
  \/ \E s \in streams : OnToken(s) \/ OnDone(s) \/ OnError(s) \/ Tear(s) \/ Drop(s) \/ BreakOff(s)

ClientSpec == ClientInit /\ [][ClientNext]_clientVars

-----------------------------------------------------------------------------
(* Correctness.                                                             *)

ClientTypeOK ==
  /\ open \in BOOLEAN /\ loaded \in BOOLEAN /\ conv \in Conv /\ streaming \in BOOLEAN
  /\ csatOpen \in BOOLEAN /\ timer \in BOOLEAN /\ effects \subseteq {"save", "idle"}
  /\ asked \in 0..MaxTurns /\ Len(messages) <= asked
  /\ \A i \in 1..Len(messages) : messages[i] \in Message
  /\ streams \subseteq Stream /\ rated \cup late \cup cut \subseteq Turn
  /\ stored.conv \in Conv /\ Len(stored.messages) <= MaxTurns

\* The text of an answer comes from its own stream, whatever is asked, closed or
\* reloaded in between: every event patches "the last message".
AnswersStayApart == \A i \in 1..Len(messages) : messages[i].text \subseteq {messages[i].turn}

\* When no effect is due, a reload resumes exactly this conversation.  The
\* conversation id is a ref and triggers no effect itself: every change of it
\* has to come with a change that does.
StorageFollows ==
  "save" \notin effects => stored = [conv |-> conv, messages |-> messages]

\* A rated conversation becomes the current one again only by an answer that was
\* still streaming when it was rated, or by a reload before the effects ran.
RatedComesBackOnlyLate == conv \in rated => conv \in late

\* The composer is disabled for good only by a response that broke off or whose last
\* event was lost in the parser, and only until the page is loaded again; no order of
\* events, errors, ratings and closing does it.
ComposerComesBack ==
  streaming => (\E s \in streams : s.turn = asked) \/ asked \in cut

=============================================================================

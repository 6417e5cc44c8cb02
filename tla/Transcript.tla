---------------------------- MODULE Transcript ----------------------------
(***************************************************************************)
(* Conversations of the AI assistant: the table of conversations, the turn *)
(* of one message and the transcript it leaves.  A turn sends the whole    *)
(* transcript to the API, once per round of tool use; the API rejects a    *)
(* transcript that is not well formed, for good.                           *)
(*                                                                         *)
(* The table is under a mutex and so is each conversation, but a turn may  *)
(* hold a conversation that has been evicted from the table meanwhile.     *)
(***************************************************************************)
EXTENDS Naturals, Sequences, FiniteSets

CONSTANTS
  Conversation,   \* ids clients send
  Chat,           \* concurrent requests
  MaxIterations,  \* rounds of tool use in a turn
  MaxMessages,    \* messages kept
  MaxConvs,       \* conversations kept
  MaxChats        \* turns in a behaviour

ASSUME TranscriptAssumption ==
  /\ MaxIterations \in Nat \ {0} /\ MaxConvs \in Nat \ {0} /\ MaxChats \in Nat
  /\ MaxMessages \in Nat /\ 2 * MaxIterations + 2 <= MaxMessages

VARIABLES
  convs,      \* the table: the conversation of an id, or 0
  conv,       \* every conversation there was
  turn,       \* requests
  clock,      \* time.Now
  chats

tvars == <<convs, conv, turn, clock, chats>>

-----------------------------------------------------------------------------
(* Types *)

\* What the user says, an assistant's tool_use, its tool_results, and text.
Message == {"ask", "tool", "result", "text"}
Turn == [pc : {"idle", "lock", "call", "tools"}, conv : Nat, round : Nat, snapshot : Seq(Message)]
NoTurn == [pc |-> "idle", conv |-> 0, round |-> 0, snapshot |-> <<>>]

TranscriptTypeOK ==
  /\ convs \in [Conversation -> 0..Len(conv)]
  /\ conv \in Seq([messages : Seq(Message), lastUsed : Nat])
  /\ turn \in [Chat -> Turn] /\ clock \in Nat /\ chats \in Nat

Table == {k \in Conversation : convs[k] # 0}
Holds(c) == turn[c].pc \in {"call", "tools"}
Transcript(c) == conv[turn[c].conv].messages

-----------------------------------------------------------------------------
(* trimHistory *)

\* Bug: the cut is made where the cap is.
TrimAnywhere(msgs) ==
  IF Len(msgs) <= MaxMessages THEN msgs
  ELSE SubSeq(msgs, Len(msgs) - MaxMessages + 1, Len(msgs))

\* Bug: the cut is never made.
TrimNot(msgs) == msgs

\* The messages of the user among the last MaxMessages, and the earliest of them.
Cuts(msgs)     == {i \in (Len(msgs) - MaxMessages + 1)..Len(msgs) : msgs[i] = "ask"}
FirstCut(msgs) == CHOOSE i \in Cuts(msgs) : \A j \in Cuts(msgs) : i <= j

\* Without one nothing is cut.
Trim(msgs) ==
  IF Len(msgs) <= MaxMessages \/ Cuts(msgs) = {} THEN msgs
  ELSE SubSeq(msgs, FirstCut(msgs), Len(msgs))

-----------------------------------------------------------------------------
(* Chat *)

\* The conversation is looked up or made; a full table loses the one used least
\* recently, turn in progress or not.
Post(c, k) ==
  /\ turn[c].pc = "idle" /\ chats < MaxChats /\ chats' = chats + 1
  /\ \/ /\ convs[k] # 0
        /\ turn' = [turn EXCEPT ![c].pc = "lock", ![c].conv = convs[k]]
        /\ UNCHANGED <<convs, conv, clock>>
     \/ /\ convs[k] = 0
        /\ \E out \in IF Cardinality(Table) < MaxConvs THEN {{}}
                      ELSE {{j} : j \in {i \in Table : \A l \in Table :
                                           conv[convs[i]].lastUsed <= conv[convs[l]].lastUsed}} :
             convs' = [j \in Conversation |-> IF j = k THEN Len(conv) + 1
                                              ELSE IF j \in out THEN 0 ELSE convs[j]]
        /\ conv' = Append(conv, [messages |-> <<>>, lastUsed |-> clock + 1]) /\ clock' = clock + 1
        /\ turn' = [turn EXCEPT ![c].pc = "lock", ![c].conv = Len(conv) + 1]

\* One turn of a conversation at a time; the message joins the transcript.
Begin(c) ==
  /\ turn[c].pc = "lock" /\ \A d \in Chat : Holds(d) => turn[d].conv # turn[c].conv
  /\ turn' = [turn EXCEPT ![c].pc = "call", ![c].snapshot = Transcript(c)]
  /\ conv' = [conv EXCEPT ![turn[c].conv].messages = Append(@, "ask")]
  /\ UNCHANGED <<convs, clock, chats>>

\* The turn is over: the transcript is msgs.
End(c, msgs) ==
  /\ conv' = [conv EXCEPT ![turn[c].conv] = [messages |-> msgs, lastUsed |-> clock + 1]]
  /\ turn' = [turn EXCEPT ![c] = NoTurn] /\ clock' = clock + 1

\* A round of tool use, a last answer (its turn is replaced by plain text), or an
\* error of the API, which rolls the transcript back.
Call(c) ==
  LET said == Trim(Append(Transcript(c), "tool")) IN
  /\ turn[c].pc = "call"
  /\ \/ /\ conv' = [conv EXCEPT ![turn[c].conv].messages = said]
        /\ turn' = [turn EXCEPT ![c].pc = "tools"] /\ UNCHANGED clock
     \/ End(c, [said EXCEPT ![Len(said)] = "text"])
     \/ End(c, turn[c].snapshot)
  /\ UNCHANGED <<convs, chats>>

\* The results go back; after the last round the turn is closed with a text.
Dispatch(c) ==
  LET told == Trim(Append(Transcript(c), "result")) IN
  /\ turn[c].pc = "tools"
  /\ IF turn[c].round + 1 = MaxIterations THEN End(c, Append(told, "text"))
     ELSE /\ conv' = [conv EXCEPT ![turn[c].conv].messages = told]
          /\ turn' = [turn EXCEPT ![c].pc = "call", ![c].round = @ + 1] /\ UNCHANGED clock
  /\ UNCHANGED <<convs, chats>>

TranscriptInit ==
  /\ convs = [k \in Conversation |-> 0] /\ conv = <<>> /\ turn = [c \in Chat |-> NoTurn]
  /\ clock = 0 /\ chats = 0

Converse ==
  \E c \in Chat : \/ \E k \in Conversation : Post(c, k)
                  \/ Begin(c) \/ Call(c) \/ Dispatch(c)

\* Nothing of a conversation outlives the process.
Restart ==
  /\ convs' = [k \in Conversation |-> 0] /\ conv' = <<>> /\ turn' = [c \in Chat |-> NoTurn]
  /\ UNCHANGED <<clock, chats>>

TranscriptNext == Converse \/ Restart

TranscriptSpec == TranscriptInit /\ [][TranscriptNext]_tvars

-----------------------------------------------------------------------------
(* Properties *)

\* What may follow a message: the user and the assistant alternate, and tool
\* results answer a tool_use, every one.
Follows(m, n) == \/ m \in {"ask", "result"} /\ n \in {"tool", "text"}
                 \/ m = "tool" /\ n = "result"
                 \/ m = "text" /\ n = "ask"
WellFormed(msgs) ==
  /\ msgs # <<>> => msgs[1] = "ask"
  /\ \A i \in 1..(Len(msgs) - 1) : Follows(msgs[i], msgs[i + 1])

\* Every transcript the API is sent is one it accepts, and every one kept between
\* turns ends in text: after trimmed histories, rounds cut short, failed calls and
\* turns of evicted conversations.
TranscriptValid ==
  /\ \A i \in 1..Len(conv) : WellFormed(conv[i].messages)
  /\ \A c \in Chat : turn[c].pc = "call" => Transcript(c)[Len(Transcript(c))] \in {"ask", "result"}
  /\ \A i \in 1..Len(conv) :
       (\A c \in Chat : Holds(c) => turn[c].conv # i) /\ conv[i].messages # <<>>
         => conv[i].messages[Len(conv[i].messages)] = "text"

\* Memory stays bounded: conversations in the table, and the messages of each, which
\* pass the cap only by a closing text and the next message.
TranscriptBounded ==
  /\ Cardinality(Table) <= MaxConvs
  /\ \A i \in 1..Len(conv) :
       Len(conv[i].messages) <= MaxMessages + (IF \E c \in Chat : Holds(c) /\ turn[c].conv = i
                                               THEN 2 ELSE 1)
=============================================================================

------------------------- MODULE Transcript_proofs -------------------------
(***************************************************************************)
(* What holds of the assistant's conversations for every number of them,   *)
(* of requests and of rounds, and every cap with room for one turn.        *)
(***************************************************************************)
EXTENDS Transcript, FiniteSetTheorems, SequenceTheorems, WellFoundedInduction, TLAPS

-----------------------------------------------------------------------------
(* The cut *)

\* A set of positions has a first one.
LEMMA FirstOf ==
  ASSUME NEW T \in SUBSET Nat, T # {}
  PROVE  \E x \in T : \A y \in T : x <= y
  <1>1. PICK x \in T : \A y \in T : ~ (<<y, x>> \in OpToRel(<, Nat))
    BY NatLessThanWellFounded, WFMin, Zenon
  <1>2. \A y \in T : <<y, x>> \in Nat \X Nat
    OBVIOUS
  <1>3. \A y \in T : ~ (y < x)
    BY <1>1, <1>2 DEF OpToRel
  <1> QED BY <1>3

\* A suffix of a transcript that begins at its start or at a message of the user.
SuffixOf(r, msgs, d) ==
  /\ d \in 0..Len(msgs) /\ Len(r) = Len(msgs) - d
  /\ \A i \in 1..Len(r) : r[i] = msgs[i + d]
  /\ d > 0 => d < Len(msgs) /\ msgs[d + 1] = "ask"

\* A transcript with a message of the user among its last MaxMessages is cut within
\* the cap, and keeps that message.
LEMMA TrimCuts ==
  ASSUME NEW msgs \in Seq(Message), NEW p \in 1..Len(msgs), msgs[p] = "ask",
         Len(msgs) - p < MaxMessages
  PROVE  /\ Trim(msgs) \in Seq(Message) /\ Len(Trim(msgs)) <= MaxMessages
         /\ \E d \in 0..(p - 1) : SuffixOf(Trim(msgs), msgs, d)
  <1> DEFINE n == Len(msgs)
             i == FirstCut(msgs)
  <1>0. n \in Nat /\ MaxMessages \in Nat
    BY TranscriptAssumption
  <1>1. CASE n <= MaxMessages
    <2>1. Trim(msgs) = msgs
      BY <1>1 DEF Trim
    <2>2. SuffixOf(msgs, msgs, 0)
      BY <1>0 DEF SuffixOf
    <2> QED BY <1>0, <1>1, <2>1, <2>2
  <1>2. CASE n > MaxMessages
    <2>1. p \in Cuts(msgs) /\ Cuts(msgs) \in SUBSET Nat
      BY <1>0, <1>2 DEF Cuts
    <2>2. \E x \in Cuts(msgs) : \A y \in Cuts(msgs) : x <= y
      BY <2>1, FirstOf
    <2>3. i \in Cuts(msgs) /\ \A y \in Cuts(msgs) : i <= y
      BY <2>2, Zenon DEF FirstCut
    <2>4. Trim(msgs) = SubSeq(msgs, i, n)
      <3>1. Cuts(msgs) # {} /\ ~ (Len(msgs) <= MaxMessages)
        BY <1>0, <1>2, <2>1
      <3> QED BY <3>1, Zenon DEF Trim
    <2>5. i \in 1..p /\ i > n - MaxMessages /\ msgs[i] = "ask"
      BY <1>0, <1>2, <2>1, <2>3 DEF Cuts
    <2> HIDE DEF i
    <2>6. PICK d \in 0..(p - 1) : i = d + 1
      BY <2>5
    <2>7. /\ SubSeq(msgs, d + 1, n) \in Seq(Message) /\ Len(SubSeq(msgs, d + 1, n)) = n - d
          /\ \A j \in 1..(n - d) : SubSeq(msgs, d + 1, n)[j] = msgs[j + d]
      BY <1>0, <2>5, <2>6
    <2>8. d \in 0..n /\ n - d <= MaxMessages /\ d < n /\ msgs[d + 1] = "ask"
      BY <1>0, <2>5, <2>6
    <2>9. SuffixOf(SubSeq(msgs, d + 1, n), msgs, d)
      BY <1>0, <2>7, <2>8 DEF SuffixOf
    <2> QED BY <1>0, <2>4, <2>6, <2>7, <2>8, <2>9
  <1> QED BY <1>0, <1>1, <1>2

-----------------------------------------------------------------------------
(* Well-formed transcripts *)

LEMMA SuffixWellFormed ==
  ASSUME NEW msgs \in Seq(Message), NEW r \in Seq(Message), NEW d \in 0..Len(msgs),
         WellFormed(msgs), SuffixOf(r, msgs, d)
  PROVE  WellFormed(r)
  <1>1. r # <<>> => r[1] = "ask"
    <2>1. CASE d = 0
      BY <2>1 DEF WellFormed, SuffixOf
    <2>2. CASE d > 0
      BY <2>2 DEF SuffixOf
    <2> QED BY <2>1, <2>2
  <1>2. ASSUME NEW i \in 1..(Len(r) - 1)
        PROVE  Follows(r[i], r[i + 1])
    <2>1. r[i] = msgs[i + d] /\ r[i + 1] = msgs[i + 1 + d]
      BY DEF SuffixOf
    <2>2. i + d \in 1..(Len(msgs) - 1) /\ i + 1 + d = (i + d) + 1
      BY DEF SuffixOf
    <2> QED BY <2>1, <2>2 DEF WellFormed
  <1> QED BY <1>1, <1>2 DEF WellFormed

LEMMA AppendWellFormed ==
  ASSUME NEW msgs \in Seq(Message), NEW m \in Message, WellFormed(msgs),
         IF msgs = <<>> THEN m = "ask" ELSE Follows(msgs[Len(msgs)], m)
  PROVE  /\ Append(msgs, m) \in Seq(Message) /\ WellFormed(Append(msgs, m))
         /\ Len(Append(msgs, m)) = Len(msgs) + 1
         /\ \A i \in 1..Len(msgs) : Append(msgs, m)[i] = msgs[i]
         /\ Append(msgs, m)[Len(msgs) + 1] = m
  <1> DEFINE a == Append(msgs, m)
  <1>1. /\ a \in Seq(Message) /\ Len(a) = Len(msgs) + 1 /\ a[Len(msgs) + 1] = m
        /\ \A i \in 1..Len(msgs) : a[i] = msgs[i]
    OBVIOUS
  <1> HIDE DEF a
  <1>2. a[1] = "ask"
    <2>1. CASE msgs = <<>>
      <3>1. Len(msgs) = 0
        BY <2>1
      <3> QED BY <1>1, <2>1, <3>1
    <2>2. CASE msgs # <<>>
      <3>1. Len(msgs) >= 1
        BY <2>2
      <3> QED BY <1>1, <2>2, <3>1 DEF WellFormed
    <2> QED BY <2>1, <2>2
  <1>3. ASSUME NEW i \in 1..(Len(a) - 1)
        PROVE  Follows(a[i], a[i + 1])
    <2>1. i \in 1..Len(msgs) /\ a[i] = msgs[i] /\ msgs # <<>>
      BY <1>1
    <2>2. CASE i = Len(msgs)
      BY <1>1, <2>1, <2>2
    <2>3. CASE i < Len(msgs)
      <3>1. a[i + 1] = msgs[i + 1] /\ i \in 1..(Len(msgs) - 1)
        BY <1>1, <2>1, <2>3
      <3> QED BY <2>1, <3>1 DEF WellFormed
    <2> QED BY <1>1, <2>1, <2>2, <2>3
  <1>4. WellFormed(a)
    BY <1>2, <1>3 DEF WellFormed
  <1> QED BY <1>1, <1>4 DEF a

\* A plain text may stand where a tool_use stood last.
LEMMA ClosedWellFormed ==
  ASSUME NEW t \in Seq(Message), WellFormed(t), t # <<>>, t[Len(t)] = "tool"
  PROVE  LET u == [t EXCEPT ![Len(t)] = "text"] IN
         /\ u \in Seq(Message) /\ WellFormed(u) /\ Len(u) = Len(t)
         /\ u # <<>> /\ u[Len(u)] = "text"
  <1> DEFINE n == Len(t)
             u == [t EXCEPT ![n] = "text"]
  <1>1. n \in Nat /\ n >= 1
    OBVIOUS
  <1>2. u \in Seq(Message) /\ Len(u) = n /\ u[n] = "text" /\ \A i \in 1..(n - 1) : u[i] = t[i]
    BY <1>1, ExceptSeq DEF Message
  <1> HIDE DEF u
  <1>3. n # 1 /\ u # <<>> /\ u[1] = "ask"
    BY <1>1, <1>2 DEF WellFormed
  <1>4. ASSUME NEW i \in 1..(n - 1)
        PROVE  Follows(u[i], u[i + 1])
    <2>1. Follows(t[i], t[i + 1]) /\ u[i] = t[i]
      BY <1>2 DEF WellFormed
    <2>2. CASE i = n - 1
      <3>1. i + 1 = n
        BY <1>1, <2>2
      <3> QED BY <1>2, <2>1, <3>1 DEF Follows
    <2>3. CASE i < n - 1
      <3>1. i + 1 \in 1..(n - 1)
        BY <1>1, <2>3
      <3> QED BY <1>2, <2>1, <3>1
    <2> QED BY <1>1, <2>2, <2>3
  <1>5. WellFormed(u)
    BY <1>2, <1>3, <1>4 DEF WellFormed
  <1> QED BY <1>2, <1>3, <1>5 DEF u

\* A message appended k messages after one of the user, and the transcript cut.
LEMMA SaidWellFormed ==
  ASSUME NEW msgs \in Seq(Message), WellFormed(msgs), NEW m \in Message,
         NEW k \in Nat, k < Len(msgs), k + 1 < MaxMessages, msgs[Len(msgs) - k] = "ask",
         Follows(msgs[Len(msgs)], m)
  PROVE  LET t == Trim(Append(msgs, m)) IN
         /\ t \in Seq(Message) /\ WellFormed(t) /\ Len(t) <= MaxMessages
         /\ Len(t) > k + 1 /\ t[Len(t)] = m /\ t[Len(t) - k - 1] = "ask"
  <1> DEFINE n == Len(msgs)
             a == Append(msgs, m)
             t == Trim(a)
  <1>0. n \in Nat /\ MaxMessages \in Nat
    BY TranscriptAssumption
  <1>1. /\ a \in Seq(Message) /\ WellFormed(a) /\ Len(a) = n + 1 /\ a[n + 1] = m
        /\ a[n - k] = "ask"
    <2>1. msgs # <<>>
      BY <1>0
    <2> QED BY <1>0, <2>1, AppendWellFormed
  <1> HIDE DEF a
  <1>2. n - k \in 1..Len(a) /\ Len(a) - (n - k) < MaxMessages
    BY <1>0, <1>1
  <1>3. /\ t \in Seq(Message) /\ Len(t) <= MaxMessages
        /\ \E d \in 0..((n - k) - 1) : SuffixOf(t, a, d)
    <2> DEFINE p == n - k
    <2>1. p \in 1..Len(a) /\ a[p] = "ask" /\ Len(a) - p < MaxMessages
      BY <1>1, <1>2
    <2> HIDE DEF p
    <2>2. /\ t \in Seq(Message) /\ Len(t) <= MaxMessages
          /\ \E d \in 0..(p - 1) : SuffixOf(t, a, d)
      BY <1>1, <2>1, TrimCuts
    <2> QED BY <2>2 DEF p
  <1> HIDE DEF t
  <1>4. PICK d \in 0..((n - k) - 1) : SuffixOf(t, a, d)
    BY <1>3
  <1>5. WellFormed(t)
    <2>1. d \in 0..Len(a)
      BY <1>0, <1>1
    <2> QED BY <1>1, <1>3, <1>4, <2>1, SuffixWellFormed
  <1>6. Len(t) = n + 1 - d /\ \A i \in 1..Len(t) : t[i] = a[i + d]
    BY <1>1, <1>4 DEF SuffixOf
  <1>7. Len(t) > k + 1 /\ Len(t) \in 1..Len(t) /\ Len(t) - k - 1 \in 1..Len(t)
    BY <1>0, <1>6
  <1>8. Len(t) + d = n + 1 /\ (Len(t) - k - 1) + d = n - k
    BY <1>0, <1>6
  <1>9. t[Len(t)] = m /\ t[Len(t) - k - 1] = "ask"
    BY <1>1, <1>6, <1>7, <1>8
  <1> QED BY <1>3, <1>5, <1>7, <1>9 DEF t, a

-----------------------------------------------------------------------------
(* The invariant *)

ConvRow == [messages : Seq(Message), lastUsed : Nat]

\* A transcript between turns.
Kept(msgs) ==
  /\ msgs \in Seq(Message) /\ WellFormed(msgs) /\ Len(msgs) <= MaxMessages + 1
  /\ msgs # <<>> => msgs[Len(msgs)] = "text"

\* A transcript during turn u: the user's message is as far back as the rounds of
\* tool use since, each a tool_use and its results, so that a cut keeps it.
During(u, msgs) ==
  LET n == Len(msgs) IN
  /\ msgs \in Seq(Message) /\ WellFormed(msgs) /\ u.round < MaxIterations
  /\ u.pc = "call" => /\ 2 * u.round < n /\ n <= MaxMessages + 2
                      /\ msgs[n - 2 * u.round] = "ask" /\ msgs[n] \in {"ask", "result"}
  /\ u.pc = "tools" => /\ 2 * u.round + 1 < n /\ n <= MaxMessages
                       /\ msgs[n - 2 * u.round - 1] = "ask" /\ msgs[n] = "tool"

InTurn(u) == u.pc \in {"call", "tools"}

TurnsInv ==
  /\ \A c \in Chat : turn[c].pc # "idle" => turn[c].conv \in 1..Len(conv)
  /\ \A c \in Chat : turn[c].pc \in {"idle", "lock"} => turn[c].round = 0
  /\ \A c, d \in Chat : c # d /\ Holds(c) /\ Holds(d) => turn[c].conv # turn[d].conv
  /\ \A c \in Chat : Holds(c) => Kept(turn[c].snapshot) /\ During(turn[c], Transcript(c))
  /\ \A i \in 1..Len(conv) : (\A c \in Chat : Holds(c) => turn[c].conv # i) => Kept(conv[i].messages)

TableInv == IsFiniteSet(Table) /\ Cardinality(Table) <= MaxConvs

TranscriptInv == TranscriptTypeOK /\ TurnsInv /\ TableInv

\* A step of turn c inside its conversation, which it leaves in the middle of the
\* turn or, when it ends, as transcripts are kept.
LEMMA TurnStep ==
  ASSUME TranscriptInv, NEW c \in Chat, turn[c].conv \in 1..Len(conv),
         \A d \in Chat : d # c /\ Holds(d) => turn[d].conv # turn[c].conv,
         NEW u \in Turn, NEW row \in ConvRow,
         conv' = [conv EXCEPT ![turn[c].conv] = row], turn' = [turn EXCEPT ![c] = u],
         UNCHANGED <<convs, chats>>, clock' \in Nat,
         \/ u.pc = "idle" /\ u.round = 0 /\ Kept(row.messages)
         \/ /\ InTurn(u) /\ u.conv = turn[c].conv
            /\ Kept(u.snapshot) /\ During(u, row.messages)
  PROVE  TranscriptInv'
  <1> DEFINE k == turn[c].conv
  <1>1. /\ conv' \in Seq(ConvRow) /\ Len(conv') = Len(conv) /\ conv'[k] = row
        /\ \A i \in 1..Len(conv) : i # k => conv'[i] = conv[i]
    BY ExceptSeq DEF TranscriptInv, TranscriptTypeOK, ConvRow
  <1>2. turn'[c] = u /\ \A d \in Chat : d # c => turn'[d] = turn[d]
    BY DEF TranscriptInv, TranscriptTypeOK
  <1>3. TranscriptTypeOK'
    BY <1>1, <1>2 DEF TranscriptInv, TranscriptTypeOK, ConvRow
  <1>4. TableInv'
    BY DEF TranscriptInv, TableInv, Table
  <1>5. (\A d \in Chat : turn[d].pc # "idle" => turn[d].conv \in 1..Len(conv))'
    BY <1>1, <1>2 DEF TranscriptInv, TurnsInv, InTurn
  <1>6. (\A d \in Chat : turn[d].pc \in {"idle", "lock"} => turn[d].round = 0)'
    BY <1>2 DEF TranscriptInv, TurnsInv, InTurn
  <1>7. (\A d, e \in Chat : d # e /\ Holds(d) /\ Holds(e) => turn[d].conv # turn[e].conv)'
    BY <1>2 DEF TranscriptInv, TurnsInv, InTurn, Holds
  <1>8. ASSUME NEW d \in Chat, Holds(d)'
        PROVE  (Kept(turn[d].snapshot) /\ During(turn[d], Transcript(d)))'
    <2>1. CASE d = c
      BY <1>1, <1>2, <1>8, <2>1 DEF Holds, InTurn, Transcript, During
    <2>2. CASE d # c
      <3>1. Holds(d) /\ turn'[d] = turn[d] /\ turn[d].conv # k
        BY <1>2, <1>8, <2>2 DEF Holds
      <3>2. turn[d].conv \in 1..Len(conv)
        BY <3>1 DEF TranscriptInv, TurnsInv, Holds
      <3>3. conv'[turn'[d].conv] = conv[turn[d].conv]
        BY <1>1, <3>1, <3>2
      <3>4. Kept(turn[d].snapshot) /\ During(turn[d], conv[turn[d].conv].messages)
        BY <3>1 DEF TranscriptInv, TurnsInv, Transcript
      <3> QED BY <3>1, <3>3, <3>4 DEF Transcript
    <2> QED BY <2>1, <2>2
  <1>9. ASSUME NEW i \in 1..Len(conv'), \A d \in Chat : Holds(d)' => turn'[d].conv # i
        PROVE  Kept(conv'[i].messages)
    <2>1. CASE i = k
      BY <1>1, <1>2, <1>9, <2>1 DEF Holds, InTurn
    <2>2. CASE i # k
      <3>1. \A d \in Chat : Holds(d) => turn[d].conv # i
        BY <1>2, <1>9, <2>2 DEF Holds
      <3>2. i \in 1..Len(conv) /\ conv'[i] = conv[i]
        BY <1>1, <2>2
      <3> QED BY <3>1, <3>2 DEF TranscriptInv, TurnsInv
    <2> QED BY <2>1, <2>2
  <1>10. TurnsInv'
    BY <1>5, <1>6, <1>7, <1>8, <1>9 DEF TurnsInv
  <1> QED BY <1>3, <1>4, <1>10 DEF TranscriptInv

\* What the type invariant says of one turn, and what holding a conversation means.
LEMMA TurnOf ==
  ASSUME TranscriptInv, NEW c \in Chat
  PROVE  /\ turn[c] \in Turn
         /\ turn[c].pc # "idle" =>
              /\ turn[c].conv \in 1..Len(conv) /\ conv[turn[c].conv] \in ConvRow
         /\ Holds(c) => /\ \A d \in Chat : d # c /\ Holds(d) => turn[d].conv # turn[c].conv
                        /\ Kept(turn[c].snapshot) /\ During(turn[c], Transcript(c))
  <1>1. turn[c] \in Turn
    BY DEF TranscriptInv, TranscriptTypeOK
  <1>2. turn[c].pc # "idle" => turn[c].conv \in 1..Len(conv) /\ conv[turn[c].conv] \in ConvRow
    <2>1. conv \in Seq(ConvRow)
      BY DEF TranscriptInv, TranscriptTypeOK, ConvRow
    <2>2. turn[c].pc # "idle" => turn[c].conv \in 1..Len(conv)
      BY DEF TranscriptInv, TurnsInv
    <2> QED BY <2>1, <2>2, ElementOfSeq
  <1>3. ASSUME Holds(c)
        PROVE  /\ \A d \in Chat : d # c /\ Holds(d) => turn[d].conv # turn[c].conv
               /\ Kept(turn[c].snapshot) /\ During(turn[c], Transcript(c))
    BY <1>3 DEF TranscriptInv, TurnsInv
  <1> QED BY <1>1, <1>2, <1>3

-----------------------------------------------------------------------------
(* The actions *)

LEMMA JustAsked ==
  ASSUME NEW u, u.pc = "call", u.round = 0, NEW msgs \in Seq(Message), WellFormed(msgs),
         Len(msgs) \in 1..(MaxMessages + 2), msgs[Len(msgs)] = "ask"
  PROVE  During(u, msgs)
  <1>1. 2 * u.round = 0 /\ 2 * u.round < Len(msgs) /\ Len(msgs) - 2 * u.round = Len(msgs)
    OBVIOUS
  <1>2. u.round < MaxIterations /\ Len(msgs) <= MaxMessages + 2
    BY TranscriptAssumption
  <1> QED BY <1>1, <1>2 DEF During

LEMMA BeginStep ==
  ASSUME TranscriptInv, NEW c \in Chat, Begin(c)
  PROVE  TranscriptInv'
  <1> DEFINE k == turn[c].conv
             t == conv[k].messages
             u == [turn[c] EXCEPT !.pc = "call", !.snapshot = t]
             row == [conv[k] EXCEPT !.messages = Append(t, "ask")]
  <1>1. /\ turn[c] \in Turn /\ k \in 1..Len(conv) /\ conv[k] \in ConvRow
        /\ turn[c].pc = "lock" /\ turn[c].round = 0
    BY TurnOf DEF Begin, TranscriptInv, TurnsInv
  <1>2. \A d \in Chat : Holds(d) => turn[d].conv # k
    BY DEF Begin
  <1>3. Kept(t)
    BY <1>1, <1>2 DEF TranscriptInv, TurnsInv
  <1>4. /\ Append(t, "ask") \in Seq(Message) /\ WellFormed(Append(t, "ask"))
        /\ Len(Append(t, "ask")) = Len(t) + 1 /\ Append(t, "ask")[Len(t) + 1] = "ask"
    <2>1. /\ t \in Seq(Message) /\ WellFormed(t) /\ "ask" \in Message
          /\ IF t = <<>> THEN TRUE ELSE Follows(t[Len(t)], "ask")
      BY <1>3 DEF Kept, Follows, Message
    <2> QED BY <2>1, AppendWellFormed
  <1>5. u \in Turn /\ row \in ConvRow
    BY <1>1, <1>3, <1>4 DEF Turn, ConvRow, Kept
  <1>6. u.pc = "call" /\ u.conv = k /\ u.snapshot = t /\ u.round = 0 /\ row.messages = Append(t, "ask")
    BY <1>1 DEF Turn, ConvRow
  <1>7. During(u, row.messages)
    <2>1. Len(t) \in Nat /\ Len(t) <= MaxMessages + 1 /\ MaxMessages \in Nat
      BY <1>3, TranscriptAssumption DEF Kept
    <2> HIDE DEF u, row, t
    <2>2. Len(Append(t, "ask")) \in 1..(MaxMessages + 2)
      BY <1>4, <2>1
    <2> QED BY <1>4, <1>6, <2>2, JustAsked
  <1>8. conv' = [conv EXCEPT ![k] = row] /\ turn' = [turn EXCEPT ![c] = u]
    BY <1>1 DEF Begin, Transcript, TranscriptInv, TranscriptTypeOK, ConvRow, Turn
  <1>9. UNCHANGED <<convs, chats>> /\ clock' \in Nat
    BY DEF Begin, TranscriptInv, TranscriptTypeOK
  <1> HIDE DEF u, row
  <1> QED BY <1>1, <1>2, <1>3, <1>5, <1>6, <1>7, <1>8, <1>9, TurnStep DEF InTurn

\* A turn that ends with a transcript that may be kept.
LEMMA EndStep ==
  ASSUME TranscriptInv, NEW c \in Chat, Holds(c), NEW msgs, Kept(msgs),
         End(c, msgs), UNCHANGED <<convs, chats>>
  PROVE  TranscriptInv'
  <1> DEFINE row == [messages |-> msgs, lastUsed |-> clock + 1]
  <1>1. /\ turn[c].conv \in 1..Len(conv)
        /\ \A d \in Chat : d # c /\ Holds(d) => turn[d].conv # turn[c].conv
    BY TurnOf DEF Holds
  <1>2. row \in ConvRow /\ row.messages = msgs /\ clock' \in Nat
    BY DEF ConvRow, Kept, End, TranscriptInv, TranscriptTypeOK
  <1>3. NoTurn \in Turn /\ NoTurn.pc = "idle" /\ NoTurn.round = 0
    BY DEF NoTurn, Turn
  <1>4. conv' = [conv EXCEPT ![turn[c].conv] = row] /\ turn' = [turn EXCEPT ![c] = NoTurn]
    BY DEF End
  <1> HIDE DEF row
  <1> QED BY <1>1, <1>2, <1>3, <1>4, TurnStep

\* A turn that goes on, with transcript msgs.
GoOn(c, msgs, pc, round) ==
  /\ conv' = [conv EXCEPT ![turn[c].conv].messages = msgs]
  /\ turn' = [turn EXCEPT ![c] = [turn[c] EXCEPT !.pc = pc, !.round = round]]
  /\ UNCHANGED <<convs, chats, clock>>

LEMMA GoOnStep ==
  ASSUME TranscriptInv, NEW c \in Chat, Holds(c), NEW msgs, NEW pc \in {"call", "tools"},
         NEW round \in Nat,
         During([turn[c] EXCEPT !.pc = pc, !.round = round], msgs),
         GoOn(c, msgs, pc, round)
  PROVE  TranscriptInv'
  <1> DEFINE u == [turn[c] EXCEPT !.pc = pc, !.round = round]
             row == [conv[turn[c].conv] EXCEPT !.messages = msgs]
  <1>1. /\ turn[c] \in Turn /\ turn[c].conv \in 1..Len(conv) /\ conv[turn[c].conv] \in ConvRow
        /\ \A d \in Chat : d # c /\ Holds(d) => turn[d].conv # turn[c].conv
        /\ Kept(turn[c].snapshot)
    BY TurnOf DEF Holds
  <1>2. u \in Turn /\ u.conv = turn[c].conv /\ u.snapshot = turn[c].snapshot /\ InTurn(u)
    BY <1>1 DEF Turn, InTurn
  <1>3. row \in ConvRow /\ row.messages = msgs
    BY <1>1 DEF ConvRow, During
  <1>4. conv' = [conv EXCEPT ![turn[c].conv] = row] /\ turn' = [turn EXCEPT ![c] = u]
    BY <1>1 DEF TranscriptInv, TranscriptTypeOK, GoOn
  <1>6. UNCHANGED <<convs, chats>> /\ clock' \in Nat
    BY DEF TranscriptInv, TranscriptTypeOK, GoOn
  <1>5. During(u, row.messages)
    BY <1>3
  <1> HIDE DEF u, row
  <1>7. InTurn(u) /\ u.conv = turn[c].conv /\ Kept(u.snapshot) /\ During(u, row.messages)
    BY <1>1, <1>2, <1>5
  <1> QED BY <1>1, <1>2, <1>3, <1>4, <1>6, <1>7, TurnStep

LEMMA CallStep ==
  ASSUME TranscriptInv, NEW c \in Chat, Call(c)
  PROVE  TranscriptInv'
  <1> DEFINE t == Transcript(c)
             r == turn[c].round
             said == Trim(Append(t, "tool"))
             u == [turn[c] EXCEPT !.pc = "tools", !.round = r]
  <1>1. /\ turn[c] \in Turn /\ turn[c].pc = "call" /\ r \in Nat /\ Holds(c)
        /\ During(turn[c], t) /\ Kept(turn[c].snapshot)
    BY TurnOf DEF Call, Holds, Turn
  <1>2. /\ t \in Seq(Message) /\ WellFormed(t) /\ r < MaxIterations /\ 2 * r < Len(t)
        /\ t[Len(t) - 2 * r] = "ask" /\ t[Len(t)] \in {"ask", "result"}
    BY <1>1 DEF During
  <1>3. /\ said \in Seq(Message) /\ WellFormed(said) /\ Len(said) <= MaxMessages
        /\ Len(said) > 2 * r + 1 /\ said[Len(said)] = "tool" /\ said[Len(said) - 2 * r - 1] = "ask"
    <2> DEFINE k == 2 * r
    <2>1. k \in Nat /\ k < Len(t) /\ k + 1 < MaxMessages /\ t[Len(t) - k] = "ask"
      BY <1>1, <1>2, TranscriptAssumption
    <2>2. "tool" \in Message /\ Follows(t[Len(t)], "tool")
      BY <1>2 DEF Message, Follows
    <2> HIDE DEF k, t
    <2>3. /\ said \in Seq(Message) /\ WellFormed(said) /\ Len(said) <= MaxMessages
          /\ Len(said) > k + 1 /\ said[Len(said)] = "tool" /\ said[Len(said) - k - 1] = "ask"
      BY <1>2, <2>1, <2>2, SaidWellFormed
    <2> QED BY <2>3 DEF k
  <1> HIDE DEF said
  <1>4. CASE /\ conv' = [conv EXCEPT ![turn[c].conv].messages = said]
             /\ turn' = [turn EXCEPT ![c].pc = "tools"] /\ UNCHANGED clock
    <2>1. u.pc = "tools" /\ u.round = r
      BY <1>1 DEF Turn
    <2>2. During(u, said)
      <3> HIDE DEF u
      <3> QED BY <1>1, <1>2, <1>3, <2>1 DEF During
    <2>3. turn' = [turn EXCEPT ![c] = u]
      BY <1>1, <1>4 DEF TranscriptInv, TranscriptTypeOK, Turn
    <2>4. GoOn(c, said, "tools", r)
      BY <1>4, <2>3 DEF Call, GoOn
    <2> QED BY <1>1, <2>2, <2>4, GoOnStep
  <1>5. CASE End(c, [said EXCEPT ![Len(said)] = "text"])
    <2> DEFINE v == [said EXCEPT ![Len(said)] = "text"]
    <2>1. said # <<>>
      BY <1>1, <1>3
    <2>2. /\ v \in Seq(Message) /\ WellFormed(v) /\ Len(v) = Len(said)
          /\ v # <<>> /\ v[Len(v)] = "text"
      BY <1>3, <2>1, ClosedWellFormed
    <2>3. Kept(v)
      <3>1. Len(v) <= MaxMessages + 1
        BY <1>3, <2>2, TranscriptAssumption
      <3> QED BY <2>2, <3>1 DEF Kept
    <2> QED BY <1>1, <1>5, <2>3, EndStep DEF Call
  <1>6. CASE End(c, turn[c].snapshot)
    BY <1>1, <1>6, EndStep DEF Call
  <1> QED BY <1>4, <1>5, <1>6 DEF Call, said

LEMMA DispatchStep ==
  ASSUME TranscriptInv, NEW c \in Chat, Dispatch(c)
  PROVE  TranscriptInv'
  <1> DEFINE t == Transcript(c)
             r == turn[c].round
             told == Trim(Append(t, "result"))
             u == [turn[c] EXCEPT !.pc = "call", !.round = r + 1]
  <1>1. /\ turn[c] \in Turn /\ turn[c].pc = "tools" /\ r \in Nat /\ Holds(c)
        /\ During(turn[c], t)
    BY TurnOf DEF Dispatch, Holds, Turn
  <1>2. /\ t \in Seq(Message) /\ WellFormed(t) /\ r < MaxIterations /\ 2 * r + 1 < Len(t)
        /\ t[Len(t) - 2 * r - 1] = "ask" /\ t[Len(t)] = "tool"
    BY <1>1 DEF During
  <1>3. /\ told \in Seq(Message) /\ WellFormed(told) /\ Len(told) <= MaxMessages
        /\ Len(told) > 2 * r + 2 /\ told[Len(told)] = "result"
        /\ told[Len(told) - 2 * r - 2] = "ask"
    <2> DEFINE k == 2 * r + 1
    <2>1. k \in Nat /\ k < Len(t) /\ k + 1 < MaxMessages /\ t[Len(t) - k] = "ask"
      <3>1. k \in Nat
        BY <1>1
      <3>2. Len(t) - k = Len(t) - 2 * r - 1 /\ k < Len(t)
        BY <1>1, <1>2
      <3>3. k + 1 < MaxMessages
        BY <1>1, <1>2, TranscriptAssumption
      <3> HIDE DEF k
      <3> QED BY <1>2, <3>1, <3>2, <3>3
    <2>2. "result" \in Message /\ Follows(t[Len(t)], "result")
      BY <1>2 DEF Message, Follows
    <2> HIDE DEF k, t
    <2>3. /\ told \in Seq(Message) /\ WellFormed(told) /\ Len(told) <= MaxMessages
          /\ Len(told) > k + 1 /\ told[Len(told)] = "result" /\ told[Len(told) - k - 1] = "ask"
      BY <1>2, <2>1, <2>2, SaidWellFormed
    <2>4. Len(told) - k - 1 = Len(told) - 2 * r - 2 /\ k + 1 = 2 * r + 2
      BY <1>1, <2>3 DEF k
    <2> QED BY <2>3, <2>4
  <1> HIDE DEF told
  <1>4. CASE r + 1 = MaxIterations
    <2> DEFINE v == Append(told, "text")
    <2>1. /\ v \in Seq(Message) /\ WellFormed(v) /\ Len(v) = Len(told) + 1 /\ v[Len(told) + 1] = "text"
      <3>1. "text" \in Message /\ told # <<>> /\ Follows(told[Len(told)], "text")
        BY <1>1, <1>3 DEF Message, Follows
      <3> QED BY <1>3, <3>1, AppendWellFormed
    <2>2. Kept(v)
      <3>1. Len(v) <= MaxMessages + 1
        BY <1>3, <2>1, TranscriptAssumption
      <3> HIDE DEF v
      <3> QED BY <2>1, <3>1 DEF Kept
    <2>3. End(c, v) /\ UNCHANGED <<convs, chats>>
      BY <1>4 DEF Dispatch, told
    <2> HIDE DEF v
    <2> QED BY <1>1, <2>2, <2>3, EndStep
  <1>5. CASE r + 1 # MaxIterations
    <2>1. u.pc = "call" /\ u.round = r + 1
      BY <1>1 DEF Turn
    <2>2. During(u, told)
      <3>1. r + 1 < MaxIterations
        BY <1>1, <1>2, <1>5, TranscriptAssumption
      <3>2. Len(told) \in Nat /\ Len(told) <= MaxMessages + 2
        BY <1>3, TranscriptAssumption
      <3>3. 2 * (r + 1) < Len(told) /\ Len(told) - 2 * (r + 1) = Len(told) - 2 * r - 2
        BY <1>1, <1>3, <3>2
      <3> HIDE DEF u
      <3> QED BY <1>3, <2>1, <3>1, <3>2, <3>3 DEF During
    <2>3. turn' = [turn EXCEPT ![c] = u]
      BY <1>1, <1>5 DEF Dispatch, TranscriptInv, TranscriptTypeOK, Turn
    <2>4. GoOn(c, told, "call", r + 1)
      BY <1>5, <2>3 DEF Dispatch, told, GoOn
    <2>5. r + 1 \in Nat
      BY <1>1
    <2> QED BY <1>1, <2>2, <2>4, <2>5, GoOnStep
  <1> QED BY <1>4, <1>5

\* A conversation made, and another dropped from a full table.
LEMMA PostStep ==
  ASSUME TranscriptInv, NEW c \in Chat, NEW k \in Conversation, Post(c, k)
  PROVE  TranscriptInv'
  <1>0. chats' \in Nat /\ turn[c].pc = "idle" /\ turn[c] \in Turn
    BY DEF Post, TranscriptInv, TranscriptTypeOK
  <1>1. ASSUME NEW n \in Nat, Len(conv) <= Len(conv'), n \in 1..Len(conv'), conv' \in Seq(ConvRow),
               turn' = [turn EXCEPT ![c].pc = "lock", ![c].conv = n],
               \A i \in 1..Len(conv) : conv'[i] = conv[i],
               \A i \in 1..Len(conv') : i \in 1..Len(conv) \/ Kept(conv'[i].messages),
               convs' \in [Conversation -> 0..Len(conv')], clock' \in Nat
        PROVE  TranscriptTypeOK' /\ TurnsInv'
    <2>1. /\ turn'[c] \in Turn /\ turn'[c].pc = "lock" /\ turn'[c].conv = n
          /\ turn'[c].round = turn[c].round /\ \A d \in Chat : d # c => turn'[d] = turn[d]
      BY <1>0, <1>1 DEF TranscriptInv, TranscriptTypeOK, Turn
    <2>2. TranscriptTypeOK'
      BY <1>0, <1>1, <2>1 DEF TranscriptInv, TranscriptTypeOK, ConvRow
    <2>3. \A d \in Chat : Holds(d)' => d # c /\ Holds(d)
      BY <2>1 DEF Holds
    <2>4. \A d \in Chat : Holds(d) => d # c
      BY <1>0 DEF Holds
    <2>5. (\A d \in Chat : turn[d].pc # "idle" => turn[d].conv \in 1..Len(conv))'
      <3>1. ASSUME NEW d \in Chat, d # c, turn[d].pc # "idle"
            PROVE  turn[d].conv \in 1..Len(conv')
        <4>1. turn[d].conv \in 1..Len(conv)
          BY <3>1 DEF TranscriptInv, TurnsInv
        <4> QED BY <1>1, <4>1 DEF TranscriptInv, TranscriptTypeOK
      <3> QED BY <1>1, <2>1, <3>1
    <2>6. (\A d \in Chat : turn[d].pc \in {"idle", "lock"} => turn[d].round = 0)'
      BY <1>0, <2>1 DEF TranscriptInv, TurnsInv
    <2>7. (\A d, e \in Chat : d # e /\ Holds(d) /\ Holds(e) => turn[d].conv # turn[e].conv)'
      BY <2>1, <2>3 DEF TranscriptInv, TurnsInv
    <2>8. ASSUME NEW d \in Chat, Holds(d)'
          PROVE  (Kept(turn[d].snapshot) /\ During(turn[d], Transcript(d)))'
      <3>1. d # c /\ Holds(d) /\ turn'[d] = turn[d]
        BY <2>1, <2>3, <2>8
      <3>2. turn[d].conv \in 1..Len(conv) /\ Kept(turn[d].snapshot) /\ During(turn[d], Transcript(d))
        BY <3>1, TurnOf DEF Holds
      <3>3. Transcript(d)' = Transcript(d)
        BY <1>1, <3>1, <3>2 DEF Transcript
      <3> QED BY <3>1, <3>2, <3>3
    <2>9. ASSUME NEW i \in 1..Len(conv'), \A d \in Chat : Holds(d)' => turn'[d].conv # i
          PROVE  Kept(conv'[i].messages)
      <3>1. CASE i \in 1..Len(conv)
        <4>1. \A d \in Chat : Holds(d) => Holds(d)' /\ turn'[d].conv = turn[d].conv
          BY <2>1, <2>4 DEF Holds
        <4>2. \A d \in Chat : Holds(d) => turn[d].conv # i
          BY <2>9, <4>1
        <4> QED BY <1>1, <3>1, <4>2 DEF TranscriptInv, TurnsInv
      <3> QED BY <1>1, <3>1
    <2>10. TurnsInv'
      BY <2>5, <2>6, <2>7, <2>8, <2>9 DEF TurnsInv
    <2> QED BY <2>2, <2>10
  <1>2. CASE convs[k] # 0 /\ UNCHANGED <<convs, conv, clock>>
             /\ turn' = [turn EXCEPT ![c].pc = "lock", ![c].conv = convs[k]]
    <2>1. convs[k] \in Nat /\ convs[k] \in 1..Len(conv)
      BY <1>2 DEF TranscriptInv, TranscriptTypeOK
    <2>2. conv' \in Seq(ConvRow) /\ convs' \in [Conversation -> 0..Len(conv')] /\ clock' \in Nat
      BY <1>2 DEF TranscriptInv, TranscriptTypeOK, ConvRow
    <2>3. TranscriptTypeOK' /\ TurnsInv'
      <3> DEFINE n == convs[k]
      <3>1. /\ n \in Nat /\ n \in 1..Len(conv') /\ Len(conv) <= Len(conv')
            /\ turn' = [turn EXCEPT ![c].pc = "lock", ![c].conv = n]
            /\ \A i \in 1..Len(conv) : conv'[i] = conv[i]
            /\ \A i \in 1..Len(conv') : i \in 1..Len(conv) \/ Kept(conv'[i].messages)
        BY <1>2, <2>1 DEF TranscriptInv, TranscriptTypeOK
      <3> HIDE DEF n
      <3> QED BY <1>1, <2>2, <3>1
    <2>4. TableInv'
      BY <1>2 DEF TranscriptInv, TableInv, Table
    <2> QED BY <2>3, <2>4 DEF TranscriptInv
  <1>3. ASSUME NEW out \in SUBSET Conversation, convs[k] = 0,
               \/ out = {} /\ Cardinality(Table) < MaxConvs
               \/ \E j \in Table : out = {j},
               convs' = [j \in Conversation |-> IF j = k THEN Len(conv) + 1
                                                ELSE IF j \in out THEN 0 ELSE convs[j]],
               conv' = Append(conv, [messages |-> <<>>, lastUsed |-> clock + 1]), clock' = clock + 1,
               turn' = [turn EXCEPT ![c].pc = "lock", ![c].conv = Len(conv) + 1]
        PROVE  TranscriptInv'
    <2> DEFINE row == [messages |-> <<>>, lastUsed |-> clock + 1]
    <2>1. row \in ConvRow /\ Kept(row.messages) /\ clock' \in Nat
      BY <1>3, TranscriptAssumption DEF ConvRow, Kept, WellFormed, TranscriptInv, TranscriptTypeOK
    <2> HIDE DEF row
    <2>2. conv \in Seq(ConvRow) /\ Len(conv) \in Nat
      BY DEF TranscriptInv, TranscriptTypeOK, ConvRow
    <2>3. /\ conv' \in Seq(ConvRow) /\ Len(conv') = Len(conv) + 1 /\ conv'[Len(conv) + 1] = row
          /\ \A i \in 1..Len(conv) : conv'[i] = conv[i]
      BY <1>3, <2>1, <2>2 DEF row
    <2>4. \A i \in 1..Len(conv') : i \in 1..Len(conv) \/ Kept(conv'[i].messages)
      BY <2>1, <2>2, <2>3
    <2>5. convs' \in [Conversation -> 0..Len(conv')]
      BY <1>3, <2>2, <2>3 DEF TranscriptInv, TranscriptTypeOK
    <2>6. TranscriptTypeOK' /\ TurnsInv'
      <3> DEFINE n == Len(conv) + 1
      <3>1. n \in Nat /\ n \in 1..Len(conv') /\ Len(conv) <= Len(conv')
        BY <2>2, <2>3
      <3> QED BY <1>1, <1>3, <2>1, <2>3, <2>4, <2>5, <3>1
    <2>7. Table' = (Table \ out) \cup {k} /\ k \notin Table
      BY <1>3, <2>2 DEF Table, TranscriptInv, TranscriptTypeOK
    <2>8. IsFiniteSet(Table) /\ Cardinality(Table) \in Nat /\ Cardinality(Table) <= MaxConvs
      BY FS_CardinalityType DEF TranscriptInv, TableInv
    <2>9. IsFiniteSet(Table \ out) /\ Cardinality(Table \ out) < MaxConvs
      <3>1. CASE out = {} /\ Cardinality(Table) < MaxConvs
        <4>1. Table \ out = Table
          BY <3>1
        <4> QED BY <2>8, <3>1, <4>1
      <3>2. ASSUME NEW j \in Table, out = {j}
            PROVE  IsFiniteSet(Table \ out) /\ Cardinality(Table \ out) < MaxConvs
        <4>1. IsFiniteSet(Table \ {j}) /\ Cardinality(Table \ {j}) = Cardinality(Table) - 1
          BY <2>8, FS_RemoveElement
        <4> QED BY <2>8, <3>2, <4>1, TranscriptAssumption
      <3> QED BY <1>3, <3>1, <3>2
    <2>10. /\ IsFiniteSet((Table \ out) \cup {k})
           /\ Cardinality((Table \ out) \cup {k}) = Cardinality(Table \ out) + 1
      BY <2>7, <2>9, FS_AddElement
    <2>11. TableInv'
      BY <2>7, <2>9, <2>10, FS_CardinalityType, TranscriptAssumption DEF TableInv
    <2> QED BY <2>6, <2>11 DEF TranscriptInv
  <1>4. CASE convs[k] = 0
    <2>1. PICK out \in IF Cardinality(Table) < MaxConvs THEN {{}}
                       ELSE {{j} : j \in {i \in Table : \A l \in Table :
                                            conv[convs[i]].lastUsed <= conv[convs[l]].lastUsed}} :
             convs' = [j \in Conversation |-> IF j = k THEN Len(conv) + 1
                                              ELSE IF j \in out THEN 0 ELSE convs[j]]
      BY <1>4 DEF Post
    <2>2. /\ out \in SUBSET Conversation
          /\ \/ out = {} /\ Cardinality(Table) < MaxConvs
             \/ \E j \in Table : out = {j}
      BY <2>1 DEF Table
    <2>3. /\ conv' = Append(conv, [messages |-> <<>>, lastUsed |-> clock + 1]) /\ clock' = clock + 1
          /\ turn' = [turn EXCEPT ![c].pc = "lock", ![c].conv = Len(conv) + 1]
      BY <1>4 DEF Post
    <2> QED BY <1>3, <1>4, <2>1, <2>2, <2>3
  <1> QED BY <1>2, <1>4 DEF Post

-----------------------------------------------------------------------------
(* The theorems *)

LEMMA TranscriptInvInit == TranscriptInit => TranscriptInv
  <1> SUFFICES ASSUME TranscriptInit PROVE TranscriptInv
    OBVIOUS
  <1>1. TranscriptTypeOK
    BY DEF TranscriptInit, TranscriptTypeOK, NoTurn, Turn
  <1>2. TurnsInv
    BY DEF TranscriptInit, TurnsInv, NoTurn, Holds
  <1>3. Table = {}
    BY DEF TranscriptInit, Table
  <1>4. TableInv
    BY <1>3, FS_EmptySet, TranscriptAssumption DEF TableInv
  <1> QED BY <1>1, <1>2, <1>4 DEF TranscriptInv

LEMMA TranscriptInvNext == TranscriptInv /\ [TranscriptNext]_tvars => TranscriptInv'
  <1> SUFFICES ASSUME TranscriptInv, [TranscriptNext]_tvars PROVE TranscriptInv'
    OBVIOUS
  <1>1. ASSUME NEW c \in Chat, NEW k \in Conversation, Post(c, k) PROVE TranscriptInv'
    BY <1>1, PostStep
  <1>2. ASSUME NEW c \in Chat, Begin(c) PROVE TranscriptInv'
    BY <1>2, BeginStep
  <1>3. ASSUME NEW c \in Chat, Call(c) PROVE TranscriptInv'
    BY <1>3, CallStep
  <1>4. ASSUME NEW c \in Chat, Dispatch(c) PROVE TranscriptInv'
    BY <1>4, DispatchStep
  <1>5. CASE UNCHANGED tvars
    BY <1>5 DEF tvars, TranscriptInv, TranscriptTypeOK, TurnsInv, TableInv, Table, Holds, Transcript
  <1>6. CASE Restart
    <2>1. /\ convs' = [k \in Conversation |-> 0] /\ conv' = <<>> /\ turn' = [c \in Chat |-> NoTurn]
          /\ UNCHANGED <<clock, chats>>
      BY <1>6 DEF Restart
    <2>2. TranscriptTypeOK'
      BY <2>1 DEF TranscriptInv, TranscriptTypeOK, NoTurn, Turn
    <2>3. TurnsInv'
      BY <2>1 DEF TurnsInv, NoTurn, Holds
    <2>4. Table' = {}
      BY <2>1 DEF Table
    <2>5. TableInv'
      BY <2>4, FS_EmptySet, TranscriptAssumption DEF TableInv
    <2> QED BY <2>2, <2>3, <2>5 DEF TranscriptInv
  <1> QED BY <1>1, <1>2, <1>3, <1>4, <1>5, <1>6 DEF TranscriptNext, Converse

LEMMA InvIsValid == TranscriptInv => TranscriptValid
  <1> SUFFICES ASSUME TranscriptInv PROVE TranscriptValid
    OBVIOUS
  <1>1. ASSUME NEW i \in 1..Len(conv), NEW c \in Chat, Holds(c), turn[c].conv = i
        PROVE  WellFormed(conv[i].messages)
    BY <1>1, TurnOf DEF During, Transcript
  <1>2. ASSUME NEW i \in 1..Len(conv), \A c \in Chat : Holds(c) => turn[c].conv # i
        PROVE  Kept(conv[i].messages)
    BY <1>2 DEF TranscriptInv, TurnsInv
  <1>3. ASSUME NEW c \in Chat, turn[c].pc = "call"
        PROVE  Transcript(c)[Len(Transcript(c))] \in {"ask", "result"}
    BY <1>3, TurnOf DEF During, Holds
  <1> QED BY <1>1, <1>2, <1>3 DEF TranscriptValid, Kept

LEMMA InvIsBounded == TranscriptInv => TranscriptBounded
  <1> SUFFICES ASSUME TranscriptInv PROVE TranscriptBounded
    OBVIOUS
  <1>1. ASSUME NEW i \in 1..Len(conv), NEW c \in Chat, Holds(c), turn[c].conv = i
        PROVE  Len(conv[i].messages) <= MaxMessages + 2
    <2>1. During(turn[c], conv[i].messages)
      BY <1>1, TurnOf DEF Transcript
    <2> QED BY <1>1, <2>1, TranscriptAssumption DEF During, Holds
  <1>2. ASSUME NEW i \in 1..Len(conv), \A c \in Chat : Holds(c) => turn[c].conv # i
        PROVE  Len(conv[i].messages) <= MaxMessages + 1
    BY <1>2 DEF TranscriptInv, TurnsInv, Kept
  <1> QED BY <1>1, <1>2 DEF TranscriptBounded, TranscriptInv, TableInv

\* Conversations, transcripts and turns keep their types.
THEOREM TranscriptTypes == TranscriptSpec => []TranscriptTypeOK
  <1>1. TranscriptInv => TranscriptTypeOK
    BY DEF TranscriptInv
  <1> QED BY TranscriptInvInit, TranscriptInvNext, <1>1, PTL DEF TranscriptSpec

\* Every transcript the API is sent is one it accepts, and every one kept between
\* turns ends in text.
THEOREM TranscriptIsValid == TranscriptSpec => []TranscriptValid
  BY TranscriptInvInit, TranscriptInvNext, InvIsValid, PTL DEF TranscriptSpec

\* Neither the table nor a transcript grows beyond its cap, but for a closing text and
\* the next message.
THEOREM TranscriptIsBounded == TranscriptSpec => []TranscriptBounded
  BY TranscriptInvInit, TranscriptInvNext, InvIsBounded, PTL DEF TranscriptSpec
=============================================================================

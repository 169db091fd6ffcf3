-------------------------- MODULE DataPlaneProofs --------------------------
(***************************************************************************)
(* That the command queue and its consumers are correct for any number of  *)
(* producers, threads and commands.                                        *)
(*                                                                         *)
(* PlaneInv is not inductive.  The argument is about where the commands    *)
(* are: the channel holds the last ones sent, in order (ChannelInv); those *)
(* that have left it are in one batch, handled, or lost, and each batch is *)
(* increasing (PlacesInv); what a consumer has handled is below what it    *)
(* still holds (HistoryInv).  Every step moves commands in one of five     *)
(* ways, and each of those keeps the three, whoever holds the receiver's   *)
(* lock: all it takes is that one try_recv is atomic.                      *)
(*                                                                         *)
(* The last part is about the host arena that the consumers' commands      *)
(* allocate from.                                                          *)
(***************************************************************************)
EXTENDS DataPlane, HostArena, FiniteSetTheorems, SequenceTheorems, TLAPS

Frame == [k |-> "commit"]
Messages == [n : Nat, cmd : Commands \cup {Frame}]

\* The commands that have left the channel are the first ones sent.
Removed == 1..(sent - Len(chan))

Increasing(s) == \A i, j \in DOMAIN s : i < j => s[i].n < s[j].n

\* The channel holds the last commands sent, in the order they were sent.
ChannelInv ==
    /\ sent \in Nat /\ chan \in Seq(Messages) /\ Len(chan) <= sent
    /\ \A i \in DOMAIN chan : chan[i].n = sent - Len(chan) + i

Held(c) == NumbersOf(batch[c])

\* What was taken is in one batch, handled or lost.
PlacesInv ==
    /\ batch \in [Consumers -> Seq(Messages)] /\ log \in Seq(Nat \X Consumers)
    /\ \A c \in Consumers : Increasing(batch[c])
    /\ \A c, d \in Consumers : c # d => Held(c) \cap Held(d) = {}
    /\ Batched \cap (Logged \cup lost) = {} /\ Logged \cap lost = {}
    /\ Batched \cup Logged \cup lost = Removed

\* A consumer has handled what it took before the rest of its batch.
HistoryInv ==
    /\ \A i, j \in DOMAIN log : log[i][1] = log[j][1] => i = j
    /\ \A i \in DOMAIN log : \A c \in Consumers :
            log[i][2] = c => \A n \in Held(c) : log[i][1] < n
    /\ OrderPerConsumer

CountsInv ==
    /\ pending \in Nat /\ IsFiniteSet(pushing) /\ sent + Cardinality(pushing) <= MaxSends
    /\ PendingCoversFrames

GraphNodes == [uid : Nat, op : {"gemv", "attention"}, deps : {{}}]
OwnerGraphInv ==
    /\ nodes \in Seq(GraphNodes) /\ nodeCount \in [Contexts -> Nat]
    /\ GraphIsCounted


FlowInv == ChannelInv /\ PlacesInv /\ HistoryInv

-----------------------------------------------------------------------------
(* Sequences of numbered commands *)

LEMMA NumbersOfAppend ==
    ASSUME NEW s \in Seq(Messages), NEW m \in Messages
    PROVE  NumbersOf(Append(s, m)) = NumbersOf(s) \cup {m.n}
<1> DEFINE t == Append(s, m)
<1>1. /\ Len(s) \in Nat /\ DOMAIN s = 1..Len(s) /\ DOMAIN t = 1..(Len(s) + 1)
      /\ \A i \in 1..Len(s) : t[i] = s[i]
      /\ t[Len(s) + 1] = m
  OBVIOUS
<1> HIDE DEF t
<1>2. ASSUME NEW x \in NumbersOf(t) PROVE x \in NumbersOf(s) \cup {m.n}
  <2>1. PICK i \in 1..(Len(s) + 1) : x = t[i].n BY <1>1 DEF NumbersOf
  <2>2. CASE i = Len(s) + 1 BY <1>1, <2>1, <2>2
  <2>3. CASE i \in 1..Len(s) BY <1>1, <2>1, <2>3 DEF NumbersOf
  <2> QED BY <1>1, <2>2, <2>3
<1>3. ASSUME NEW x \in NumbersOf(s) PROVE x \in NumbersOf(t)
  <2>1. PICK i \in 1..Len(s) : x = s[i].n BY <1>1 DEF NumbersOf
  <2>2. i \in DOMAIN t /\ x = t[i].n BY <1>1, <2>1
  <2> QED BY <2>2 DEF NumbersOf
<1>4. m.n \in NumbersOf(t)
  <2>1. Len(s) + 1 \in DOMAIN t BY <1>1
  <2> QED BY <1>1, <2>1 DEF NumbersOf
<1> QED BY <1>2, <1>3, <1>4 DEF t

LEMMA IncreasingAppend ==
    ASSUME NEW s \in Seq(Messages), NEW m \in Messages, Increasing(s),
           \A x \in NumbersOf(s) : x < m.n
    PROVE  Increasing(Append(s, m))
<1> DEFINE t == Append(s, m)
<1>1. /\ Len(s) \in Nat /\ DOMAIN s = 1..Len(s) /\ DOMAIN t = 1..(Len(s) + 1)
      /\ \A i \in 1..Len(s) : t[i] = s[i]
      /\ t[Len(s) + 1] = m
  OBVIOUS
<1> HIDE DEF t
<1>2. ASSUME NEW i \in 1..(Len(s) + 1), NEW j \in 1..(Len(s) + 1), i < j PROVE t[i].n < t[j].n
  <2>1. i \in 1..Len(s) BY <1>1, <1>2
  <2>2. CASE j = Len(s) + 1
    <3>1. s[i].n \in NumbersOf(s) BY <1>1, <2>1 DEF NumbersOf
    <3> QED BY <1>1, <2>1, <2>2, <3>1
  <2>3. CASE j \in 1..Len(s) BY <1>1, <1>2, <2>1, <2>3 DEF Increasing
  <2> QED BY <1>1, <2>2, <2>3
<1>3. Increasing(t) BY <1>1, <1>2 DEF Increasing
<1> QED BY <1>3 DEF t

\* The head of an increasing sequence is its least number, and its tail the rest.
LEMMA IncreasingTail ==
    ASSUME NEW s \in Seq(Messages), s # <<>>, Increasing(s)
    PROVE  /\ Tail(s) \in Seq(Messages) /\ Head(s) \in Messages
           /\ Increasing(Tail(s))
           /\ Head(s).n \in NumbersOf(s)
           /\ NumbersOf(Tail(s)) = NumbersOf(s) \ {Head(s).n}
           /\ \A x \in NumbersOf(Tail(s)) : Head(s).n < x
<1> DEFINE t == Tail(s)
           h == Head(s)
<1>1. /\ Len(s) \in Nat /\ Len(s) > 0 /\ DOMAIN s = 1..Len(s)
      /\ t \in Seq(Messages) /\ DOMAIN t = 1..(Len(s) - 1)
      /\ h = s[1] /\ h \in Messages
      /\ \A i \in 1..(Len(s) - 1) : t[i] = s[i + 1]
  OBVIOUS
<1> HIDE DEF t, h
<1>2. \A i \in DOMAIN s : s[i].n \in Nat
  <2>1. \A i \in DOMAIN s : s[i] \in Messages BY <1>1
  <2> QED BY <2>1 DEF Messages
<1>3. Increasing(t)
  <2> SUFFICES ASSUME NEW i \in 1..(Len(s) - 1), NEW j \in 1..(Len(s) - 1), i < j
               PROVE  t[i].n < t[j].n
    BY <1>1 DEF Increasing
  <2>1. i + 1 \in DOMAIN s /\ j + 1 \in DOMAIN s /\ i + 1 < j + 1 BY <1>1
  <2> QED BY <1>1, <2>1 DEF Increasing
<1>4. h.n \in NumbersOf(s) BY <1>1 DEF NumbersOf
<1>5. ASSUME NEW x \in NumbersOf(t) PROVE x \in NumbersOf(s) /\ h.n < x /\ x # h.n
  <2>1. PICK i \in 1..(Len(s) - 1) : x = t[i].n BY <1>1 DEF NumbersOf
  <2>2. i + 1 \in DOMAIN s /\ 1 \in DOMAIN s /\ 1 < i + 1 /\ x = s[i + 1].n BY <1>1, <2>1
  <2>3. h.n < x BY <1>1, <2>2 DEF Increasing
  <2>4. x \in Nat /\ h.n \in Nat BY <1>1, <1>2, <2>2
  <2> QED BY <2>2, <2>3, <2>4 DEF NumbersOf
<1>6. ASSUME NEW x \in NumbersOf(s), x # h.n PROVE x \in NumbersOf(t)
  <2>1. PICK i \in 1..Len(s) : x = s[i].n BY <1>1 DEF NumbersOf
  <2>2. i # 1 BY <1>1, <1>6, <2>1
  <2>3. i - 1 \in 1..(Len(s) - 1) /\ (i - 1) + 1 = i BY <1>1, <2>2
  <2>4. x = t[i - 1].n BY <1>1, <2>1, <2>3
  <2> QED BY <1>1, <2>3, <2>4 DEF NumbersOf
<1> QED BY <1>1, <1>3, <1>4, <1>5, <1>6 DEF t, h

\* The channel is increasing and holds the last numbers.
LEMMA ChannelOrder ==
    ASSUME ChannelInv
    PROVE  Increasing(chan) /\ Queued = (sent - Len(chan) + 1)..sent
<1>1. /\ sent \in Nat /\ Len(chan) \in Nat /\ Len(chan) <= sent /\ DOMAIN chan = 1..Len(chan)
      /\ \A i \in 1..Len(chan) : chan[i].n = sent - Len(chan) + i
  BY DEF ChannelInv
<1>2. Increasing(chan) BY <1>1 DEF Increasing
<1>3. ASSUME NEW x \in Queued PROVE x \in (sent - Len(chan) + 1)..sent
  BY <1>1 DEF Queued, NumbersOf
<1>4. ASSUME NEW x \in (sent - Len(chan) + 1)..sent PROVE x \in Queued
  <2>1. x - (sent - Len(chan)) \in 1..Len(chan) BY <1>1
  <2>2. chan[x - (sent - Len(chan))].n = x BY <1>1, <2>1
  <2> QED BY <1>1, <2>1, <2>2 DEF Queued, NumbersOf
<1> QED BY <1>2, <1>3, <1>4

-----------------------------------------------------------------------------
(* What a step does to the places of commands *)

MoveSend(cmd) ==
    /\ sent' = sent + 1 /\ chan' = Append(chan, [n |-> sent + 1, cmd |-> cmd])
    /\ UNCHANGED <<batch, log, lost>>

MovePop(c) ==
    /\ chan # <<>> /\ chan' = Tail(chan)
    /\ batch' = [batch EXCEPT ![c] = Append(@, Head(chan))]
    /\ UNCHANGED <<sent, log, lost>>

MoveHandle(c) ==
    /\ batch[c] # <<>> /\ batch' = [batch EXCEPT ![c] = Tail(@)]
    /\ log' = Append(log, <<Head(batch[c]).n, c>>)
    /\ UNCHANGED <<sent, chan, lost>>

MoveAbandon(c) ==
    /\ batch[c] # <<>> /\ batch' = [batch EXCEPT ![c] = <<>>]
    /\ log' = Append(log, <<Head(batch[c]).n, c>>)
    /\ lost' = lost \cup {batch[c][i].n : i \in 2..Len(batch[c])}
    /\ UNCHANGED <<sent, chan>>

MoveDrop(c) ==
    /\ batch' = [batch EXCEPT ![c] = <<>>]
    /\ lost' = lost \cup NumbersOf(batch[c])
    /\ UNCHANGED <<sent, chan, log>>

LEMMA SendFlow ==
    ASSUME FlowInv, NEW cmd \in Commands \cup {Frame}, MoveSend(cmd)
    PROVE  FlowInv'
<1>0. ChannelInv /\ PlacesInv /\ HistoryInv BY DEF FlowInv
<1> DEFINE m == [n |-> sent + 1, cmd |-> cmd]
<1>1. sent \in Nat /\ chan \in Seq(Messages) /\ Len(chan) \in Nat /\ Len(chan) <= sent /\ m \in Messages
  BY <1>0 DEF ChannelInv, Messages
<1>2. chan' = Append(chan, m) /\ sent' = sent + 1 BY DEF MoveSend
<1>3. m.n = sent + 1 OBVIOUS
<1> HIDE DEF m
<1>4. /\ chan' \in Seq(Messages) /\ Len(chan') = Len(chan) + 1 /\ DOMAIN chan' = 1..(Len(chan) + 1)
      /\ \A i \in 1..Len(chan) : chan'[i] = chan[i]
      /\ chan'[Len(chan) + 1] = m
  BY <1>1, <1>2
<1>5. ASSUME NEW i \in 1..(Len(chan) + 1) PROVE chan'[i].n = sent' - Len(chan') + i
  <2>1. CASE i = Len(chan) + 1 BY <1>1, <1>2, <1>3, <1>4, <2>1
  <2>2. CASE i \in 1..Len(chan)
    <3>1. chan[i].n = sent - Len(chan) + i BY <1>0, <1>1, <2>2 DEF ChannelInv
    <3> QED BY <1>1, <1>2, <1>4, <2>2, <3>1
  <2> QED BY <1>1, <2>1, <2>2
<1>6. ChannelInv' BY <1>1, <1>2, <1>4, <1>5 DEF ChannelInv
<1>7. Removed' = Removed BY <1>1, <1>2, <1>4 DEF Removed
<1>8. batch' = batch /\ log' = log /\ lost' = lost BY DEF MoveSend
<1>9. (\A c : Held(c)' = Held(c)) /\ Batched' = Batched /\ Logged' = Logged
  BY <1>8 DEF Held, Batched, Logged, NumbersOf
<1>10. PlacesInv' BY <1>0, <1>7, <1>8, <1>9 DEF PlacesInv
<1>11. HistoryInv' BY <1>0, <1>8, <1>9 DEF HistoryInv, OrderPerConsumer
<1> QED BY <1>6, <1>10, <1>11 DEF FlowInv

\* The sets that a step of one consumer leaves, from what its batch becomes.
LEMMA BatchedAfter ==
    ASSUME PlacesInv, NEW c \in Consumers, NEW s \in Seq(Messages),
           batch' = [batch EXCEPT ![c] = s]
    PROVE  /\ batch' \in [Consumers -> Seq(Messages)]
           /\ Held(c)' = NumbersOf(s)
           /\ \A d \in Consumers \ {c} : Held(d)' = Held(d) /\ batch'[d] = batch[d]
           /\ Batched' = (Batched \ Held(c)) \cup NumbersOf(s)
<1>1. batch' \in [Consumers -> Seq(Messages)] /\ batch'[c] = s BY DEF PlacesInv
<1>2. \A d \in Consumers \ {c} : batch'[d] = batch[d] BY DEF PlacesInv
<1>3. Held(c)' = NumbersOf(s) /\ \A d \in Consumers \ {c} : Held(d)' = Held(d)
  BY <1>1, <1>2 DEF Held, NumbersOf
<1>4. Batched = UNION {Held(d) : d \in Consumers} BY DEF Batched, Held
<1>5. Batched' = UNION {Held(d)' : d \in Consumers} BY DEF Batched, Held, NumbersOf
<1>6. \A d \in Consumers : d # c => Held(d) \cap Held(c) = {} BY DEF PlacesInv
<1>7. ASSUME NEW x \in Batched' PROVE x \in (Batched \ Held(c)) \cup NumbersOf(s)
  <2>1. PICK d \in Consumers : x \in Held(d)' BY <1>5
  <2> QED BY <1>3, <1>4, <1>6, <2>1
<1>8. ASSUME NEW x \in (Batched \ Held(c)) \cup NumbersOf(s) PROVE x \in Batched'
  <2>1. CASE x \in NumbersOf(s) BY <1>3, <1>5, <2>1
  <2>2. CASE x \in Batched \ Held(c)
    <3>1. PICK d \in Consumers : x \in Held(d) BY <1>4, <2>2
    <3>2. d # c BY <2>2, <3>1
    <3> QED BY <1>3, <1>5, <3>1, <3>2
  <2> QED BY <1>8, <2>1, <2>2
<1> QED BY <1>1, <1>2, <1>3, <1>7, <1>8

LEMMA PopFlow ==
    ASSUME FlowInv, NEW c \in Consumers, MovePop(c)
    PROVE  FlowInv'
<1>0. ChannelInv /\ PlacesInv /\ HistoryInv BY DEF FlowInv
<1> DEFINE h == Head(chan)
           s == Append(batch[c], h)
<1>1. /\ sent \in Nat /\ chan \in Seq(Messages) /\ Len(chan) \in Nat /\ 0 < Len(chan) /\ Len(chan) <= sent
      /\ h = chan[1] /\ h \in Messages
      /\ chan' \in Seq(Messages) /\ Len(chan') = Len(chan) - 1 /\ DOMAIN chan' = 1..(Len(chan) - 1)
      /\ \A i \in 1..(Len(chan) - 1) : chan'[i] = chan[i + 1]
      /\ sent' = sent
  BY <1>0 DEF MovePop, ChannelInv
<1>2. h.n = sent - Len(chan) + 1 BY <1>0, <1>1 DEF ChannelInv
<1>3. ChannelInv'
  <2>1. ASSUME NEW i \in 1..(Len(chan) - 1) PROVE chan'[i].n = sent' - Len(chan') + i
    <3>1. i + 1 \in DOMAIN chan BY <1>1
    <3>2. chan[i + 1].n = sent - Len(chan) + (i + 1) BY <1>0, <3>1 DEF ChannelInv
    <3> QED BY <1>1, <3>2
  <2> QED BY <1>1, <2>1 DEF ChannelInv
<1>4. Removed' = Removed \cup {h.n} /\ h.n \notin Removed /\ \A x \in Removed : x < h.n
  BY <1>1, <1>2 DEF Removed
<1>5. batch[c] \in Seq(Messages) /\ Held(c) \subseteq Batched /\ Batched \subseteq Removed
  BY <1>0 DEF PlacesInv, Held, Batched
<1> HIDE DEF h
<1>6. s \in Seq(Messages) /\ NumbersOf(s) = Held(c) \cup {h.n} BY <1>1, <1>5, NumbersOfAppend DEF Held
<1>7. Increasing(s)
  <2>1. \A x \in NumbersOf(batch[c]) : x < h.n BY <1>4, <1>5 DEF Held
  <2> QED BY <1>0, <1>1, <1>5, <2>1, IncreasingAppend DEF PlacesInv
<1>8. batch' = [batch EXCEPT ![c] = s] /\ log' = log /\ lost' = lost BY DEF MovePop, h
<1> HIDE DEF s
<1>9. /\ batch' \in [Consumers -> Seq(Messages)] /\ batch'[c] = s
      /\ Held(c)' = Held(c) \cup {h.n}
      /\ \A d \in Consumers \ {c} : Held(d)' = Held(d) /\ batch'[d] = batch[d]
      /\ Batched' = Batched \cup {h.n}
  BY <1>0, <1>5, <1>6, <1>8, BatchedAfter DEF PlacesInv
<1>10. PlacesInv'
  <2>1. Logged' = Logged BY <1>8 DEF Logged
  <2>2. \A d \in Consumers : Increasing(batch'[d]) BY <1>0, <1>7, <1>9 DEF PlacesInv
  <2>3. \A d \in Consumers : Held(d) \subseteq Batched BY DEF Held, Batched
  <2>4. ASSUME NEW d \in Consumers, NEW e \in Consumers, d # e PROVE Held(d)' \cap Held(e)' = {}
    <3>1. Held(d) \cap Held(e) = {} BY <1>0, <2>4 DEF PlacesInv
    <3>2. h.n \notin Held(d) /\ h.n \notin Held(e) BY <1>4, <1>5, <2>3
    <3> QED BY <1>9, <2>4, <3>1, <3>2
  <2>5. /\ Batched' \cap (Logged' \cup lost') = {} /\ Logged' \cap lost' = {}
        /\ Batched' \cup Logged' \cup lost' = Removed'
    BY <1>0, <1>4, <1>8, <1>9, <2>1 DEF PlacesInv
  <2> QED BY <1>0, <1>8, <1>9, <2>2, <2>4, <2>5 DEF PlacesInv
<1>11. HistoryInv'
  <2>1. ASSUME NEW i \in DOMAIN log, NEW d \in Consumers, log[i][2] = d, NEW x \in Held(d)'
        PROVE  log[i][1] < x
    <3>1. CASE x \in Held(d) BY <1>0, <2>1, <3>1 DEF HistoryInv
    <3>2. CASE x = h.n
      <4>1. log[i][1] \in Removed BY <1>0 DEF PlacesInv, Logged
      <4> QED BY <1>4, <3>2, <4>1
    <3> QED BY <1>9, <2>1, <3>1, <3>2
  <2>2. \A i \in DOMAIN log' : \A d \in Consumers : log'[i][2] = d => \A x \in Held(d)' : log'[i][1] < x
    BY <1>8, <2>1
  <2>3. OrderPerConsumer' /\ \A i, j \in DOMAIN log' : log'[i][1] = log'[j][1] => i = j
    BY <1>0, <1>8 DEF HistoryInv, OrderPerConsumer
  <2> QED BY <2>2, <2>3 DEF HistoryInv
<1> QED BY <1>3, <1>10, <1>11 DEF FlowInv

\* A consumer logs the least number it holds and keeps larger ones: the history
\* stays in its order.
LEMMA LogStep ==
    ASSUME PlacesInv, HistoryInv, NEW c \in Consumers, NEW h \in Nat, h \in Held(c),
           log' = Append(log, <<h, c>>),
           \A d \in Consumers \ {c} : Held(d)' = Held(d),
           \A x \in Held(c)' : x \in Held(c) /\ h < x
    PROVE  log' \in Seq(Nat \X Consumers) /\ Logged' = Logged \cup {h} /\ HistoryInv'
<1>1. log \in Seq(Nat \X Consumers) /\ <<h, c>> \in Nat \X Consumers BY DEF PlacesInv
<1> DEFINE e == <<h, c>>
<1>2. e[1] = h /\ e[2] = c OBVIOUS
<1> HIDE DEF e
<1>3. /\ log' \in Seq(Nat \X Consumers) /\ Len(log) \in Nat
      /\ DOMAIN log = 1..Len(log) /\ DOMAIN log' = 1..(Len(log) + 1)
      /\ \A i \in 1..Len(log) : log'[i] = log[i]
      /\ log'[Len(log) + 1] = e
  BY <1>1 DEF e
<1>4. \A i \in 1..Len(log) : log[i][1] \in Nat /\ log[i][2] \in Consumers BY <1>1
<1>5. h \notin Logged BY DEF PlacesInv, Batched, Held
<1>6. \A i \in 1..Len(log) : log[i][1] # h BY <1>3, <1>5 DEF Logged
<1>7. \A i \in 1..Len(log) : log[i][2] = c => log[i][1] < h BY <1>3 DEF HistoryInv
<1>8. Logged' = Logged \cup {h}
  <2>1. ASSUME NEW x \in Logged' PROVE x \in Logged \cup {h}
    <3>1. PICK i \in 1..(Len(log) + 1) : x = log'[i][1] BY <1>3 DEF Logged
    <3>2. CASE i = Len(log) + 1 BY <1>2, <1>3, <3>1, <3>2
    <3>3. CASE i \in 1..Len(log) BY <1>3, <3>1, <3>3 DEF Logged
    <3> QED BY <1>3, <3>2, <3>3
  <2>2. ASSUME NEW x \in Logged PROVE x \in Logged'
    <3>1. PICK i \in 1..Len(log) : x = log[i][1] BY <1>3 DEF Logged
    <3>2. i \in DOMAIN log' /\ x = log'[i][1] BY <1>3, <3>1
    <3> QED BY <3>2 DEF Logged
  <2>3. h \in Logged'
    <3>1. Len(log) + 1 \in DOMAIN log' BY <1>3
    <3> QED BY <1>2, <1>3, <3>1 DEF Logged
  <2> QED BY <2>1, <2>2, <2>3
<1>9. ASSUME NEW i \in 1..(Len(log) + 1), NEW j \in 1..(Len(log) + 1)
      PROVE  /\ log'[i][1] = log'[j][1] => i = j
             /\ (i < j /\ log'[i][1] > log'[j][1]) => log'[i][2] # log'[j][2]
  <2>1. CASE i \in 1..Len(log) /\ j \in 1..Len(log)
    <3>1. log'[i] = log[i] /\ log'[j] = log[j] /\ i \in DOMAIN log /\ j \in DOMAIN log BY <1>3, <2>1
    <3> QED BY <3>1 DEF HistoryInv, OrderPerConsumer
  <2>2. CASE i \in 1..Len(log) /\ j = Len(log) + 1
    <3>1. log'[i] = log[i] /\ log'[j][1] = h /\ log'[j][2] = c BY <1>2, <1>3, <2>2
    <3>2. log[i][1] # h /\ (log[i][2] = c => log[i][1] < h) /\ log[i][1] \in Nat
      BY <1>4, <1>6, <1>7, <2>2
    <3> QED BY <3>1, <3>2
  <2>3. CASE i = Len(log) + 1 /\ j \in 1..Len(log)
    <3>1. log'[j] = log[j] /\ log'[i][1] = h /\ log[j][1] # h /\ ~(i < j) BY <1>2, <1>3, <1>6, <2>3
    <3> QED BY <3>1
  <2>4. CASE i = Len(log) + 1 /\ j = Len(log) + 1 BY <1>3, <2>4
  <2> QED BY <1>3, <2>1, <2>2, <2>3, <2>4, SMTT(40)
<1>10. ASSUME NEW i \in 1..(Len(log) + 1), NEW d \in Consumers, log'[i][2] = d, NEW x \in Held(d)'
       PROVE  log'[i][1] < x
  <2>1. x \in Held(d) BY <1>10
  <2>2. CASE i = Len(log) + 1 BY <1>2, <1>3, <1>10, <2>2
  <2>3. CASE i \in 1..Len(log) BY <1>3, <1>10, <2>1, <2>3 DEF HistoryInv
  <2> QED BY <1>3, <2>2, <2>3
<1>11. HistoryInv'
  <2>1. \A i, j \in DOMAIN log' : log'[i][1] = log'[j][1] => i = j BY <1>3, <1>9
  <2>2. OrderPerConsumer'
    <3>1. \A i, j \in DOMAIN log' : (i < j /\ log'[i][1] > log'[j][1]) => log'[i][2] # log'[j][2]
      <4> SUFFICES ASSUME NEW i \in DOMAIN log', NEW j \in DOMAIN log', i < j, log'[i][1] > log'[j][1]
                   PROVE  log'[i][2] # log'[j][2]
        OBVIOUS
      <4>1. i \in 1..(Len(log) + 1) /\ j \in 1..(Len(log) + 1) BY <1>3
      <4> QED BY <1>9, <4>1, Zenon
    <3> QED BY <3>1, Zenon DEF OrderPerConsumer
  <2>3. \A i \in DOMAIN log' : \A d \in Consumers : log'[i][2] = d => \A x \in Held(d)' : log'[i][1] < x
    BY <1>3, <1>10
  <2> QED BY <2>1, <2>2, <2>3, Zenon DEF HistoryInv
<1> QED BY <1>3, <1>8, <1>11

\* What places become when a consumer gives up held numbers to the log and to lost.
LEMMA PlacesAfter ==
    ASSUME PlacesInv, NEW c \in Consumers, NEW s \in Seq(Messages), Increasing(s),
           batch' = [batch EXCEPT ![c] = s], log' \in Seq(Nat \X Consumers),
           NEW L, NEW G, L \subseteq Held(c), G \subseteq Held(c), L \cap G = {},
           NumbersOf(s) = Held(c) \ (L \cup G),
           Logged' = Logged \cup L, lost' = lost \cup G, UNCHANGED <<sent, chan>>
    PROVE  PlacesInv'
<1>1. /\ batch' \in [Consumers -> Seq(Messages)] /\ batch'[c] = s
      /\ Held(c)' = NumbersOf(s)
      /\ \A d \in Consumers \ {c} : Held(d)' = Held(d) /\ batch'[d] = batch[d]
      /\ Batched' = (Batched \ Held(c)) \cup NumbersOf(s)
  BY BatchedAfter DEF PlacesInv
<1>2. \A d \in Consumers : Increasing(batch'[d]) BY <1>1 DEF PlacesInv
<1>3. ASSUME NEW d \in Consumers, NEW e \in Consumers, d # e PROVE Held(d)' \cap Held(e)' = {}
  <2>1. Held(d) \cap Held(e) = {} BY <1>3 DEF PlacesInv
  <2>2. Held(d)' \subseteq Held(d) /\ Held(e)' \subseteq Held(e) BY <1>1
  <2> QED BY <2>1, <2>2
<1>4. Held(c) \subseteq Batched BY DEF Held, Batched
<1>5. Removed' = Removed BY DEF Removed
<1>6. /\ Batched' \cap (Logged' \cup lost') = {} /\ Logged' \cap lost' = {}
      /\ Batched' \cup Logged' \cup lost' = Removed'
  BY <1>1, <1>4, <1>5 DEF PlacesInv
<1> QED BY <1>1, <1>2, <1>3, <1>6 DEF PlacesInv

LEMMA HandleFlow ==
    ASSUME FlowInv, NEW c \in Consumers, MoveHandle(c) \/ MoveAbandon(c)
    PROVE  FlowInv'
<1>0. ChannelInv /\ PlacesInv /\ HistoryInv BY DEF FlowInv
<1> DEFINE b == batch[c]
           h == Head(b).n
<1>1. /\ b # <<>> /\ b \in Seq(Messages) /\ Increasing(b)
      /\ log' = Append(log, <<h, c>>) /\ UNCHANGED <<sent, chan>>
  BY <1>0 DEF MoveHandle, MoveAbandon, PlacesInv
<1>2. /\ Tail(b) \in Seq(Messages) /\ Increasing(Tail(b)) /\ h \in Nat /\ h \in Held(c)
      /\ NumbersOf(Tail(b)) = Held(c) \ {h} /\ \A x \in NumbersOf(Tail(b)) : h < x
  BY <1>1, IncreasingTail DEF Held, Messages
<1>3. ChannelInv' BY <1>0, <1>1 DEF ChannelInv
<1>4. \E s \in {Tail(b), <<>>} : batch' = [batch EXCEPT ![c] = s] BY DEF MoveHandle, MoveAbandon
<1>5. PICK s \in {Tail(b), <<>>} : batch' = [batch EXCEPT ![c] = s] BY <1>4
<1>6. <<>> \in Seq(Messages) /\ NumbersOf(<<>>) = {} /\ Increasing(<<>>) BY DEF NumbersOf, Increasing
<1>7. s \in Seq(Messages) /\ NumbersOf(s) \subseteq NumbersOf(Tail(b)) /\ Increasing(s)
  BY <1>2, <1>5, <1>6
<1>8. /\ Held(c)' = NumbersOf(s)
      /\ \A d \in Consumers \ {c} : Held(d)' = Held(d)
  BY <1>0, <1>5, <1>7, BatchedAfter
<1> HIDE DEF h, b
<1>9. log' \in Seq(Nat \X Consumers) /\ Logged' = Logged \cup {h} /\ HistoryInv'
  BY <1>0, <1>1, <1>2, <1>7, <1>8, LogStep
<1>10. CASE MoveHandle(c)
  <2>1. batch' = [batch EXCEPT ![c] = Tail(b)] /\ lost' = lost \cup {} BY <1>10 DEF MoveHandle, b
  <2>2. NumbersOf(Tail(b)) = Held(c) \ ({h} \cup {}) BY <1>2
  <2>3. {h} \subseteq Held(c) /\ {} \subseteq Held(c) /\ {h} \cap {} = {} BY <1>2
  <2>4. PlacesInv' BY <1>0, <1>1, <1>2, <1>9, <2>1, <2>2, <2>3, PlacesAfter, Zenon
  <2> QED BY <1>3, <1>9, <2>4 DEF FlowInv
<1>11. CASE MoveAbandon(c)
  <2> DEFINE G == {b[i].n : i \in 2..Len(b)}
  <2>1. batch' = [batch EXCEPT ![c] = <<>>] /\ lost' = lost \cup G BY <1>11 DEF MoveAbandon, b
  <2>2. G = NumbersOf(Tail(b))
    <3>1. /\ Len(b) \in Nat /\ DOMAIN Tail(b) = 1..(Len(b) - 1)
          /\ \A i \in 1..(Len(b) - 1) : Tail(b)[i] = b[i + 1]
      BY <1>1
    <3>2. ASSUME NEW x \in G PROVE x \in NumbersOf(Tail(b))
      <4>1. PICK i \in 2..Len(b) : x = b[i].n OBVIOUS
      <4>2. i - 1 \in 1..(Len(b) - 1) /\ (i - 1) + 1 = i BY <3>1
      <4>3. Tail(b)[i - 1] = b[i] BY <3>1, <4>2
      <4> QED BY <3>1, <4>1, <4>2, <4>3 DEF NumbersOf
    <3>3. ASSUME NEW x \in NumbersOf(Tail(b)) PROVE x \in G
      <4>1. PICK i \in 1..(Len(b) - 1) : x = Tail(b)[i].n BY <3>1 DEF NumbersOf
      <4>2. i + 1 \in 2..Len(b) /\ x = b[i + 1].n BY <3>1, <4>1
      <4> QED BY <4>2
    <3> QED BY <3>2, <3>3
  <2> HIDE DEF G
  <2>3. /\ G \subseteq Held(c) /\ {h} \subseteq Held(c) /\ {h} \cap G = {}
        /\ NumbersOf(<<>>) = Held(c) \ ({h} \cup G)
    BY <1>2, <1>6, <2>2
  <2>4. PlacesInv' BY <1>0, <1>1, <1>6, <1>9, <2>1, <2>3, PlacesAfter
  <2> QED BY <1>3, <1>9, <2>4 DEF FlowInv
<1> QED BY <1>10, <1>11

LEMMA DropFlow ==
    ASSUME FlowInv, NEW c \in Consumers, MoveDrop(c)
    PROVE  FlowInv'
<1>0. ChannelInv /\ PlacesInv /\ HistoryInv BY DEF FlowInv
<1>1. /\ batch' = [batch EXCEPT ![c] = <<>>] /\ lost' = lost \cup Held(c)
      /\ UNCHANGED <<sent, chan>> /\ log' = log
  BY DEF MoveDrop, Held
<1>2. <<>> \in Seq(Messages) /\ NumbersOf(<<>>) = {} /\ Increasing(<<>>) BY DEF NumbersOf, Increasing
<1>3. ChannelInv' BY <1>0, <1>1 DEF ChannelInv
<1>4. PlacesInv'
  <2>1. NumbersOf(<<>>) = Held(c) \ ({} \cup Held(c)) BY <1>2
  <2>2. Logged' = Logged \cup {} /\ log' \in Seq(Nat \X Consumers) BY <1>0, <1>1 DEF Logged, PlacesInv
  <2> QED BY <1>0, <1>1, <1>2, <2>1, <2>2, PlacesAfter
<1>5. Held(c)' = {} /\ \A d \in Consumers \ {c} : Held(d)' = Held(d)
  BY <1>0, <1>1, <1>2, BatchedAfter
<1>6. HistoryInv'
  <2>1. ASSUME NEW i \in DOMAIN log, NEW d \in Consumers, log[i][2] = d, NEW x \in Held(d)'
        PROVE  log[i][1] < x
    BY <1>0, <1>5, <2>1 DEF HistoryInv
  <2>2. \A i \in DOMAIN log' : \A d \in Consumers : log'[i][2] = d => \A x \in Held(d)' : log'[i][1] < x
    BY <1>1, <2>1
  <2>3. OrderPerConsumer' /\ \A i, j \in DOMAIN log' : log'[i][1] = log'[j][1] => i = j
    BY <1>0, <1>1 DEF HistoryInv, OrderPerConsumer
  <2> QED BY <2>2, <2>3 DEF HistoryInv
<1> QED BY <1>3, <1>4, <1>6 DEF FlowInv

flowVars == <<sent, chan, batch, log, lost>>

\* Every step of the system moves commands in one of these ways or not at all.
LEMMA StepsAreMoves ==
    ASSUME [DataNext]_vars
    PROVE  \/ \E cmd \in Commands \cup {Frame} : MoveSend(cmd)
           \/ \E c \in Consumers : MovePop(c) \/ MoveHandle(c) \/ MoveAbandon(c) \/ MoveDrop(c)
           \/ UNCHANGED flowVars
<1> DEFINE goal == \/ \E cmd \in Commands \cup {Frame} : MoveSend(cmd)
                   \/ \E c \in Consumers : MovePop(c) \/ MoveHandle(c) \/ MoveAbandon(c) \/ MoveDrop(c)
                   \/ UNCHANGED flowVars
<1>1. ASSUME NEW cmd \in Commands, Push(cmd) PROVE goal
  <2>1. MoveSend(cmd) BY <1>1 DEF Push, Send, MoveSend
  <2> QED BY <2>1
<1>2. ASSUME NEW p \in Producers, SendCommit(p) PROVE goal
  <2>1. MoveSend(Frame) BY <1>2 DEF SendCommit, Send, MoveSend, Frame, planeVars
  <2> QED BY <2>1
<1>3. ASSUME NEW p \in Producers, PushCommit(p) PROVE goal
  BY <1>3 DEF PushCommit, flowVars
<1>4. ASSUME NEW c \in Consumers, LockReceiver(c) \/ ThreadTop(c) PROVE goal
  BY <1>4 DEF LockReceiver, ThreadTop, flowVars, queueVars
<1>5. ASSUME NEW c \in Consumers, PopOne(c) PROVE goal
  <2>1. MovePop(c) BY <1>5 DEF PopOne, MovePop, Taken
  <2> QED BY <2>1
<1>6. ASSUME NEW c \in Consumers, PopDone(c) PROVE goal
  <2>1. MoveDrop(c) \/ UNCHANGED flowVars BY <1>6 DEF PopDone, MoveDrop, NumbersOf, flowVars, queueVars
  <2> QED BY <2>1
<1>7. ASSUME NEW c \in Consumers, Handle(c) PROVE goal
  <2>1. CASE Create(c) \/ Dispatch(c) \/ Commit(c) \/ Ignore(c)
    <3>1. MoveHandle(c)
      BY <2>1 DEF Create, Dispatch, Commit, Ignore, Handled, Advance, Num, MoveHandle, queueVars
    <3> QED BY <3>1
  <2>2. CASE CreatePanics(c) \/ Shutdown(c)
    <3>1. MoveAbandon(c)
      BY <2>2 DEF CreatePanics, Shutdown, Handled, Abandon, Num, MoveAbandon, queueVars
    <3> QED BY <3>1
  <2> QED BY <1>7, <2>1, <2>2 DEF Handle
<1>8. ASSUME NEW t \in Threads, Start(t) PROVE goal BY <1>8 DEF Start, flowVars, queueVars
<1>9. CASE Stop \/ OwnerFinishes \/ ProcessSync
  BY <1>9 DEF Stop, OwnerFinishes, StopReturns, Unwind, ProcessSync, flowVars, queueVars
<1>10. CASE UNCHANGED vars BY <1>10 DEF vars, queueVars, flowVars
<1> HIDE DEF goal
<1>11. goal
  BY <1>1, <1>2, <1>3, <1>4, <1>5, <1>6, <1>7, <1>8, <1>9, <1>10, Zenon DEF DataNext, Consume, goal
<1> QED BY <1>11 DEF goal

LEMMA FlowStep == FlowInv /\ [DataNext]_vars => FlowInv'
<1> SUFFICES ASSUME FlowInv, [DataNext]_vars PROVE FlowInv' OBVIOUS
<1>1. CASE UNCHANGED flowVars
  <2>1. /\ sent' = sent /\ chan' = chan /\ batch' = batch /\ log' = log /\ lost' = lost
    BY <1>1 DEF flowVars
  <2>2. Batched' = Batched /\ Logged' = Logged /\ Removed' = Removed /\ \A c : Held(c)' = Held(c)
    BY <2>1 DEF Batched, Logged, Removed, Held, NumbersOf
  <2> QED BY <2>1, <2>2 DEF FlowInv, ChannelInv, PlacesInv, HistoryInv, OrderPerConsumer
<1> QED BY <1>1, StepsAreMoves, SendFlow, PopFlow, HandleFlow, DropFlow, Zenon

\* The invariant of the flow says what EachCommandOnce does.
LEMMA FlowOnce == FlowInv => EachCommandOnce
<1> SUFFICES ASSUME FlowInv PROVE EachCommandOnce OBVIOUS
<1>0. ChannelInv /\ PlacesInv /\ HistoryInv BY DEF FlowInv
<1>1. Increasing(chan) /\ Queued = (sent - Len(chan) + 1)..sent BY <1>0, ChannelOrder
<1>2. sent \in Nat /\ Len(chan) \in Nat /\ Len(chan) <= sent BY <1>0 DEF ChannelInv
<1>3. Queued \cup Removed = 1..sent /\ Queued \cap Removed = {} BY <1>1, <1>2 DEF Removed
<1>4. Batched \cup Logged \cup lost = Removed BY <1>0 DEF PlacesInv
<1>5. \A i, j \in DOMAIN chan : chan[i].n = chan[j].n => i = j
  <2>1. /\ DOMAIN chan \subseteq Nat
        /\ \A i \in DOMAIN chan : chan[i].n = sent - Len(chan) + i
    BY <1>0 DEF ChannelInv
  <2> QED BY <1>2, <2>1
<1>6. ASSUME NEW c \in Consumers, NEW d \in Consumers, NEW i \in DOMAIN batch[c],
             NEW j \in DOMAIN batch[d], batch[c][i].n = batch[d][j].n
      PROVE  c = d /\ i = j
  <2>1. c = d BY <1>0, <1>6, ZenonT(40) DEF PlacesInv, Held, NumbersOf
  <2>2. batch[c] \in Seq(Messages) /\ Increasing(batch[c]) BY <1>0 DEF PlacesInv
  <2>3. i \in Nat /\ j \in Nat /\ batch[c][i].n \in Nat
    <3>1. i \in Nat /\ j \in Nat /\ batch[c][i] \in Messages BY <2>1, <2>2
    <3> QED BY <3>1 DEF Messages
  <2>4. ~(i < j) /\ ~(j < i) BY <1>6, <2>1, <2>2, <2>3 DEF Increasing
  <2> QED BY <2>1, <2>3, <2>4
<1>7. /\ Queued \cup Batched \cup Logged \cup lost = 1..sent
      /\ Queued \cap (Batched \cup Logged \cup lost) = {}
  BY <1>3, <1>4
<1>8. Batched \cap (Logged \cup lost) = {} /\ Logged \cap lost = {} BY <1>0 DEF PlacesInv
<1>9. \A i, j \in DOMAIN log : log[i][1] = log[j][1] => i = j BY <1>0 DEF HistoryInv
<1> QED BY <1>5, <1>6, <1>7, <1>8, <1>9 DEF EachCommandOnce

-----------------------------------------------------------------------------
(* The count of frames *)

LEMMA FramesFinite ==
    ASSUME ChannelInv
    PROVE  IsFiniteSet(Frames) /\ Cardinality(Frames) \in Nat /\ Frames \subseteq Queued
<1>1. sent \in Int /\ sent - Len(chan) + 1 \in Int BY DEF ChannelInv
<1>2. IsFiniteSet(Queued) BY <1>1, ChannelOrder, FS_Interval
<1>3. Frames \subseteq Queued BY DEF Frames, Queued, NumbersOf
<1> QED BY <1>2, <1>3, FS_Subset, FS_CardinalityType

LEMMA FramesAppend ==
    ASSUME ChannelInv, NEW m \in Messages, chan' = Append(chan, m)
    PROVE  Frames' = IF m.cmd.k = "commit" THEN Frames \cup {m.n} ELSE Frames
<1>1. /\ Len(chan) \in Nat /\ DOMAIN chan = 1..Len(chan) /\ DOMAIN chan' = 1..(Len(chan) + 1)
      /\ \A i \in 1..Len(chan) : chan'[i] = chan[i]
      /\ chan'[Len(chan) + 1] = m
  BY DEF ChannelInv
<1>2. ASSUME NEW x \in Frames' PROVE x \in Frames \/ (m.cmd.k = "commit" /\ x = m.n)
  <2>1. PICK i \in DOMAIN chan' : chan'[i].cmd.k = "commit" /\ x = chan'[i].n BY DEF Frames
  <2>2. CASE i = Len(chan) + 1 BY <1>1, <2>1, <2>2
  <2>3. CASE i \in 1..Len(chan) BY <1>1, <2>1, <2>3 DEF Frames
  <2> QED BY <1>1, <2>2, <2>3
<1>3. ASSUME NEW x \in Frames PROVE x \in Frames'
  <2>1. PICK i \in DOMAIN chan : chan[i].cmd.k = "commit" /\ x = chan[i].n BY DEF Frames
  <2>2. i \in DOMAIN chan' /\ chan'[i] = chan[i] BY <1>1
  <2> QED BY <2>1, <2>2 DEF Frames
<1>4. m.cmd.k = "commit" => m.n \in Frames'
  <2>1. Len(chan) + 1 \in DOMAIN chan' BY <1>1
  <2> QED BY <1>1, <2>1 DEF Frames
<1> QED BY <1>2, <1>3, <1>4

LEMMA FramesTail ==
    ASSUME ChannelInv, chan # <<>>, chan' = Tail(chan)
    PROVE  IF Head(chan).cmd.k = "commit"
           THEN Head(chan).n \in Frames /\ Frames' = Frames \ {Head(chan).n}
           ELSE Frames' = Frames
<1> DEFINE h == Head(chan)
<1>1. /\ Len(chan) \in Nat /\ Len(chan) > 0 /\ DOMAIN chan = 1..Len(chan) /\ sent \in Nat
      /\ DOMAIN chan' = 1..(Len(chan) - 1) /\ h = chan[1]
      /\ \A i \in 1..(Len(chan) - 1) : chan'[i] = chan[i + 1]
      /\ \A i \in 1..Len(chan) : chan[i].n = sent - Len(chan) + i
  BY DEF ChannelInv
<1> HIDE DEF h
<1>2. ASSUME NEW x \in Frames' PROVE x \in Frames /\ x # h.n
  <2>1. PICK i \in DOMAIN chan' : chan'[i].cmd.k = "commit" /\ x = chan'[i].n BY DEF Frames
  <2>2. i + 1 \in DOMAIN chan /\ chan'[i] = chan[i + 1] BY <1>1
  <2>3. x = sent - Len(chan) + (i + 1) /\ h.n = sent - Len(chan) + 1 BY <1>1, <2>1, <2>2
  <2> QED BY <1>1, <2>1, <2>2, <2>3, SMTT(40) DEF Frames
<1>3. ASSUME NEW x \in Frames, x # h.n \/ h.cmd.k # "commit" PROVE x \in Frames'
  <2>1. PICK i \in DOMAIN chan : chan[i].cmd.k = "commit" /\ x = chan[i].n BY DEF Frames
  <2>2. i # 1 BY <1>1, <1>3, <2>1
  <2>3. i - 1 \in DOMAIN chan' /\ (i - 1) + 1 = i BY <1>1, <2>2
  <2>4. chan'[i - 1] = chan[i] BY <1>1, <2>3
  <2> QED BY <2>1, <2>3, <2>4 DEF Frames
<1>4. h.cmd.k = "commit" => h.n \in Frames BY <1>1 DEF Frames
<1>5. h.cmd.k = "commit" => Frames' = Frames \ {h.n}
  <2>1. \A x : x \in Frames' => x \in Frames \ {h.n} BY <1>2
  <2>2. \A x : x \in Frames \ {h.n} => x \in Frames' BY <1>3
  <2> QED BY <2>1, <2>2
<1>6. h.cmd.k # "commit" => Frames' = Frames
  <2>1. \A x : x \in Frames' => x \in Frames BY <1>2
  <2>2. h.cmd.k # "commit" => \A x : x \in Frames => x \in Frames' BY <1>3
  <2> QED BY <2>1, <2>2
<1> QED BY <1>4, <1>5, <1>6 DEF h

\* push counts a Commit before it sends it, so what is taken is counted.
LEMMA CountsStep ==
    ASSUME CountsInv, FlowInv, [DataNext]_vars
    PROVE  CountsInv'
<1>0. /\ pending \in Nat /\ IsFiniteSet(pushing) /\ Cardinality(pushing) \in Nat /\ sent \in Nat
      /\ sent + Cardinality(pushing) <= MaxSends
      /\ pending >= Cardinality(Frames) + Cardinality(pushing) /\ MaxSends \in Nat
      /\ ChannelInv
  BY FS_CardinalityType, CommandsAssumption DEF CountsInv, PendingCoversFrames, FlowInv, ChannelInv
<1>1. IsFiniteSet(Frames) /\ Cardinality(Frames) \in Nat /\ Frames \subseteq Queued
  BY <1>0, FramesFinite
<1>2. sent + 1 \notin Frames
  <2>1. Queued = (sent - Len(chan) + 1)..sent BY <1>0, ChannelOrder
  <2>2. Len(chan) \in Nat BY <1>0 DEF ChannelInv
  <2> QED BY <1>0, <1>1, <2>1, <2>2
<1> DEFINE Msg(cmd) == [n |-> sent + 1, cmd |-> cmd]
<1>3. \A cmd \in Commands \cup {Frame} : Msg(cmd) \in Messages /\ Msg(cmd).n = sent + 1 /\ Msg(cmd).cmd = cmd
  BY <1>0 DEF Messages
<1> HIDE DEF Msg
<1>4. ASSUME NEW cmd \in Commands, Push(cmd) PROVE CountsInv'
  <2>1. /\ sent + Cardinality(pushing) < MaxSends /\ sent' = sent + 1
        /\ chan' = Append(chan, Msg(cmd)) /\ pending' = pending /\ pushing' = pushing
    BY <1>4 DEF Push, Send, Msg
  <2>2. cmd.k # "commit" BY CommandsAssumption DEF Command
  <2>3. Frames' = Frames BY <1>0, <1>3, <2>1, <2>2, FramesAppend
  <2> QED BY <1>0, <1>1, <2>1, <2>3 DEF CountsInv, PendingCoversFrames
<1>5. ASSUME NEW p \in Producers, SendCommit(p) PROVE CountsInv'
  <2>1. /\ p \in pushing /\ pushing' = pushing \ {p} /\ sent' = sent + 1
        /\ chan' = Append(chan, Msg(Frame)) /\ pending' = pending
    BY <1>5 DEF SendCommit, Send, Msg, Frame
  <2>2. Frame.k = "commit" BY DEF Frame
  <2>3. Frames' = Frames \cup {sent + 1} BY <1>0, <1>3, <2>1, <2>2, FramesAppend
  <2>4. Cardinality(Frames') = Cardinality(Frames) + 1 BY <1>1, <1>2, <2>3, FS_AddElement
  <2>5. IsFiniteSet(pushing') /\ Cardinality(pushing') = Cardinality(pushing) - 1
    BY <1>0, <2>1, FS_RemoveElement
  <2> QED BY <1>0, <1>1, <2>1, <2>4, <2>5, SMTT(40) DEF CountsInv, PendingCoversFrames
<1>6. ASSUME NEW p \in Producers, PushCommit(p) PROVE CountsInv'
  <2>1. /\ p \notin pushing /\ pushing' = pushing \cup {p} /\ sent' = sent
        /\ sent + Cardinality(pushing) < MaxSends
        /\ chan' = chan /\ pending' = pending + 1
    BY <1>6 DEF PushCommit, CountFrame
  <2>2. Frames' = Frames BY <2>1 DEF Frames
  <2>3. IsFiniteSet(pushing') /\ Cardinality(pushing') = Cardinality(pushing) + 1
    BY <1>0, <2>1, FS_AddElement
  <2> QED BY <1>0, <1>1, <2>1, <2>2, <2>3 DEF CountsInv, PendingCoversFrames
<1>7. ASSUME NEW c \in Consumers, PopOne(c) PROVE CountsInv'
  <2>1. /\ chan # <<>> /\ chan' = Tail(chan) /\ pushing' = pushing /\ sent' = sent
        /\ pending' = IF Head(chan).cmd.k = "commit" /\ c # Owner THEN pending - 1 ELSE pending
    BY <1>7 DEF PopOne
  <2>2. CASE Head(chan).cmd.k = "commit"
    <3>1. Head(chan).n \in Frames /\ Frames' = Frames \ {Head(chan).n} BY <1>0, <2>1, <2>2, FramesTail
    <3>2. Cardinality(Frames') = Cardinality(Frames) - 1 BY <1>1, <3>1, FS_RemoveElement
    <3>3. Cardinality(Frames) # 0 BY <1>1, <3>1, FS_EmptySet
    <3>4. pending' \in {pending, pending - 1} BY <2>1
    <3> QED BY <1>0, <1>1, <2>1, <3>2, <3>3, <3>4 DEF CountsInv, PendingCoversFrames
  <2>3. CASE Head(chan).cmd.k # "commit"
    <3>1. Frames' = Frames /\ pending' = pending BY <1>0, <2>1, <2>3, FramesTail
    <3> QED BY <1>0, <2>1, <3>1 DEF CountsInv, PendingCoversFrames
  <2> QED BY <2>2, <2>3
<1>8. CASE UNCHANGED queueVars
  <2>1. pending' = pending /\ pushing' = pushing /\ sent' = sent /\ chan' = chan BY <1>8 DEF queueVars
  <2>2. Frames' = Frames BY <2>1 DEF Frames
  <2> QED BY <1>0, <2>1, <2>2 DEF CountsInv, PendingCoversFrames
<1>9. ASSUME NEW c \in Consumers, Consume(c) PROVE PopOne(c) \/ UNCHANGED queueVars
  BY <1>9 DEF Consume, LockReceiver, PopDone, ThreadTop, Handle, Create, CreatePanics, Dispatch,
              Commit, Shutdown, Ignore
<1>10. ASSUME Stop \/ OwnerFinishes \/ ProcessSync \/ \E t \in Threads : Start(t)
       PROVE  UNCHANGED queueVars
  BY <1>10 DEF Start, Stop, OwnerFinishes, StopReturns, Unwind, ProcessSync
<1>11. CASE UNCHANGED vars BY <1>8, <1>11 DEF vars
<1> QED BY <1>4, <1>5, <1>6, <1>7, <1>8, <1>9, <1>10, <1>11, Zenon DEF DataNext

-----------------------------------------------------------------------------
(* The graph and the types *)

\* Only the owner fills and submits the graph of its context.
LEMMA GraphStep ==
    ASSUME OwnerGraphInv, FlowInv, [DataNext]_vars
    PROVE  OwnerGraphInv'
<1>0. /\ nodes \in Seq(GraphNodes) /\ nodeCount \in [Contexts -> Nat] /\ Owner \in Contexts
      /\ Len(nodes) = nodeCount[Owner]
  BY OwnerAssumption DEF OwnerGraphInv, GraphIsCounted
<1>1. CASE UNCHANGED graphVars BY <1>0, <1>1 DEF graphVars, OwnerGraphInv, GraphIsCounted
<1>2. ASSUME NEW c \in Consumers, Dispatch(c), ~UNCHANGED graphVars PROVE OwnerGraphInv'
  <2> DEFINE node == Node(Num(c), Next1(c).kernel, {})
  <2>1. c = Owner /\ AddCounted(c, node) /\ Next1(c).kernel # "unknown" BY <1>2 DEF Dispatch
  <2>2. node \in GraphNodes
    <3>1. batch[c] # <<>> /\ batch[c] \in Seq(Messages) BY <1>2 DEF Dispatch, Handled, FlowInv, PlacesInv
    <3>2. Head(batch[c]) \in Messages BY <3>1
    <3>3. Num(c) \in Nat /\ Next1(c) \in Commands \cup {Frame} BY <3>2 DEF Num, Next1, Messages
    <3>4. Next1(c).k = "dispatch" BY <1>2 DEF Dispatch
    <3>5. Next1(c) \in Command BY <3>3, <3>4, CommandsAssumption DEF Frame
    <3>6. Next1(c).kernel \in {"gemv", "attention"} BY <2>1, <3>4, <3>5 DEF Command
    <3> QED BY <3>3, <3>6 DEF Node, GraphNodes
  <2> HIDE DEF node
  <2>3. nodes' = Append(nodes, node) /\ nodeCount' = [nodeCount EXCEPT ![Owner] = @ + 1]
    BY <2>1 DEF AddCounted
  <2> QED BY <1>0, <2>2, <2>3 DEF OwnerGraphInv, GraphIsCounted
<1>3. ASSUME NEW c \in Consumers, Commit(c), ~UNCHANGED graphVars PROVE OwnerGraphInv'
  <2>1. c = Owner /\ SubmitGraph(Owner, nodes, nodeCount[Owner]) BY <1>3 DEF Commit, SubmitAndWait
  <2>2. CASE nodes' = nodes /\ nodeCount' = nodeCount BY <1>0, <2>2 DEF OwnerGraphInv, GraphIsCounted
  <2>3. CASE nodes' = <<>> /\ nodeCount' = [nodeCount EXCEPT ![Owner] = 0]
    BY <1>0, <2>3 DEF OwnerGraphInv, GraphIsCounted
  <2> QED BY <2>1, <2>2, <2>3 DEF SubmitGraph
<1>4. ASSUME NEW c \in Consumers, Consume(c), ~Dispatch(c), ~Commit(c) PROVE UNCHANGED graphVars
  BY <1>4 DEF Consume, LockReceiver, PopOne, PopDone, ThreadTop, Handle, Create, CreatePanics,
              Shutdown, Ignore
<1>5. ASSUME \/ \E cmd \in Commands : Push(cmd)
             \/ \E p \in Producers : PushCommit(p) \/ SendCommit(p)
             \/ Stop \/ OwnerFinishes \/ ProcessSync \/ \E t \in Threads : Start(t)
      PROVE  UNCHANGED graphVars
  BY <1>5 DEF Push, PushCommit, SendCommit, Start, Stop, OwnerFinishes, StopReturns, Unwind, ProcessSync
<1>6. CASE UNCHANGED vars BY <1>1, <1>6 DEF vars
<1> QED BY <1>1, <1>2, <1>3, <1>4, <1>5, <1>6, Zenon DEF DataNext

PcType ==
    pc \in [Consumers -> {"idle", "unborn", "top", "lock", "pop", "run",
                            "join", "unwind", "gone", "exited", "dead"}]

LEMMA PcStep ==
    ASSUME PcType, [DataNext]_vars
    PROVE  PcType'
<1> DEFINE Places == {"idle", "unborn", "top", "lock", "pop", "run",
                      "join", "unwind", "gone", "exited", "dead"}
<1>1. ASSUME NEW c \in Consumers, NEW v \in Places, pc' = [pc EXCEPT ![c] = v] PROVE PcType'
  BY <1>1 DEF PcType
<1>2. CASE UNCHANGED pc BY <1>2 DEF PcType
<1>3. ASSUME NEW c \in Consumers, NEW rest, pc' = After(c, rest) PROVE PcType'
  BY <1>3 DEF PcType, After
<1> HIDE DEF Places, PcType
<1>4. "top" \in Places /\ "idle" \in Places /\ "lock" \in Places /\ "pop" \in Places
      /\ "run" \in Places /\ "join" \in Places /\ "unwind" \in Places /\ "gone" \in Places
      /\ "exited" \in Places /\ "dead" \in Places
  BY DEF Places
<1>5. Owner \in Consumers /\ Threads \subseteq Consumers BY DEF Consumers
<1>6. ASSUME NEW c \in Consumers, Consume(c) PROVE PcType'
  <2>1. CASE LockReceiver(c) BY <1>1, <1>4, <2>1 DEF LockReceiver
  <2>2. CASE PopOne(c) BY <1>1, <1>2, <1>4, <2>2 DEF PopOne
  <2>3. CASE PopDone(c) BY <1>3, <2>3 DEF PopDone
  <2>4. CASE Create(c) \/ Dispatch(c) \/ Commit(c) \/ Ignore(c)
    <3>1. pc' = After(c, batch'[c]) BY <2>4 DEF Create, Dispatch, Commit, Ignore, Advance
    <3> QED BY <1>3, <3>1
  <2>5. CASE CreatePanics(c)
    <3>1. pc' = [pc EXCEPT ![c] = IF c = Owner THEN "unwind" ELSE "dead"] BY <2>5 DEF CreatePanics
    <3> QED BY <1>1, <1>4, <3>1
  <2>6. CASE Shutdown(c) BY <1>3, <2>6 DEF Shutdown
  <2>7. CASE ThreadTop(c)
    <3>1. pc' = [pc EXCEPT ![c] = IF KeepsGoing THEN "lock" ELSE "exited"] BY <2>7 DEF ThreadTop
    <3> QED BY <1>1, <1>4, <3>1
  <2> QED BY <1>6, <2>1, <2>2, <2>3, <2>4, <2>5, <2>6, <2>7, Zenon DEF Consume, Handle
<1>7. ASSUME NEW t \in Threads, Start(t) PROVE PcType' BY <1>1, <1>4, <1>5, <1>7 DEF Start
<1>8. CASE Stop \/ OwnerFinishes \/ ProcessSync
  <2>1. CASE Stop BY <1>1, <1>4, <1>5, <2>1 DEF Stop
  <2>2. CASE StopReturns BY <1>1, <1>4, <1>5, <2>2 DEF StopReturns
  <2>3. CASE Unwind BY <1>1, <1>4, <1>5, <2>3 DEF Unwind
  <2>4. CASE ProcessSync BY <1>1, <1>4, <1>5, <2>4 DEF ProcessSync
  <2> QED BY <1>8, <2>1, <2>2, <2>3, <2>4 DEF OwnerFinishes
<1>9. ASSUME \/ \E cmd \in Commands : Push(cmd)
             \/ \E p \in Producers : PushCommit(p) \/ SendCommit(p)
      PROVE  PcType'
  BY <1>2, <1>9 DEF Push, PushCommit, SendCommit
<1>10. CASE UNCHANGED vars BY <1>2, <1>10 DEF vars
<1> QED BY <1>6, <1>7, <1>8, <1>9, <1>10, Zenon DEF DataNext

LockAndStore == rxLock \in Consumers \cup {None} /\ DOMAIN store \subseteq 1..sent

LEMMA LockStep ==
    ASSUME LockAndStore, FlowInv, [DataNext]_vars
    PROVE  LockAndStore'
<1>0. sent \in Nat /\ rxLock \in Consumers \cup {None} /\ DOMAIN store \subseteq 1..sent
  BY DEF LockAndStore, FlowInv, ChannelInv
<1>1. sent' \in Nat /\ sent' >= sent
  <2>1. sent' \in {sent, sent + 1}
    <3>1. \A cmd : MoveSend(cmd) => sent' = sent + 1 BY DEF MoveSend
    <3>2. \A c : MovePop(c) \/ MoveHandle(c) \/ MoveAbandon(c) \/ MoveDrop(c) => sent' = sent
      BY DEF MovePop, MoveHandle, MoveAbandon, MoveDrop
    <3>3. UNCHANGED flowVars => sent' = sent BY DEF flowVars
    <3> QED BY <3>1, <3>2, <3>3, StepsAreMoves, Zenon
  <2> QED BY <1>0, <2>1
<1>2. rxLock' \in Consumers \cup {None}
  <2>1. ASSUME NEW c \in Consumers, Consume(c) PROVE rxLock' \in {rxLock, c, None}
    BY <2>1 DEF Consume, LockReceiver, PopOne, PopDone, PopUnlock, ThreadTop, Handle, Create,
                CreatePanics, Dispatch, Commit, Shutdown, Ignore
  <2>2. ASSUME \/ \E cmd \in Commands : Push(cmd)
               \/ \E p \in Producers : PushCommit(p) \/ SendCommit(p)
               \/ Stop \/ OwnerFinishes \/ ProcessSync \/ \E t \in Threads : Start(t)
        PROVE  rxLock' = rxLock
    BY <2>2 DEF Push, PushCommit, SendCommit, Start, Stop, OwnerFinishes, StopReturns, Unwind,
                ProcessSync
  <2>3. CASE UNCHANGED vars BY <1>0, <2>3 DEF vars
  <2> QED BY <1>0, <2>1, <2>2, <2>3 DEF DataNext
<1>3. ASSUME NEW c \in Consumers, Create(c) PROVE DOMAIN store' \subseteq 1..sent
  <2>1. DOMAIN store' = DOMAIN store \cup {Num(c)} BY <1>3 DEF Create
  <2>2. batch[c] # <<>> /\ batch[c] \in Seq(Messages) /\ Increasing(batch[c])
    BY <1>3 DEF Create, Handled, FlowInv, PlacesInv
  <2>3. Num(c) \in Held(c) BY <2>2, IncreasingTail DEF Num, Held
  <2>4. Num(c) \in Removed BY <2>3 DEF FlowInv, PlacesInv, Batched, Held
  <2>5. Removed \subseteq 1..sent BY DEF FlowInv, ChannelInv, Removed
  <2> QED BY <1>0, <2>1, <2>4, <2>5
<1>4. CASE UNCHANGED store BY <1>0, <1>1, <1>2, <1>4 DEF LockAndStore
<1>5. ASSUME NEW c \in Consumers, Consume(c), ~Create(c) PROVE UNCHANGED store
  BY <1>5 DEF Consume, LockReceiver, PopOne, PopDone, ThreadTop, Handle,
              CreatePanics, Dispatch, Commit, Shutdown, Ignore
<1>6. ASSUME \/ \E cmd \in Commands : Push(cmd)
             \/ \E p \in Producers : PushCommit(p) \/ SendCommit(p)
             \/ Stop \/ OwnerFinishes \/ ProcessSync \/ \E t \in Threads : Start(t)
             \/ UNCHANGED vars
      PROVE  UNCHANGED store
  BY <1>6 DEF Push, PushCommit, SendCommit, Start, Stop, OwnerFinishes, StopReturns, Unwind,
              ProcessSync, vars
<1>7. ASSUME NEW c \in Consumers, Create(c) PROVE LockAndStore'
  BY <1>0, <1>1, <1>2, <1>3, <1>7 DEF LockAndStore
<1> QED BY <1>4, <1>5, <1>6, <1>7, Zenon DEF DataNext

-----------------------------------------------------------------------------
PlaneIInv == FlowInv /\ CountsInv /\ OwnerGraphInv /\ PcType /\ LockAndStore

LEMMA PlaneInit == DataInit => PlaneIInv
<1> SUFFICES ASSUME DataInit PROVE PlaneIInv OBVIOUS
<1>1. /\ sent = 0 /\ chan = <<>> /\ pending = 0 /\ pushing = {} /\ log = <<>> /\ lost = {}
      /\ batch = [c \in Consumers |-> <<>>]
  BY DEF DataInit
<1>2. ChannelInv BY <1>1 DEF ChannelInv
<1>3. \A c \in Consumers : Held(c) = {} /\ Increasing(batch[c]) BY <1>1 DEF Held, NumbersOf, Increasing
<1>4. Batched = {} /\ Logged = {} /\ Removed = {}
  <2>1. Batched = {} BY <1>3 DEF Batched, Held
  <2>2. Logged = {} BY <1>1 DEF Logged
  <2>3. Removed = {} BY <1>1 DEF Removed
  <2> QED BY <2>1, <2>2, <2>3
<1>5. PlacesInv
  <2>1. batch \in [Consumers -> Seq(Messages)] /\ log \in Seq(Nat \X Consumers) BY <1>1
  <2> QED BY <1>1, <1>3, <1>4, <2>1 DEF PlacesInv
<1>6. HistoryInv BY <1>1 DEF HistoryInv, OrderPerConsumer
<1>7. CountsInv
  <2>1. Frames = {} BY <1>1 DEF Frames
  <2>2. Cardinality({}) = 0 /\ IsFiniteSet({}) BY FS_EmptySet
  <2> QED BY <1>1, <2>1, <2>2, CommandsAssumption DEF CountsInv, PendingCoversFrames
<1>8. OwnerGraphInv BY OwnerAssumption DEF DataInit, GraphInit, OwnerGraphInv, GraphIsCounted
<1>9. PcType BY DEF DataInit, PcType
<1>10. LockAndStore BY <1>1 DEF DataInit, LockAndStore
<1> QED BY <1>2, <1>5, <1>6, <1>7, <1>8, <1>9, <1>10 DEF PlaneIInv, FlowInv

LEMMA PlaneStep == PlaneIInv /\ [DataNext]_vars => PlaneIInv'
BY FlowStep, CountsStep, GraphStep, PcStep, LockStep DEF PlaneIInv

\* For any number of producers, threads and commands, and any commands: pending_frames
\* never under-counts, every command is in one place and handled once at most, each
\* consumer handles its commands in the channel's order, and the owner's graph holds the
\* nodes it counted.
THEOREM PlaneCorrect == DataSpec => []PlaneInv
<1>1. PlaneIInv => PlaneInv
  <2> SUFFICES ASSUME PlaneIInv PROVE PlaneInv OBVIOUS
  <2>1. EachCommandOnce BY FlowOnce DEF PlaneIInv
  <2>2. sent \in Nat /\ IsFiniteSet(pushing) /\ sent + Cardinality(pushing) <= MaxSends
    BY DEF PlaneIInv, FlowInv, ChannelInv, CountsInv
  <2>3. sent <= MaxSends BY <2>2, FS_CardinalityType, CommandsAssumption
  <2>4. PlaneTypeOK
    BY <2>3 DEF PlaneIInv, PcType, LockAndStore, FlowInv, ChannelInv, CountsInv, PlaneTypeOK
  <2> QED BY <2>1, <2>4
          DEF PlaneIInv, PlaneInv, CountsInv, OwnerGraphInv, FlowInv, HistoryInv
<1> QED BY PlaneInit, PlaneStep, <1>1, PTL DEF DataSpec

-----------------------------------------------------------------------------
(* The arena that holds the frames' memory on the host *)

Allocation == [blk : Nat, off : Nat, size : Nat]

\* Allocations end inside their blocks, and those in the last block end before the bump
\* offset, which is why the next one meets none of them.
InsideBlock(a, bs, top) ==
    /\ a.blk \in DOMAIN bs
    /\ a.off + a.size <= bs[a.blk]
    /\ a.blk = Len(bs) => a.off + a.size <= top

ArenaIInv ==
    /\ blocks \in Seq(Nat) /\ bump \in Nat /\ live \in Seq(Allocation)
    /\ \A i \in DOMAIN live : InsideBlock(live[i], blocks, bump)
    /\ \A i, j \in DOMAIN live : i # j => ~Overlap(live[i], live[j])

\* What is left after one element was removed: those before it, and those after it one
\* place further on.
LEMMA RemovedFrom ==
    ASSUME NEW S, NEW s \in Seq(S), NEW p \in 1..Len(s)
    PROVE  /\ RemoveAt(s, p) \in Seq(S)
           /\ Len(RemoveAt(s, p)) = Len(s) - 1
           /\ \A i \in 1..(Len(s) - 1) : RemoveAt(s, p)[i] = IF i < p THEN s[i] ELSE s[i + 1]
<1> DEFINE a == SubSeq(s, 1, p - 1)
           z == SubSeq(s, p + 1, Len(s))
           t == a \o z
<1>1. a \in Seq(S) /\ Len(a) = p - 1 /\ \A i \in 1..(p - 1) : a[i] = s[i] OBVIOUS
<1>2. z \in Seq(S) /\ Len(z) = Len(s) - p /\ \A i \in 1..(Len(s) - p) : z[i] = s[p + i]
  OBVIOUS
<1> HIDE DEF a, z
<1>3. /\ t \in Seq(S) /\ Len(t) = Len(a) + Len(z)
      /\ \A i \in 1..(Len(a) + Len(z)) : t[i] = IF i <= Len(a) THEN a[i] ELSE z[i - Len(a)]
  BY <1>1, <1>2, ConcatProperties, Zenon
<1>4. RemoveAt(s, p) = t BY DEF RemoveAt, a, z
<1> HIDE DEF t
<1>5. Len(t) = Len(s) - 1 BY <1>1, <1>2, <1>3
<1>6. ASSUME NEW i \in 1..(Len(s) - 1) PROVE t[i] = IF i < p THEN s[i] ELSE s[i + 1]
  <2>1. CASE i < p
    <3>1. i <= Len(a) /\ i \in 1..(p - 1) /\ i \in 1..(Len(a) + Len(z)) BY <1>1, <1>2, <2>1
    <3>2. t[i] = a[i] BY <1>3, <3>1
    <3> QED BY <1>1, <2>1, <3>1, <3>2
  <2>2. CASE ~(i < p)
    <3>1. t[i] = z[i - (p - 1)] BY <1>1, <1>2, <1>3, <2>2, SMTT(40)
    <3>2. i - (p - 1) \in 1..(Len(s) - p) /\ p + (i - (p - 1)) = i + 1 BY <2>2
    <3> QED BY <1>2, <2>2, <3>1, <3>2
  <2> QED BY <2>1, <2>2
<1> QED BY <1>3, <1>4, <1>5, <1>6

\* What a call of allocate() returns lies in the last block, beyond every allocation
\* there, and the bump offset follows it.
LEMMA BumpKeeps ==
    ASSUME ArenaIInv, NEW size \in Nat \ {0}, Bump(size)
    PROVE  /\ blocks' \in Seq(Nat) /\ bump' \in Nat /\ NextRange(size) \in Allocation
           /\ InsideBlock(NextRange(size), blocks', bump')
           /\ \A i \in DOMAIN live : /\ InsideBlock(live[i], blocks', bump')
                                    /\ ~Overlap(live[i], NextRange(size))
                                    /\ ~Overlap(NextRange(size), live[i])
<1> DEFINE new == NextRange(size)
           n == Len(blocks)
<1>1. n \in Nat /\ DOMAIN blocks = 1..n /\ bump \in Nat /\ \A b \in 1..n : blocks[b] \in Nat
  BY DEF ArenaIInv
<1>2. ASSUME NEW i \in DOMAIN live
      PROVE  /\ live[i] \in Allocation /\ live[i].blk \in 1..n
             /\ live[i].off \in Nat /\ live[i].size \in Nat
             /\ live[i].off + live[i].size <= blocks[live[i].blk]
             /\ live[i].blk = n => live[i].off + live[i].size <= bump
  <2>1. InsideBlock(live[i], blocks, bump) /\ live[i] \in Allocation BY DEF ArenaIInv
  <2> QED BY <1>1, <2>1 DEF InsideBlock, Allocation
<1>3. CASE NeedNew(size)
  <2> DEFINE m == Max({size, BlockSize})
  <2>1. m \in Nat /\ size <= m
    <3>1. \E x \in {size, BlockSize} : \A y \in {size, BlockSize} : x >= y
      BY ArenaAssumption
    <3>2. m \in {size, BlockSize} /\ \A y \in {size, BlockSize} : m >= y BY <3>1 DEF Max
    <3> QED BY <3>2, ArenaAssumption
  <2>2. new = [blk |-> n + 1, off |-> 0, size |-> size] BY <1>3 DEF NextRange
  <2>3. blocks' = Append(blocks, m) /\ bump' = size BY <1>3, <2>2 DEF Bump
  <2> HIDE DEF m, new
  <2>4. /\ blocks' \in Seq(Nat) /\ Len(blocks') = n + 1 /\ DOMAIN blocks' = 1..(n + 1)
        /\ blocks'[n + 1] = m /\ \A b \in 1..n : blocks'[b] = blocks[b]
    BY <2>1, <2>3 DEF ArenaIInv
  <2>5. bump' \in Nat /\ new \in Allocation BY <1>1, <2>2, <2>3 DEF Allocation
  <2>6. new.blk = n + 1 /\ new.off = 0 /\ new.size = size BY <2>2
  <2>7. InsideBlock(new, blocks', bump')
    BY <1>1, <2>1, <2>3, <2>4, <2>6 DEF InsideBlock
  <2>8. ASSUME NEW i \in DOMAIN live
        PROVE  InsideBlock(live[i], blocks', bump') /\ ~Overlap(live[i], new) /\ ~Overlap(new, live[i])
    <3>1. live[i].blk \in 1..(n + 1) /\ live[i].blk # n + 1 BY <1>1, <1>2
    <3>2. InsideBlock(live[i], blocks', bump') BY <1>2, <2>4, <3>1 DEF InsideBlock
    <3> QED BY <2>6, <3>1, <3>2 DEF Overlap
  <2> QED BY <2>4, <2>5, <2>7, <2>8 DEF new
<1>4. CASE ~NeedNew(size)
  <2>1. bump + size <= LastSize BY <1>1, <1>4 DEF NeedNew, LastSize
  <2>2. n >= 1 /\ LastSize = blocks[n]
    <3>1. blocks # <<>> BY <1>1, <2>1 DEF LastSize
    <3> QED BY <3>1 DEF LastSize, ArenaIInv
  <2>3. new = [blk |-> n, off |-> bump, size |-> size] BY <1>4 DEF NextRange
  <2>4. blocks' = blocks /\ bump' = bump + size BY <1>4, <2>3 DEF Bump
  <2> HIDE DEF new
  <2>5. new.blk = n /\ new.off = bump /\ new.size = size BY <2>3
  <2>6. blocks' \in Seq(Nat) /\ bump' \in Nat /\ new \in Allocation
    BY <1>1, <2>3, <2>4 DEF Allocation, ArenaIInv
  <2>7. InsideBlock(new, blocks', bump')
    BY <1>1, <2>1, <2>2, <2>4, <2>5 DEF InsideBlock
  <2>8. ASSUME NEW i \in DOMAIN live
        PROVE  InsideBlock(live[i], blocks', bump') /\ ~Overlap(live[i], new) /\ ~Overlap(new, live[i])
    <3>1. InsideBlock(live[i], blocks', bump') BY <1>1, <1>2, <2>4 DEF InsideBlock
    <3>2. live[i].blk = n => ~(bump < live[i].off + live[i].size) BY <1>1, <1>2
    <3> QED BY <2>5, <3>1, <3>2 DEF Overlap
  <2> QED BY <2>6, <2>7, <2>8 DEF new
<1> QED BY <1>3, <1>4

LEMMA ArenaInductive == ArenaIInv /\ [ArenaNext]_arenaVars => ArenaIInv'
<1> SUFFICES ASSUME ArenaIInv, [ArenaNext]_arenaVars PROVE ArenaIInv' OBVIOUS
<1>1. ASSUME NEW request \in Sizes, ArenaAllocate(request) PROVE ArenaIInv'
  <2> DEFINE size == NextPowerOfTwo(request)
             new == NextRange(size)
  <2>1. size \in Nat \ {0} BY ArenaAssumption
  <2>2. Bump(size) /\ live' = Append(live, new) BY <1>1 DEF ArenaAllocate
  <2> HIDE DEF size
  <2>3. /\ blocks' \in Seq(Nat) /\ bump' \in Nat /\ new \in Allocation
        /\ InsideBlock(new, blocks', bump')
        /\ \A i \in DOMAIN live : /\ InsideBlock(live[i], blocks', bump')
                                 /\ ~Overlap(live[i], new) /\ ~Overlap(new, live[i])
    BY <2>1, <2>2, BumpKeeps
  <2> HIDE DEF new
  <2>4. Len(live) \in Nat /\ DOMAIN live = 1..Len(live) /\ live \in Seq(Allocation) BY DEF ArenaIInv
  <2>5. /\ live' \in Seq(Allocation) /\ DOMAIN live' = 1..(Len(live) + 1)
        /\ live'[Len(live) + 1] = new /\ \A i \in DOMAIN live : live'[i] = live[i]
    BY <2>2, <2>3, <2>4
  <2>6. \A i \in DOMAIN live' : i \in DOMAIN live \/ i = Len(live) + 1 BY <2>4, <2>5
  <2>7. \A i \in DOMAIN live' : InsideBlock(live'[i], blocks', bump') BY <2>3, <2>5, <2>6
  <2>8. ASSUME NEW i \in DOMAIN live', NEW j \in DOMAIN live', i # j
        PROVE  ~Overlap(live'[i], live'[j])
    <3>1. CASE i \in DOMAIN live /\ j \in DOMAIN live BY <2>5, <2>8, <3>1 DEF ArenaIInv
    <3>2. CASE ~(i \in DOMAIN live /\ j \in DOMAIN live)
      BY <2>3, <2>5, <2>6, <2>8, <3>2
    <3> QED BY <3>1, <3>2
  <2> QED BY <2>3, <2>5, <2>7, <2>8 DEF ArenaIInv
<1>2. ASSUME NEW request \in Sizes, ArenaAllocateAndDrop(request) PROVE ArenaIInv'
  <2> DEFINE size == NextPowerOfTwo(request)
  <2>1. size \in Nat \ {0} BY ArenaAssumption
  <2>2. Bump(size) /\ live' = live BY <1>2 DEF ArenaAllocateAndDrop
  <2> HIDE DEF size
  <2> QED BY <2>1, <2>2, BumpKeeps DEF ArenaIInv
<1>3. ASSUME NEW p \in DOMAIN live, ArenaDrop(p) PROVE ArenaIInv'
  <2>1. live \in Seq(Allocation) /\ p \in 1..Len(live) BY DEF ArenaIInv
  <2>2. live' = RemoveAt(live, p) /\ blocks' = blocks /\ bump' = bump BY <1>3 DEF ArenaDrop
  <2> DEFINE at(i) == IF i < p THEN i ELSE i + 1
  <2>3. /\ live' \in Seq(Allocation) /\ DOMAIN live' = 1..(Len(live) - 1)
        /\ \A i \in 1..(Len(live) - 1) : live'[i] = IF i < p THEN live[i] ELSE live[i + 1]
    <3>1. /\ live' \in Seq(Allocation) /\ Len(live') = Len(live) - 1
          /\ \A i \in 1..(Len(live) - 1) : live'[i] = IF i < p THEN live[i] ELSE live[i + 1]
      BY <2>1, <2>2, RemovedFrom, Zenon
    <3> QED BY <3>1
  <2>4. Len(live) \in Nat /\ DOMAIN live = 1..Len(live) BY <2>1
  <2>5. \A i \in DOMAIN live' : live'[i] = live[at(i)] /\ at(i) \in DOMAIN live
    BY <2>3, <2>4
  <2>6. \A i, j \in DOMAIN live' : i # j => at(i) # at(j) BY <2>3
  <2> HIDE DEF at
  <2> QED BY <2>2, <2>3, <2>5, <2>6 DEF ArenaIInv
<1>4. CASE ArenaReset BY <1>4 DEF ArenaReset, ArenaIInv
<1>5. CASE UNCHANGED arenaVars BY <1>5 DEF arenaVars, ArenaIInv
<1> QED BY <1>1, <1>2, <1>3, <1>4, <1>5 DEF ArenaNext

\* For every block size and every mix of rounded sizes: allocations that are held at
\* the same time share no byte and end inside their block, until one is dropped.
THEOREM ArenaAllocationsApart == ArenaSpec => []ArenaRangesDisjoint
<1>1. ArenaInit => ArenaIInv BY DEF ArenaInit, ArenaIInv
<1>2. ArenaIInv => ArenaRangesDisjoint BY DEF ArenaIInv, ArenaRangesDisjoint, InsideBlock
<1> QED BY <1>1, <1>2, ArenaInductive, PTL DEF ArenaSpec
=============================================================================

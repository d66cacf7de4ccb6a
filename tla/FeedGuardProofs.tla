-------------------------- MODULE FeedGuardProofs --------------------------
(***************************************************************************)
(* Theorems about what stands between a price and an order: the gate that  *)
(* keeps entries off a dead feed (Ingest) and the guards of an open        *)
(* position (Sentinel).                                                    *)
(***************************************************************************)
EXTENDS Ingest, Sentinel, SequenceTheorems, TLAPS

-----------------------------------------------------------------------------
(***************************************************************************)
(* Theorems about Ingest, for every threshold, every backoff schedule and  *)
(* any number of tickers and askings.                                      *)
(***************************************************************************)

-----------------------------------------------------------------------------
(* The operators. *)

\* An age has a colour, and red means above AgeRed.
LEMMA ClassifyFacts ==
    ASSUME NEW old \in Int
    PROVE  Classify(old) \in Colors /\ (Classify(old) = "red" => old > AgeRed)
BY IngestConstants DEF Classify, Colors

\* The smaller of a count and a positive bound.
LEMMA MinFacts ==
    ASSUME NEW n \in Nat, NEW k \in Nat
    PROVE  Min({n, k}) \in Nat /\ Min({n, k}) <= k /\ Min({n, k}) <= n
                               /\ Min({n, k}) \in {n, k}
<1>1. \E x \in {n, k} : \A y \in {n, k} : x <= y
  <2>1. CASE n <= k  BY <2>1
  <2>2. CASE ~(n <= k)  BY <2>2
  <2> QED BY <2>1, <2>2
<1>2. Min({n, k}) \in {n, k} /\ \A y \in {n, k} : Min({n, k}) <= y
  BY <1>1 DEF Min
<1> QED BY <1>2

\* The wait after a failure is an entry of the schedule.
LEMMA WaitType == ASSUME NEW a \in Nat PROVE Backoff[Min({a + 1, Len(Backoff)})] \in Nat
<1>1. Len(Backoff) \in Nat /\ Len(Backoff) >= 1
  <2>1. Backoff \in Seq(Nat) /\ Backoff # <<>>
    BY IngestConstants
  <2> QED BY <2>1, EmptySeq, LenProperties
<1>2. Min({a + 1, Len(Backoff)}) \in 1..Len(Backoff)
  BY <1>1, MinFacts
<1>3. Backoff \in [1..Len(Backoff) -> Nat]
  BY IngestConstants, LenProperties
<1> QED BY <1>2, <1>3

LEMMA CapType == AttemptCap \in Nat /\ AttemptCap >= 3
<1>1. Len(Backoff) \in Nat
  BY IngestConstants, LenProperties
<1> QED BY <1>1 DEF AttemptCap

Gate == [color : Colors, redSince : Nat \cup {None},
         greenSince : Nat \cup {None}, blocked : BOOLEAN]

\* Hysteresis keeps a gate a gate, and closes an open one on red only.
LEMMA HysteresisFacts ==
    ASSUME NEW g \in Gate, NEW c \in Colors, now \in Nat
    PROVE  /\ Hysteresis(g, c) \in Gate
           /\ ~g.blocked /\ Hysteresis(g, c).blocked => c = "red"
<1>1. Timers(g, c) \in Gate /\ Timers(g, c).blocked = g.blocked
  BY DEF Timers, Gate
<1>2. CASE g.blocked
  <2>1. Hysteresis(g, c) = [Timers(g, c) EXCEPT !.blocked =
              ~(c = "green" /\ now - Timers(g, c).greenSince >= GreenMin)]
    BY <1>1, <1>2 DEF Hysteresis
  <2>2. (~(c = "green" /\ now - Timers(g, c).greenSince >= GreenMin)) \in BOOLEAN
    OBVIOUS
  <2> QED BY <1>1, <1>2, <2>1, <2>2 DEF Gate
<1>3. CASE ~g.blocked
  <2> DEFINE closes == c = "red" /\ now - Timers(g, c).redSince >= RedMin
  <2>1. Hysteresis(g, c) = [Timers(g, c) EXCEPT !.blocked = closes]
    BY <1>1, <1>3 DEF Hysteresis
  <2>2. closes \in BOOLEAN /\ (closes => c = "red")
    OBVIOUS
  <2> HIDE DEF closes
  <2>3. Hysteresis(g, c) \in Gate /\ Hysteresis(g, c).blocked = closes
    BY <1>1, <2>1, <2>2 DEF Gate
  <2> QED BY <2>2, <2>3
<1> QED BY <1>2, <1>3

\* The effective colour is the one read, or green.
LEMMA EffectiveFacts ==
    ASSUME asking.color \in Colors, NEW c \in EffectiveColors
    PROVE  c \in Colors /\ (c = "red" => asking.color = "red")
BY DEF EffectiveColors, Colors

Call == [ticker : Tickers, color : Colors, at : Nat, fresh : BOOLEAN]

-----------------------------------------------------------------------------
(* The invariant. *)

\* What is on its way through the ingest thread: a red age is red for good, a
\* bar waits for its mark or its age, and a LIVE feed shows red only if the
\* bar that made it LIVE did.
UpdateInv ==
    /\ update \in Colors => lastBar # None
    /\ update = "red" => now - lastBar > AgeRed
    /\ update = "mark" => lastBar # None
    /\ health = "LIVE" => lastBar # None
    /\ health = "LIVE" /\ update = "none" /\ sla = "red" => stalled

\* A call of evaluate_gate that read red: the feed is dead, unless a bar came
\* while the colour was read or has come since.
AskInv ==
    asking # NotAsked =>
        /\ asking.at <= now
        /\ asking.color = "red" =>
             asking.fresh \/ lastBar >= asking.at \/ now - lastBar > AgeRed

IInv == IngestTypeOK /\ RedIsReal /\ UpdateInv /\ AskInv

LEMMA InitIInv == IngestInit => IInv
<1> SUFFICES ASSUME IngestInit PROVE IInv
  OBVIOUS
<1>1. IngestTypeOK
  <2>1. gate \in [Tickers -> Gate]
    BY DEF IngestInit, Gate, FreshGate, Colors, None
  <2>2. log \in [Tickers -> Seq(Asking)]
    BY DEF IngestInit
  <2>3. loop \in [at : LoopStages, attempt : 0..AttemptCap, wake : Nat]
    BY CapType DEF IngestInit, LoopStages
  <2>4. asking \in {NotAsked} \cup Call
    BY DEF IngestInit
  <2> QED BY <2>1, <2>2, <2>3, <2>4
        DEF IngestInit, IngestTypeOK, Gate, Call, Colors, Updates, Connection, None, Modes
<1>2. RedIsReal /\ UpdateInv /\ AskInv
  BY DEF IngestInit, RedIsReal, UpdateInv, AskInv, Colors
<1> QED BY <1>1, <1>2 DEF IInv

\* A step of the ingest thread that leaves the bar, the colour and the clock
\* alone, and begins an update only of a feed it does not make LIVE.
LEMMA BetweenUpdates ==
    ASSUME IInv, update = "none", UNCHANGED <<now, lastBar, sla, stalled, gateVars>>,
           \/ update' = "none" /\ health' = health
           \/ update' \in {"none", "read"} /\ health' \in Connection \ {"LIVE"}
           \/ loop.at = "boot" /\ health' = health /\ update' = "read"
    PROVE  RedIsReal' /\ UpdateInv' /\ AskInv'
BY DEF IInv, IngestTypeOK, RedIsReal, Reviving, UpdateInv, AskInv, gateVars, Colors

Loops == [at : LoopStages, attempt : 0..AttemptCap, wake : Nat]

LEMMA NextIInv == IInv /\ [IngestNext]_ingestVars => IInv'
<1> SUFFICES ASSUME IInv, [IngestNext]_ingestVars PROVE IInv'
  OBVIOUS
<1> USE CapType
<1>0. /\ now \in Nat /\ loop \in Loops /\ health \in Connection
      /\ lastBar \in Nat \cup {None} /\ update \in Updates /\ sla \in Colors
      /\ AgeRed \in Nat
  BY IngestConstants DEF IInv, IngestTypeOK, Loops
<1>1. CASE StartLoop
  <2>1. loop' \in Loops /\ update' \in {"none", "read"} /\ update = "none"
    BY <1>0, <1>1 DEF StartLoop, Loops, LoopStages
  <2>2. \/ update' = "none" /\ health' = health
        \/ loop.at = "boot" /\ health' = health /\ update' = "read"
        \/ health' = "REST_ONLY" /\ update' = "read"
    BY <1>1 DEF StartLoop
  <2>3. RedIsReal' /\ UpdateInv' /\ AskInv'
    BY <1>1, <2>1, <2>2, BetweenUpdates DEF StartLoop, Connection
  <2> QED BY <1>1, <2>1, <2>2, <2>3
          DEF StartLoop, IInv, IngestTypeOK, Loops, Updates, Connection, gateVars
<1>2. CASE Connect
  <2>1. loop' \in Loops
    BY <1>0, <1>2 DEF Connect, Loops, LoopStages
  <2>2. RedIsReal' /\ UpdateInv' /\ AskInv'
    BY <1>2, BetweenUpdates DEF Connect, Connection
  <2> QED BY <1>2, <2>1, <2>2
          DEF Connect, IInv, IngestTypeOK, Loops, Updates, Connection, gateVars
<1>3. CASE OnBar
  <2>1. /\ update = "none" /\ lastBar' = now /\ now # None /\ now - now = 0
        /\ update' = IF health = "LIVE" THEN "none" ELSE "mark"
        /\ UNCHANGED <<now, health, loop, sla, stalled, mode, asking, gate, log>>
    BY <1>0, <1>3 DEF OnBar, gateVars, None
  <2>2. RedIsReal' /\ UpdateInv'
    BY <2>1 DEF IInv, RedIsReal, Reviving, UpdateInv, Colors
  <2>3. AskInv'
    BY <2>1 DEF IInv, AskInv
  <2> QED BY <1>0, <2>1, <2>2, <2>3 DEF IInv, IngestTypeOK, Updates
<1>4. CASE MarkLive
  <2>1. /\ update = "mark" /\ health' = "LIVE" /\ update' = "read"
        /\ UNCHANGED <<now, lastBar, loop, sla, stalled, mode, asking, gate, log>>
    BY <1>4 DEF MarkLive, gateVars
  <2>2. RedIsReal' /\ UpdateInv' /\ AskInv'
    BY <2>1 DEF IInv, RedIsReal, Reviving, UpdateInv, AskInv, Colors
  <2> QED BY <2>1, <2>2 DEF IInv, IngestTypeOK, Updates, Connection
<1>5. CASE ReadAge
  <2>1. /\ update = "read"
        /\ update' = IF lastBar = None THEN "none" ELSE Classify(now - lastBar)
        /\ UNCHANGED <<now, health, lastBar, loop, sla, stalled, mode, asking, gate, log>>
    BY <1>5 DEF ReadAge, gateVars
  <2>2. CASE lastBar = None
    <3>1. RedIsReal' /\ UpdateInv' /\ AskInv'
      BY <2>1, <2>2 DEF IInv, RedIsReal, Reviving, UpdateInv, AskInv, Colors
    <3> QED BY <2>1, <2>2, <3>1 DEF IInv, IngestTypeOK, Updates
  <2>3. CASE lastBar # None
    <3>1. /\ update' \in Colors /\ update' # "none" /\ update' # "mark"
          /\ update' = "red" => now - lastBar > AgeRed
      BY <1>0, <2>1, <2>3, ClassifyFacts DEF Colors
    <3>2. RedIsReal' /\ UpdateInv' /\ AskInv'
      BY <2>1, <2>3, <3>1 DEF IInv, RedIsReal, Reviving, UpdateInv, AskInv
    <3> QED BY <2>1, <3>1, <3>2 DEF IInv, IngestTypeOK, Updates
  <2> QED BY <2>2, <2>3
<1>6. CASE Recolor
  <2>1. /\ update \in Colors /\ sla' = update /\ update' = "none"
        /\ stalled' = (health = "LIVE" /\ update = "red")
        /\ UNCHANGED <<now, health, lastBar, loop, mode, asking, gate, log>>
    BY <1>6 DEF Recolor, gateVars
  <2>2. RedIsReal' /\ UpdateInv' /\ AskInv'
    BY <2>1 DEF IInv, RedIsReal, Reviving, UpdateInv, AskInv, Colors
  <2> QED BY <2>1, <2>2 DEF IInv, IngestTypeOK, Updates
<1>7. CASE StreamFails
  <2>1. loop' \in Loops
    BY <1>0, <1>7 DEF StreamFails, Loops, LoopStages
  <2>2. RedIsReal' /\ UpdateInv' /\ AskInv'
    BY <1>7, BetweenUpdates DEF StreamFails, Connection
  <2> QED BY <1>7, <2>1, <2>2
          DEF StreamFails, IInv, IngestTypeOK, Loops, Updates, Connection, gateVars
<1>8. CASE LoopCatches
  <2>1. loop' \in Loops
    BY <1>0, <1>8 DEF LoopCatches, Loops, LoopStages
  <2>2. RedIsReal' /\ UpdateInv' /\ AskInv'
    BY <1>8, BetweenUpdates DEF LoopCatches, Connection
  <2> QED BY <1>8, <2>1, <2>2
          DEF LoopCatches, IInv, IngestTypeOK, Loops, Updates, Connection, gateVars
<1>9. CASE FallAsleep
  <2> DEFINE wait == Backoff[Min({loop.attempt + 1, Len(Backoff)})]
  <2>1. wait \in Nat
    BY <1>0, WaitType DEF Loops
  <2>2. loop' = [loop EXCEPT !.at = "sleeping", !.wake = now + wait]
    BY <1>9 DEF FallAsleep
  <2> HIDE DEF wait
  <2>3. loop' \in Loops
    <3>1. now + wait \in Nat /\ "sleeping" \in LoopStages
      BY <1>0, <2>1 DEF LoopStages
    <3> QED BY <1>0, <2>2, <3>1 DEF Loops
  <2>4. RedIsReal' /\ UpdateInv' /\ AskInv'
    BY <1>9, BetweenUpdates DEF FallAsleep
  <2> QED BY <1>9, <2>3, <2>4 DEF FallAsleep, IInv, IngestTypeOK, Loops, gateVars
<1>10. CASE WakeUp
  <2>1. Min({loop.attempt + 1, AttemptCap}) \in 0..AttemptCap
    BY <1>0, MinFacts DEF Loops
  <2>2. loop' \in Loops
    BY <1>10, <2>1 DEF WakeUp, Loops, LoopStages
  <2>3. RedIsReal' /\ UpdateInv' /\ AskInv'
    BY <1>10, BetweenUpdates DEF WakeUp, Connection
  <2> QED BY <1>10, <2>2, <2>3
          DEF WakeUp, IInv, IngestTypeOK, Loops, Updates, Connection, gateVars
<1>11. CASE StreamEnds
  <2>1. loop' \in Loops
    <3>1. 0 \in 0..AttemptCap /\ "top" \in LoopStages
      BY DEF LoopStages
    <3> QED BY <1>0, <1>11, <3>1 DEF StreamEnds, Loops
  <2>2. RedIsReal' /\ UpdateInv' /\ AskInv'
    BY <1>11, BetweenUpdates DEF StreamEnds
  <2> QED BY <1>11, <2>1, <2>2 DEF StreamEnds, IInv, IngestTypeOK, Loops, gateVars
<1>12. CASE \E t \in Tickers : AskGate(t)
  <2>1. PICK t \in Tickers : AskGate(t)
    BY <1>12
  <2> DEFINE call == [ticker |-> t, color |-> sla, at |-> now, fresh |-> Reviving \/ stalled]
  <2>2. asking' = call /\ UNCHANGED <<now, gate, log, feedVars>>
    BY <2>1 DEF AskGate
  <2>3. call \in Call
    <3>1. (Reviving \/ stalled) \in BOOLEAN
      BY DEF IInv, IngestTypeOK, Reviving
    <3> QED BY <1>0, <3>1 DEF Call
  <2>4. call.at = now /\ call.color = sla /\ (call.fresh <=> Reviving \/ stalled)
    OBVIOUS
  <2> HIDE DEF call
  <2>5. AskInv'
    BY <1>0, <2>2, <2>4 DEF IInv, AskInv, RedIsReal, feedVars
  <2> QED BY <2>2, <2>3, <2>5
          DEF IInv, IngestTypeOK, RedIsReal, Reviving, UpdateInv, Call, feedVars
<1>13. CASE MoveGate
  <2>1. PICK c \in EffectiveColors :
          LET t == asking.ticker
              g == Hysteresis(gate[t], c)
              answer == IF mode = "enforce" /\ g.blocked THEN "block" ELSE "allow"
          IN  /\ gate' = [gate EXCEPT ![t] = g]
              /\ log' = [log EXCEPT ![t] =
                     Append(@, [at |-> now, color |-> c, answer |-> answer])]
    BY <1>13 DEF MoveGate
  <2> DEFINE t == asking.ticker
             g == Hysteresis(gate[t], c)
             answer == IF mode = "enforce" /\ g.blocked THEN "block" ELSE "allow"
             entry == [at |-> now, color |-> c, answer |-> answer]
  <2>2. asking \in Call /\ asking' = NotAsked /\ UNCHANGED <<now, feedVars>>
    BY <1>13 DEF MoveGate, IInv, IngestTypeOK, Call
  <2>3. t \in Tickers /\ c \in Colors
    BY <2>2, EffectiveFacts DEF Call
  <2>4. g \in Gate
    BY <1>0, <2>3, HysteresisFacts DEF IInv, IngestTypeOK, Gate
  <2>5. entry \in Asking
    BY <1>0, <2>3 DEF Asking
  <2>6. gate' = [gate EXCEPT ![t] = g] /\ log' = [log EXCEPT ![t] = Append(@, entry)]
    BY <2>1
  <2> HIDE DEF t, g, entry
  <2>7. gate' \in [Tickers -> Gate]
    BY <2>4, <2>6 DEF IInv, IngestTypeOK, Gate
  <2>8. log' \in [Tickers -> Seq(Asking)]
    <3>1. Append(log[t], entry) \in Seq(Asking)
      BY <2>3, <2>5, AppendProperties DEF IInv, IngestTypeOK
    <3> QED BY <2>6, <3>1 DEF IInv, IngestTypeOK
  <2> QED BY <2>2, <2>7, <2>8
          DEF IInv, IngestTypeOK, RedIsReal, Reviving, UpdateInv, AskInv, Gate, feedVars
<1>14. CASE Tick
  <2>1. now' = now + 1 /\ UNCHANGED <<feedVars, gateVars>>
    BY <1>14 DEF Tick
  <2> QED BY <1>0, <2>1
          DEF IInv, IngestTypeOK, RedIsReal, Reviving, UpdateInv, AskInv, feedVars, gateVars
<1>15. CASE UNCHANGED ingestVars
  BY <1>15 DEF ingestVars, IInv, IngestTypeOK, RedIsReal, Reviving, UpdateInv, AskInv
<1> QED BY <1>1, <1>2, <1>3, <1>4, <1>5, <1>6, <1>7, <1>8, <1>9, <1>10, <1>11, <1>12, <1>13,
           <1>14, <1>15 DEF IngestNext, IngestThread

-----------------------------------------------------------------------------
(* The theorems. *)

LEMMA SpecIInv == IngestSpec => []IInv
BY InitIInv, NextIInv, PTL DEF IngestSpec

\* The variables of the feed and of the gate stay in their types.
THEOREM IngestTypeCorrect == IngestSpec => []IngestTypeOK
<1>1. IInv => IngestTypeOK
  BY DEF IInv
<1> QED BY <1>1, SpecIInv, PTL

\* A red colour in ingest/sla.py is never stale: no bar has come for longer
\* than AgeRed, whatever the order of bars, failures and reconnects, but for a
\* bar whose own update is on its way or took that long.
THEOREM RedIsTrue == IngestSpec => []RedIsReal
<1>1. IInv => RedIsReal
  BY DEF IInv
<1> QED BY <1>1, SpecIInv, PTL

\* Only the move of a gate changes it.
LEMMA OnlyMovesGate == [IngestNext]_ingestVars => MoveGate \/ UNCHANGED <<gate, log>>
BY DEF IngestNext, IngestThread, ingestVars, feedVars, gateVars, StartLoop, Connect, OnBar,
       MarkLive, ReadAge, Recolor, StreamFails, LoopCatches, FallAsleep, WakeUp, StreamEnds,
       AskGate, Tick

LEMMA ClosesStep ==
    IInv /\ [IngestNext]_ingestVars =>
        \A t \in Tickers : ~gate[t].blocked /\ gate'[t].blocked =>
            now - lastBar > AgeRed \/ lastBar >= asking.at \/ asking.fresh
<1> SUFFICES ASSUME IInv, [IngestNext]_ingestVars, NEW t \in Tickers,
                    ~gate[t].blocked, gate'[t].blocked
             PROVE  now - lastBar > AgeRed \/ lastBar >= asking.at \/ asking.fresh
  OBVIOUS
<1>1. MoveGate
  BY OnlyMovesGate
<1>2. PICK c \in EffectiveColors :
        gate' = [gate EXCEPT ![asking.ticker] = Hysteresis(gate[asking.ticker], c)]
  BY <1>1 DEF MoveGate
<1>3. gate \in [Tickers -> Gate] /\ now \in Nat /\ asking \in Call /\ asking # NotAsked
  BY <1>1 DEF MoveGate, IInv, IngestTypeOK, Gate, Call
<1>4. c \in Colors /\ (c = "red" => asking.color = "red")
  BY <1>3, EffectiveFacts DEF Call
<1>5. asking.ticker = t /\ gate'[t] = Hysteresis(gate[t], c)
  BY <1>2, <1>3
<1>6. c = "red"
  BY <1>3, <1>4, <1>5, HysteresisFacts
<1> QED BY <1>3, <1>4, <1>6 DEF IInv, AskInv

\* engine/ingest_gate.py closes a ticker only while the feed is dead, or was
\* when the closing call read its colour.
THEOREM GateClosesOnDeadFeed == IngestSpec => ClosesOnDeadFeed
BY SpecIInv, ClosesStep, PTL DEF IngestSpec, ClosesOnDeadFeed

-----------------------------------------------------------------------------
(* What one more asking does to the log's verdict. *)

Stretch(l, i) == {j \in 1..i : \A k \in j..i : l[k].color = l[i].color}
Deciders(l, n) == {i \in 1..n : Decisive(l, i)}

Least(x, S) == x \in S /\ \A y \in S : x <= y
Greatest(x, S) == x \in S /\ \A y \in S : x >= y

\* The minimum and the maximum the definitions choose exist: kept with the
\* invariant, since a log grows by one asking at a time.
Orderly(l) ==
    /\ \A i \in 1..Len(l) : \E x \in 1..i : Least(x, Stretch(l, i))
    /\ \A n \in 0..Len(l) :
         Deciders(l, n) # {} => \E x \in 1..n : Greatest(x, Deciders(l, n))

LEMMA TheLeast ==
    ASSUME NEW S \in SUBSET Nat, NEW x, Least(x, S) PROVE Min(S) = x
<1>1. Least(Min(S), S)
  BY DEF Least, Min
<1>2. x \in Nat /\ Min(S) \in Nat /\ x <= Min(S) /\ Min(S) <= x
  BY <1>1 DEF Least
<1> QED BY <1>2

LEMMA TheGreatest ==
    ASSUME NEW S \in SUBSET Nat, NEW x, Greatest(x, S) PROVE Max(S) = x
<1>1. Greatest(Max(S), S)
  BY DEF Greatest, Max
<1>2. x \in Nat /\ Max(S) \in Nat /\ x >= Max(S) /\ Max(S) >= x
  BY <1>1 DEF Greatest
<1> QED BY <1>2

LEMMA RunStartFacts ==
    ASSUME NEW l, NEW i \in Nat, NEW x, Least(x, Stretch(l, i))
    PROVE  RunStart(l, i) = x
<1>1. Stretch(l, i) \in SUBSET Nat
  BY DEF Stretch
<1> QED BY <1>1, TheLeast DEF RunStart, Stretch

\* Earlier positions keep their stretch, and so their verdict.
LEMMA EarlierKept ==
    ASSUME NEW l \in Seq(Asking), NEW e \in Asking, Orderly(l), NEW i \in 1..Len(l)
    PROVE  /\ Stretch(Append(l, e), i) = Stretch(l, i)
           /\ Decisive(Append(l, e), i) <=> Decisive(l, i)
<1> DEFINE m == Append(l, e)
<1>1. Len(l) \in Nat /\ \A k \in 1..Len(l) : m[k] = l[k]
  BY LenProperties, AppendProperties
<1> HIDE DEF m
<1>2. \A j \in 1..i : \A k \in j..i : m[k] = l[k]
  BY <1>1
<1>3. m[i] = l[i]
  BY <1>1
<1>4. Stretch(m, i) = Stretch(l, i)
  BY <1>2, <1>3 DEF Stretch
<1>5. PICK x \in 1..i : Least(x, Stretch(l, i))
  BY DEF Orderly
<1>6. RunStart(m, i) = x /\ RunStart(l, i) = x
  BY <1>4, <1>5, RunStartFacts
<1>7. m[x] = l[x]
  BY <1>1
<1>8. Decisive(m, i) <=> Decisive(l, i)
  BY <1>3, <1>6, <1>7 DEF Decisive
<1> QED BY <1>4, <1>8 DEF m

\* The new asking extends the last stretch if it saw the same colour, and
\* starts one otherwise.
LEMMA NewRunStart ==
    ASSUME NEW l \in Seq(Asking), NEW e \in Asking, Orderly(l)
    PROVE  \E x \in 1..(Len(l) + 1) :
             /\ Least(x, Stretch(Append(l, e), Len(l) + 1))
             /\ RunStart(Append(l, e), Len(l) + 1) = x
             /\ x = IF Len(l) > 0 /\ l[Len(l)].color = e.color
                    THEN RunStart(l, Len(l)) ELSE Len(l) + 1
<1> DEFINE m == Append(l, e)
           n == Len(l)
<1>1. n \in Nat /\ (\A k \in 1..n : m[k] = l[k]) /\ m[n + 1] = e
  BY LenProperties, AppendProperties
<1>2. n > 0 => \E x \in 1..n : Least(x, Stretch(l, n)) /\ RunStart(l, n) = x
  <2>1. SUFFICES ASSUME n > 0 PROVE \E x \in 1..n : Least(x, Stretch(l, n)) /\ RunStart(l, n) = x
    OBVIOUS
  <2>2. PICK x \in 1..n : Least(x, Stretch(l, n))
    BY <1>1, <2>1 DEF Orderly
  <2> QED BY <1>1, <2>2, RunStartFacts
<1> HIDE DEF m, n
<1>3. CASE n > 0 /\ l[n].color = e.color
  <2>1. PICK q \in 1..n : Least(q, Stretch(l, n)) /\ RunStart(l, n) = q
    BY <1>2, <1>3
  <2>2. q \in Stretch(m, n + 1)
    <3>1. \A k \in q..n : l[k].color = l[n].color
      BY <2>1 DEF Stretch, Least
    <3>2. \A k \in q..(n + 1) : k = n + 1 \/ (k \in q..n /\ k \in 1..n)
      BY <1>1, <2>1
    <3>3. \A k \in q..(n + 1) : m[k].color = m[n + 1].color
      BY <1>1, <1>3, <3>1, <3>2
    <3>4. q \in 1..(n + 1)
      BY <1>1, <2>1
    <3> QED BY <3>3, <3>4 DEF Stretch
  <2>3. ASSUME NEW r \in Stretch(m, n + 1) PROVE q <= r
    <3>1. r \in 1..(n + 1) /\ \A k \in r..(n + 1) : m[k].color = m[n + 1].color
      BY DEF Stretch
    <3>2. CASE r = n + 1
      BY <1>1, <2>1, <3>2
    <3>3. CASE r # n + 1
      <4>1. r \in 1..n /\ \A k \in r..n : k \in r..(n + 1) /\ k \in 1..n
        BY <1>1, <3>1, <3>3
      <4>2. \A k \in r..n : l[k].color = l[n].color
        BY <1>1, <1>3, <3>1, <4>1
      <4>3. r \in Stretch(l, n)
        BY <4>1, <4>2 DEF Stretch
      <4> QED BY <2>1, <4>3 DEF Least
    <3> QED BY <3>2, <3>3
  <2>4. Least(q, Stretch(m, n + 1))
    BY <2>2, <2>3 DEF Least
  <2>5. RunStart(m, n + 1) = q /\ q \in 1..(n + 1)
    BY <1>1, <2>1, <2>4, RunStartFacts
  <2> QED BY <1>3, <2>1, <2>4, <2>5 DEF m, n
<1>4. CASE ~(n > 0 /\ l[n].color = e.color)
  <2>1. n + 1 \in Stretch(m, n + 1)
    <3>1. \A k \in (n + 1)..(n + 1) : k = n + 1
      BY <1>1
    <3>2. n + 1 \in 1..(n + 1)
      BY <1>1
    <3> QED BY <3>1, <3>2 DEF Stretch
  <2>2. ASSUME NEW r \in Stretch(m, n + 1) PROVE n + 1 <= r
    <3>1. r \in 1..(n + 1) /\ \A k \in r..(n + 1) : m[k].color = m[n + 1].color
      BY DEF Stretch
    <3>2. SUFFICES ASSUME r # n + 1 PROVE FALSE
      BY <1>1
    <3>3. n > 0 /\ n \in r..(n + 1) /\ n \in 1..n
      BY <1>1, <3>1, <3>2
    <3> QED BY <1>1, <1>4, <3>1, <3>3
  <2>3. Least(n + 1, Stretch(m, n + 1))
    BY <2>1, <2>2 DEF Least
  <2>4. RunStart(m, n + 1) = n + 1 /\ n + 1 \in 1..(n + 1)
    BY <1>1, <2>3, RunStartFacts
  <2> QED BY <1>4, <2>3, <2>4 DEF m, n
<1> QED BY <1>3, <1>4

\* The new asking decides, or the verdict stays.
LEMMA NewVerdict ==
    ASSUME NEW l \in Seq(Asking), NEW e \in Asking, Orderly(l)
    PROVE  /\ Orderly(Append(l, e))
           /\ \A i \in 0..Len(l) : ClosedAfter(Append(l, e), i) = ClosedAfter(l, i)
           /\ ClosedAfter(Append(l, e), Len(l) + 1) =
                IF Decisive(Append(l, e), Len(l) + 1) THEN e.color = "red"
                ELSE ClosedAfter(l, Len(l))
<1> DEFINE m == Append(l, e)
           n == Len(l)
<1>1. n \in Nat /\ Len(m) = n + 1 /\ (\A k \in 1..n : m[k] = l[k]) /\ m[n + 1] = e
  BY LenProperties, AppendProperties
<1>2. \A k \in 1..n : (Decisive(m, k) <=> Decisive(l, k)) /\ Stretch(m, k) = Stretch(l, k)
  BY EarlierKept
<1>3. \E x \in 1..(n + 1) : Least(x, Stretch(m, n + 1))
  BY NewRunStart
<1> HIDE DEF m, n
<1>o. /\ \A i \in 1..n : \E x \in 1..i : Least(x, Stretch(l, i))
      /\ \A i \in 0..n : Deciders(l, i) # {} => \E x \in 1..i : Greatest(x, Deciders(l, i))
  BY DEF Orderly, n
<1>4. \A i \in 0..n : Deciders(m, i) = Deciders(l, i)
  <2>1. \A i \in 0..n : 1..i \subseteq 1..n
    BY <1>1
  <2> QED BY <1>2, <2>1 DEF Deciders
<1>5. Decisive(m, n + 1) => Greatest(n + 1, Deciders(m, n + 1)) /\ n + 1 \in 1..(n + 1)
  BY <1>1 DEF Deciders, Greatest
<1>6. ~Decisive(m, n + 1) => Deciders(m, n + 1) = Deciders(l, n)
  <2>1. 1..(n + 1) = 1..n \cup {n + 1}
    BY <1>1
  <2> QED BY <1>2, <2>1 DEF Deciders
<1>7. Orderly(m)
  <2>1. ASSUME NEW i \in 1..(n + 1) PROVE \E x \in 1..i : Least(x, Stretch(m, i))
    <3>1. CASE i = n + 1
      BY <1>3, <3>1
    <3>2. CASE i # n + 1
      <4>1. i \in 1..n
        BY <1>1, <3>2
      <4> QED BY <1>2, <1>o, <4>1
    <3> QED BY <3>1, <3>2
  <2>2. ASSUME NEW i \in 0..(n + 1), Deciders(m, i) # {}
        PROVE  \E x \in 1..i : Greatest(x, Deciders(m, i))
    <3>1. CASE i # n + 1
      <4>1. i \in 0..n
        BY <1>1, <3>1
      <4> QED BY <1>4, <1>o, <2>2, <4>1
    <3>2. CASE i = n + 1 /\ Decisive(m, n + 1)
      BY <1>5, <3>2
    <3>3. CASE i = n + 1 /\ ~Decisive(m, n + 1)
      <4>1. n \in 0..n /\ 1..n \subseteq 1..i
        BY <1>1, <3>3
      <4> QED BY <1>6, <1>o, <2>2, <3>3, <4>1
    <3> QED BY <3>1, <3>2, <3>3
  <2> QED BY <1>1, <2>1, <2>2 DEF Orderly
<1>8. ASSUME NEW i \in 0..n PROVE ClosedAfter(m, i) = ClosedAfter(l, i)
  <2>1. CASE Deciders(l, i) = {}
    BY <1>4, <2>1 DEF ClosedAfter, Deciders
  <2>2. CASE Deciders(l, i) # {}
    <3>1. PICK x \in 1..i : Greatest(x, Deciders(l, i))
      BY <1>o, <2>2
    <3>2. Deciders(l, i) \in SUBSET Nat
      BY DEF Deciders
    <3>3. Max(Deciders(l, i)) = x /\ Max(Deciders(m, i)) = x
      BY <1>4, <3>1, <3>2, TheGreatest
    <3>4. m[x] = l[x]
      BY <1>1
    <3> QED BY <1>4, <3>3, <3>4 DEF ClosedAfter, Deciders
  <2> QED BY <2>1, <2>2
<1>9. CASE Decisive(m, n + 1)
  <2>1. Deciders(m, n + 1) \in SUBSET Nat
    BY DEF Deciders
  <2>2. Max(Deciders(m, n + 1)) = n + 1
    BY <1>5, <1>9, <2>1, TheGreatest
  <2>3. ClosedAfter(m, n + 1) = (e.color = "red")
    BY <1>1, <1>5, <1>9, <2>2 DEF ClosedAfter, Deciders, Greatest
  <2> QED BY <1>7, <1>8, <1>9, <2>3 DEF m, n
<1>10. CASE ~Decisive(m, n + 1)
  <2>1. n \in 0..n
    BY <1>1
  <2>2. Deciders(m, n + 1) = Deciders(m, n)
    BY <1>4, <1>6, <1>10, <2>1
  <2>3. ClosedAfter(m, n + 1) = ClosedAfter(m, n)
    BY <2>2 DEF ClosedAfter, Deciders
  <2> QED BY <1>7, <1>8, <1>10, <2>1, <2>3 DEF m, n
<1> QED BY <1>9, <1>10

-----------------------------------------------------------------------------
(* The gate and its log. *)

\* What the gate holds is what the log's last stretch and verdict say.
Tracks(g, l) ==
    /\ l = <<>> => g = FreshGate
    /\ l # <<>> =>
         LET first == l[RunStart(l, Len(l))].at IN
         /\ g.color = l[Len(l)].color
         /\ g.redSince = IF g.color = "red" THEN first ELSE None
         /\ g.greenSince = IF g.color = "green" THEN first ELSE None
    /\ g.blocked = ClosedAfter(l, Len(l))

LEMMA TracksStep ==
    ASSUME now \in Nat, NEW g \in Gate, NEW l \in Seq(Asking), Orderly(l), Tracks(g, l),
           NEW c \in Colors, NEW e \in Asking, e.at = now, e.color = c
    PROVE  Tracks(Hysteresis(g, c), Append(l, e))
<1> DEFINE m == Append(l, e)
           n == Len(l)
           h == Timers(g, c)
<1>1. /\ n \in Nat /\ Len(m) = n + 1 /\ m # <<>> /\ (\A k \in 1..n : m[k] = l[k])
      /\ m[n + 1] = e /\ (n = 0 <=> l = <<>>)
  BY LenProperties, AppendProperties, EmptySeq
<1>2. PICK x \in 1..(n + 1) :
         RunStart(m, n + 1) = x
         /\ x = IF n > 0 /\ l[n].color = c THEN RunStart(l, n) ELSE n + 1
  BY NewRunStart
<1>3. ClosedAfter(m, n + 1) = IF Decisive(m, n + 1) THEN c = "red" ELSE ClosedAfter(l, n)
  BY NewVerdict
<1>t. ASSUME NEW k \in 1..n PROVE l[k].at \in Nat
  <2>1. l[k] \in Asking
    BY LenProperties
  <2> QED BY <2>1 DEF Asking
<1> HIDE DEF m, n
<1> DEFINE first == m[x].at
<1>4. /\ h.color = c /\ h.blocked = g.blocked /\ h \in Gate
      /\ h.redSince = IF c = "red" THEN first ELSE None
      /\ h.greenSince = IF c = "green" THEN first ELSE None
  <2>1. h.color = c /\ h.blocked = g.blocked /\ h \in Gate
    BY DEF Timers, Gate
  <2>2. CASE n > 0 /\ l[n].color = c
    <3>1. x = RunStart(l, n) /\ l # <<>>
      BY <1>1, <1>2, <2>2
    <3>2. x \in 1..n
      <4>1. PICK y \in 1..n : Least(y, Stretch(l, n))
        BY <1>1, <2>2 DEF Orderly, n
      <4> QED BY <1>1, <3>1, <4>1, RunStartFacts
    <3>3. first = l[x].at /\ first # None
      BY <1>1, <1>t, <3>2 DEF None
    <3>4. /\ g.color = c
          /\ g.redSince = IF c = "red" THEN first ELSE None
          /\ g.greenSince = IF c = "green" THEN first ELSE None
      BY <2>2, <3>1, <3>3 DEF Tracks, n
    <3> HIDE DEF first
    <3> QED BY <2>1, <3>3, <3>4 DEF Timers
  <2>3. CASE ~(n > 0 /\ l[n].color = c)
    <3>1. first = now
      BY <1>1, <1>2, <2>3
    <3>2. CASE n = 0
      <4>1. g = FreshGate
        BY <1>1, <3>2 DEF Tracks
      <4> HIDE DEF first
      <4> QED BY <2>1, <3>1, <4>1 DEF Timers, FreshGate
    <3>3. CASE n # 0
      <4>1. g.color # c
        BY <1>1, <2>3, <3>3 DEF Tracks, n
      <4> HIDE DEF first
      <4> QED BY <2>1, <3>1, <4>1 DEF Timers
    <3> QED BY <3>2, <3>3
  <2> QED BY <2>2, <2>3
<1>5. Decisive(m, n + 1) = (\/ c = "red" /\ now - first >= RedMin
                            \/ c = "green" /\ now - first >= GreenMin)
  BY <1>1, <1>2 DEF Decisive
<1>6. g.blocked = ClosedAfter(l, n) /\ g.blocked \in BOOLEAN
  BY DEF Tracks, Gate, n
<1> HIDE DEF first, h
<1>7. /\ Hysteresis(g, c).color = c
      /\ Hysteresis(g, c).redSince = h.redSince /\ Hysteresis(g, c).greenSince = h.greenSince
      /\ Hysteresis(g, c).blocked = IF g.blocked
            THEN ~(c = "green" /\ now - h.greenSince >= GreenMin)
            ELSE (c = "red" /\ now - h.redSince >= RedMin)
  <2>1. Hysteresis(g, c) =
          IF h.blocked THEN [h EXCEPT !.blocked = ~(c = "green" /\ now - h.greenSince >= GreenMin)]
          ELSE [h EXCEPT !.blocked = (c = "red" /\ now - h.redSince >= RedMin)]
    BY DEF Hysteresis, h
  <2> QED BY <1>4, <2>1 DEF Gate
<1>8. Hysteresis(g, c).blocked = ClosedAfter(m, n + 1)
  <2>1. CASE c = "red"
    BY <1>3, <1>4, <1>5, <1>6, <1>7, <2>1
  <2>2. CASE c = "green"
    BY <1>3, <1>4, <1>5, <1>6, <1>7, <2>2
  <2>3. CASE c = "yellow"
    BY <1>3, <1>4, <1>5, <1>6, <1>7, <2>3
  <2> QED BY <2>1, <2>2, <2>3 DEF Colors
<1>9. RunStart(m, Len(m)) = x /\ m[Len(m)].color = c
  BY <1>1, <1>2
<1> QED BY <1>1, <1>4, <1>7, <1>8, <1>9 DEF Tracks, m, first

\* The inductive invariant of the gate.
GInv ==
    /\ \A t \in Tickers : Orderly(log[t])
    /\ mode # "off" => \A t \in Tickers : Tracks(gate[t], log[t])
    /\ RefusalsFollowAskings

LEMMA InitGInv == IngestInit => GInv
<1> SUFFICES ASSUME IngestInit PROVE GInv
  OBVIOUS
<1>1. \A t \in Tickers : log[t] = <<>> /\ gate[t] = FreshGate
  BY DEF IngestInit
<1>2. Len(<<>>) = 0 /\ 1..0 = {} /\ 0..0 = {0}
  OBVIOUS
<1>3. Orderly(<<>>) /\ ClosedAfter(<<>>, 0) = FALSE
  BY <1>2 DEF Orderly, Deciders, ClosedAfter
<1>4. \A t \in Tickers : Tracks(gate[t], log[t])
  <2>1. FreshGate.blocked = FALSE
    BY DEF FreshGate
  <2>2. FreshGate.blocked = ClosedAfter(<<>>, Len(<<>>))
    BY <1>2, <1>3, <2>1
  <2>3. Tracks(FreshGate, <<>>)
    BY <2>2 DEF Tracks
  <2> QED BY <1>1, <2>3
<1>5. RefusalsFollowAskings
  BY <1>1, <1>2 DEF RefusalsFollowAskings
<1> QED BY <1>1, <1>3, <1>4, <1>5 DEF GInv

LEMMA NextGInv == IInv /\ GInv /\ [IngestNext]_ingestVars => GInv'
<1> SUFFICES ASSUME IInv, GInv, [IngestNext]_ingestVars PROVE GInv'
  OBVIOUS
<1>0. mode' = mode
  BY DEF IngestNext, IngestThread, ingestVars, feedVars, gateVars, StartLoop, Connect, OnBar,
         MarkLive, ReadAge, Recolor, StreamFails, LoopCatches, FallAsleep, WakeUp, StreamEnds,
         AskGate, MoveGate, Tick
<1>1. CASE UNCHANGED <<gate, log>>
  BY <1>0, <1>1 DEF GInv, RefusalsFollowAskings
<1>2. CASE MoveGate
  <2>1. PICK c \in EffectiveColors :
          LET t == asking.ticker
              g == Hysteresis(gate[t], c)
              answer == IF mode = "enforce" /\ g.blocked THEN "block" ELSE "allow"
          IN  /\ gate' = [gate EXCEPT ![t] = g]
              /\ log' = [log EXCEPT ![t] =
                     Append(@, [at |-> now, color |-> c, answer |-> answer])]
    BY <1>2 DEF MoveGate
  <2> DEFINE t == asking.ticker
             g == Hysteresis(gate[t], c)
             answer == IF mode = "enforce" /\ g.blocked THEN "block" ELSE "allow"
             e == [at |-> now, color |-> c, answer |-> answer]
             l == log[t]
  <2>0. asking \in Call
    BY <1>2 DEF MoveGate, IInv, IngestTypeOK, Call
  <2>b. t \in Tickers /\ c \in Colors
    BY <2>0, EffectiveFacts DEF Call
  <2>2. c \in Colors /\ now \in Nat /\ l \in Seq(Asking) /\ gate[t] \in Gate
    BY <2>b DEF IInv, IngestTypeOK, Gate
  <2>3. e \in Asking /\ e.at = now /\ e.color = c /\ e.answer = answer
    BY <2>2 DEF Asking
  <2>4. /\ mode' = mode
        /\ gate'[t] = g /\ log'[t] = Append(l, e)
        /\ \A u \in Tickers \ {t} : gate'[u] = gate[u] /\ log'[u] = log[u]
    BY <1>0, <2>1, <2>b DEF IInv, IngestTypeOK
  <2>5. Orderly(l) /\ Orderly(Append(l, e))
    BY <2>2, <2>3, <2>b, NewVerdict DEF GInv
  <2>6. mode # "off" => Tracks(g, Append(l, e))
    BY <2>2, <2>3, <2>5, <2>b, TracksStep DEF GInv
  <2>7. Len(l) \in Nat /\ Len(Append(l, e)) = Len(l) + 1
        /\ (\A i \in 1..Len(l) : Append(l, e)[i] = l[i]) /\ Append(l, e)[Len(l) + 1] = e
    BY <2>2, <2>3, LenProperties, AppendProperties
  <2>8. \A i \in 0..Len(l) : ClosedAfter(Append(l, e), i) = ClosedAfter(l, i)
    BY <2>2, <2>3, <2>5, NewVerdict
  <2>9. e.answer = "block" <=> mode = "enforce" /\ ClosedAfter(Append(l, e), Len(l) + 1)
    <3>1. mode # "off" => g.blocked = ClosedAfter(Append(l, e), Len(l) + 1)
      BY <2>6, <2>7 DEF Tracks
    <3>2. e.answer = "block" <=> mode = "enforce" /\ g.blocked
      OBVIOUS
    <3> HIDE DEF g, e
    <3> QED BY <3>1, <3>2
  <2> HIDE DEF e, l, g
  <2>10. \A i \in 1..Len(log'[t]) :
           log'[t][i].answer = "block" <=> mode' = "enforce" /\ ClosedAfter(log'[t], i)
    <3>1. SUFFICES ASSUME NEW i \in 1..(Len(l) + 1)
          PROVE Append(l, e)[i].answer = "block" <=> mode = "enforce" /\ ClosedAfter(Append(l, e), i)
      BY <2>4, <2>7
    <3>2. CASE i = Len(l) + 1
      BY <2>7, <2>9, <3>2
    <3>3. CASE i # Len(l) + 1
      <4>1. i \in 1..Len(l) /\ i \in 0..Len(l)
        BY <2>7, <3>3
      <4>2. l[i].answer = "block" <=> mode = "enforce" /\ ClosedAfter(l, i)
        BY <2>b, <4>1 DEF GInv, RefusalsFollowAskings, l
      <4> QED BY <2>7, <2>8, <4>1, <4>2
    <3> QED BY <3>2, <3>3
  <2>11. \A u \in Tickers : Orderly(log'[u])
    BY <2>4, <2>5 DEF GInv
  <2>12. mode' # "off" => \A u \in Tickers : Tracks(gate'[u], log'[u])
    BY <2>4, <2>6 DEF GInv
  <2>13. RefusalsFollowAskings'
    <3>1. ASSUME NEW u \in Tickers \ {t}, NEW i \in 1..Len(log'[u])
          PROVE  log'[u][i].answer = "block" <=> mode' = "enforce" /\ ClosedAfter(log'[u], i)
      <4>1. log'[u] = log[u] /\ mode' = mode
        BY <2>4
      <4>2. i \in 1..Len(log[u])
        BY <3>1, <4>1
      <4> QED BY <4>1, <4>2 DEF GInv, RefusalsFollowAskings
    <3> QED BY <2>10, <3>1 DEF RefusalsFollowAskings
  <2> QED BY <2>11, <2>12, <2>13 DEF GInv
<1> QED BY <1>1, <1>2, OnlyMovesGate

LEMMA SpecGInv == IngestSpec => []GInv
BY SpecIInv, InitGInv, NextGInv, PTL DEF IngestSpec

\* The gate of a ticker, with its sampled clocks, is the declarative reading
\* of everything it was asked, however many askings there were.
THEOREM GateIsItsLog == IngestSpec => []GateFollowsAskings
<1>1. GInv => GateFollowsAskings
  BY DEF GInv, Tracks, GateFollowsAskings
<1> QED BY <1>1, SpecGInv, PTL

\* An entry is refused only by an enforcing gate whose log says closed.
THEOREM RefusalsAreItsLog == IngestSpec => []RefusalsFollowAskings
<1>1. GInv => RefusalsFollowAskings
  BY DEF GInv
<1> QED BY <1>1, SpecGInv, PTL

-----------------------------------------------------------------------------
(***************************************************************************)
(* Proofs about Sentinel, for all prices, ATRs, windows and thresholds:    *)
(* types, and what an exit of the price stop, of the trail and of the      *)
(* velocity has behind it.                                                 *)
(***************************************************************************)

Trails == [stage : 0..3, peak : Int, seen : 0..MinBars, target : Int, last : Int]
Histories == [recent : [1..Window -> Samples], base : Samples]

\* A sample that counts was taken with k shares, and with some at all.
Same(s, k) == s = NoSample \/ (s.shares # 0 /\ s.shares = k)
AllSame(h, k) == Same(h.base, k) /\ \A i \in 1..Window : Same(h.recent[i], k)

\* The peak of a trail is no higher than the closes looked at since the entry,
\* and at the chandelier's stages it has seen one risk.
Earned(t, best) == t.peak <= best /\ (t.stage >= 2 => t.peak >= R)

\* Samples belong to the shares known, the trail is earned, a look that
\* counted was beyond the stop of a position with an id, and what is open has
\* not been closed; a dead process remembers none of it.
Inv ==
    /\ TypeOK
    /\ AllSame(samples, pos.known)
    /\ Earned(trail, hist.best) /\ hist.best >= 0
    /\ pending > 0 => hist.before /\ pos.named
    /\ pos.shares # 0 \/ disk.shares # 0 => out.why = "none"
    /\ ~up => samples = NoHistory /\ pending = 0

-----------------------------------------------------------------------------
(* Samples                                                                 *)

LEMMA NoHistoryFits ==
    /\ NoSample \in Samples /\ NoHistory \in Histories
    /\ \A k \in Int : AllSame(NoHistory, k)
<1>1. NoSample \in Samples
  BY DEF NoSample, Samples
<1> QED BY <1>1 DEF NoHistory, Histories, AllSame, Same

\* A cycle passes: samples move on, and none appears.
LEMMA AgedFits ==
    ASSUME NEW h \in Histories, NEW k \in Int, AllSame(h, k)
    PROVE  Aged(h) \in Histories /\ AllSame(Aged(h), k)
<1> DEFINE r == [i \in 1..Window |-> IF i = 1 THEN NoSample ELSE h.recent[i - 1]]
           b == IF h.recent[Window] # NoSample THEN h.recent[Window] ELSE h.base
<1>1. Window \in 1..Window /\ Window \in Nat \ {0}
  BY SentinelConstants
<1>2. \A i \in 1..Window : i # 1 => i - 1 \in 1..Window
  BY <1>1
<1>3. h.recent \in [1..Window -> Samples] /\ h.base \in Samples
  BY DEF Histories
<1>4. r \in [1..Window -> Samples]
  BY <1>2, <1>3, NoHistoryFits
<1>5. b \in Samples
  BY <1>1, <1>3
<1>6. Aged(h) = [recent |-> r, base |-> b]
  BY DEF Aged
<1>7. Same(b, k)
  BY <1>1 DEF AllSame
<1>8. ASSUME NEW i \in 1..Window PROVE Same(r[i], k)
  <2>1. r[i] = IF i = 1 THEN NoSample ELSE h.recent[i - 1]
    OBVIOUS
  <2> QED BY <2>1, <1>2 DEF AllSame, Same
<1>9. Aged(h).recent = r /\ Aged(h).base = b
  BY <1>6
<1>10. AllSame(Aged(h), k)
  BY <1>7, <1>8, <1>9 DEF AllSame
<1> HIDE DEF r, b
<1> QED BY <1>4, <1>5, <1>6, <1>10 DEF Histories

\* A look adds a sample of the shares it saw, and drops those of others.
LEMMA SampledFits ==
    ASSUME Inv, NEW mark \in Int, pos.shares # 0
    PROVE  Sampled(mark) \in Histories /\ AllSame(Sampled(mark), pos.shares)
<1> DEFINE h == IF pos.known \in {0, pos.shares} THEN Aged(samples) ELSE NoHistory
           s == [pnl |-> Pnl(mark), shares |-> pos.shares]
<1>1. pos.shares \in {0, Half, Lot} /\ pos.known \in {0, Half, Lot} /\ samples \in Histories
  BY DEF Inv, TypeOK, Positions, Histories
<1>2. pos.shares \in Int /\ pos.known \in Int
  BY <1>1, SentinelConstants
<1>3. s \in Samples
  <2>1. \A x, y \in Int : x * y \in Int
    OBVIOUS
  <2> QED BY <1>1, <1>2, <2>1 DEF Pnl, Samples
<1>4. h \in Histories /\ AllSame(h, pos.shares)
  <2>1. Aged(samples) \in Histories /\ AllSame(Aged(samples), pos.known)
    BY <1>1, <1>2, AgedFits DEF Inv
  <2>2. pos.known = 0 => AllSame(Aged(samples), pos.shares)
    BY <2>1 DEF AllSame, Same
  <2> QED BY <1>2, <2>1, <2>2, NoHistoryFits
<1>5. Same(s, pos.shares)
  BY DEF Same
<1>6. Sampled(mark) = [h EXCEPT !.recent[1] = s]
  BY DEF Sampled
<1> HIDE DEF h, s
<1>7. h.recent \in [1..Window -> Samples] /\ h.base \in Samples
  BY <1>4 DEF Histories
<1>8. Sampled(mark) = [recent |-> [h.recent EXCEPT ![1] = s], base |-> h.base]
  BY <1>4, <1>6 DEF Histories
<1>9. [h.recent EXCEPT ![1] = s] \in [1..Window -> Samples]
  BY <1>3, <1>7
<1>10. \A i \in 1..Window : Same([h.recent EXCEPT ![1] = s][i], pos.shares)
  BY <1>4, <1>5, <1>7 DEF AllSame
<1>11. AllSame(Sampled(mark), pos.shares)
  BY <1>4, <1>8, <1>10 DEF AllSame
<1> QED BY <1>7, <1>8, <1>9, <1>11 DEF Histories

-----------------------------------------------------------------------------
(* The trail                                                               *)

LEMMA HighestFits ==
    ASSUME NEW a \in Int, NEW b \in Int
    PROVE  Highest(a, b) \in Int /\ Highest(a, b) >= a /\ Highest(a, b) >= b
                              /\ Highest(a, b) \in {a, b}
BY DEF Highest

\* A close moves the peak up to it, and arms a stage only on one risk of peak.
LEMMA AdvancedFits ==
    ASSUME Inv, NEW close \in Int, NEW atr \in Atrs \cup {NoAtr}
    PROVE  LET t == Advanced(close, atr) IN
             /\ t \in Trails
             /\ t.peak = Highest(trail.peak, close) /\ t.last = trail.last
             /\ t.stage >= 2 => t.peak >= R
<1> DEFINE p == Peaked(trail, close)
           q == BreakevenArmed(p)
           w == WideArmed(q, atr)
<1>1. trail \in Trails /\ (trail.stage >= 2 => trail.peak >= R)
  BY DEF Inv, TypeOK, Trails, Earned
<1>2. /\ p \in Trails /\ p.peak = Highest(trail.peak, close) /\ p.last = trail.last
      /\ p.stage >= 2 => p.peak >= R
  <2>1. trail.peak \in Int /\ trail.seen \in 0..MinBars
    BY <1>1 DEF Trails
  <2>2. Highest(trail.peak, close) \in Int /\ Highest(trail.peak, close) >= trail.peak
    BY <2>1, HighestFits
  <2>3. (IF trail.seen < MinBars THEN trail.seen + 1 ELSE trail.seen) \in 0..MinBars
    BY <2>1, SentinelConstants
  <2>4. p = [trail EXCEPT !.seen = IF trail.seen < MinBars THEN trail.seen + 1 ELSE trail.seen,
                          !.peak = Highest(trail.peak, close)]
    BY DEF Peaked
  <2>5. p.stage = trail.stage /\ p.peak = Highest(trail.peak, close) /\ p.last = trail.last
    BY <1>1, <2>4 DEF Trails
  <2>6. p \in Trails
    BY <1>1, <2>2, <2>3, <2>4 DEF Trails
  <2>7. R \in Int
    BY SentinelConstants
  <2> HIDE DEF p
  <2> QED BY <1>1, <2>1, <2>2, <2>5, <2>6, <2>7
<1> HIDE DEF p
<1>3. q \in Trails /\ q.peak = p.peak /\ q.last = p.last /\ (q.stage >= 2 => q.stage = p.stage)
  BY <1>2 DEF BreakevenArmed, Trails
<1> HIDE DEF q
<1>4. (atr # NoAtr => Step[atr] \in Nat) /\ R \in Int
  BY SentinelConstants
<1>5. w \in Trails /\ w.peak = p.peak /\ w.last = p.last /\ (w.stage >= 2 => w.peak >= R)
  <2>1. q.stage \in 0..3 /\ q.peak \in Int
    BY <1>3 DEF Trails
  <2>2. CASE q.stage = 1 /\ q.peak >= R /\ atr # NoAtr
    <3> DEFINE n == q.peak + Step[atr]
               v == [q EXCEPT !.stage = 2]
    <3>1. w = [v EXCEPT !.target = n]
      BY <2>2 DEF WideArmed
    <3>2. n \in Int
      BY <1>4, <2>1, <2>2
    <3>3. v \in Trails /\ v.peak = q.peak /\ v.last = q.last
      BY <1>3 DEF Trails
    <3> HIDE DEF n, v, w
    <3>4. w \in Trails /\ w.peak = v.peak /\ w.last = v.last
      BY <3>1, <3>2, <3>3 DEF Trails
    <3> QED BY <1>3, <2>2, <3>3, <3>4
  <2>3. CASE ~(q.stage = 1 /\ q.peak >= R /\ atr # NoAtr)
    <3>1. w = q
      BY <2>3 DEF WideArmed
    <3> QED BY <1>2, <1>3, <2>1, <3>1
  <2> QED BY <2>2, <2>3
<1> HIDE DEF w
<1>6. LET t == TightArmed(w, atr) IN
        t \in Trails /\ t.peak = p.peak /\ t.last = p.last /\ (t.stage >= 2 => t.peak >= R)
  BY <1>5 DEF TightArmed, Trails
<1>7. Advanced(close, atr) \in {p, TightArmed(w, atr)}
  BY DEF Advanced, p, q, w
<1> QED BY <1>2, <1>6, <1>7

\* What alarm F remembers after a look.
LEMMA TrailedFits ==
    ASSUME Inv, NEW close \in Int, NEW atr \in Atrs \cup {NoAtr}
    PROVE  /\ Trailed(close, atr) \in Trails
           /\ Earned(Trailed(close, atr), Highest(hist.best, close))
           /\ pos.stop \in Int => Tightened(close, atr) \in Positions
<1> DEFINE t == Advanced(close, atr)
<1>1. t \in Trails /\ t.peak = Highest(trail.peak, close) /\ (t.stage >= 2 => t.peak >= R)
  BY AdvancedFits
<1>2. trail.peak \in Int /\ hist.best \in Int /\ trail.peak <= hist.best
  BY DEF Inv, TypeOK, Earned
<1>3. Highest(trail.peak, close) <= Highest(hist.best, close)
  BY <1>2 DEF Highest
<1> HIDE DEF t
<1>4. Best(t, atr) \in Int
  <2>1. t.peak \in Int /\ t.last \in Int
    BY <1>1 DEF Trails
  <2>2. Highest(Pad, t.last) \in Int
    <3>1. Pad \in Int
      BY SentinelConstants
    <3> QED BY <2>1, <3>1, HighestFits
  <2>3. Chandelier(t, atr) => Level(t, atr) \in Int
    BY <2>1, SentinelConstants DEF Chandelier, Level
  <2> QED BY <2>2, <2>3, HighestFits DEF Best
<1>5. [t EXCEPT !.last = Best(t, atr)] \in Trails
  BY <1>1, <1>4 DEF Trails
<1>6. [t EXCEPT !.last = Best(t, atr)].peak = t.peak /\ [t EXCEPT !.last = Best(t, atr)].stage = t.stage
  BY <1>1 DEF Trails
<1>7. Trailed(close, atr) \in {t, [t EXCEPT !.last = Best(t, atr)]}
  BY DEF Trailed, t
<1>8. Tightened(close, atr) \in {pos, [pos EXCEPT !.stop = Best(t, atr)]}
  BY DEF Tightened, t
<1>9. pos \in Positions
  BY DEF Inv, TypeOK
<1>10. [pos EXCEPT !.stop = Best(t, atr)] \in Positions
  BY <1>4, <1>9 DEF Positions
<1> QED BY <1>1, <1>3, <1>5, <1>6, <1>7, <1>8, <1>9, <1>10 DEF Earned

\* A close beyond the chandelier is not the peak: the risk was seen before.
LEMMA CrossedFits ==
    ASSUME Inv, NEW close \in Int, NEW atr \in Atrs \cup {NoAtr}, TrailCrossed(close, atr)
    PROVE  hist.best >= R
<1> DEFINE t == Advanced(close, atr)
<1>1. t \in Trails /\ t.peak = Highest(trail.peak, close) /\ (t.stage >= 2 => t.peak >= R)
  BY AdvancedFits
<1>2. trail.peak \in Int /\ hist.best \in Int /\ trail.peak <= hist.best /\ R \in Int
  BY SentinelConstants DEF Inv, TypeOK, Earned
<1>3. t.stage >= 2 /\ atr # NoAtr /\ close <= Level(t, atr)
  BY DEF TrailCrossed, Chandelier
<1> HIDE DEF t
<1>4. Level(t, atr) < t.peak
  <2>1. Wide[atr] \in Nat \ {0} /\ Tight[atr] \in Nat \ {0}
    BY <1>3, SentinelConstants
  <2>2. t.peak \in Int
    BY <1>1 DEF Trails
  <2> QED BY <2>1, <2>2 DEF Level
<1>5. Level(t, atr) \in Int
  BY <1>1, <1>3, SentinelConstants DEF Level, Trails
<1>6. t.peak = trail.peak
  BY <1>1, <1>2, <1>3, <1>4, <1>5 DEF Highest
<1> QED BY <1>1, <1>2, <1>3, <1>6

-----------------------------------------------------------------------------
(* The invariant                                                           *)

LEMMA Constants ==
    /\ R \in Int /\ R > 0 /\ Lot \in Int /\ Half \in Int /\ Lot # 0 /\ Half # 0 /\ Lot # Half
    /\ MinHold \in Nat /\ Confirm \in Nat /\ Confirm >= 2 /\ MaxCrashes \in Nat
BY SentinelConstants

LEMMA StartFits ==
    /\ NoPos \in Positions /\ \A named \in BOOLEAN : Opened(named) \in Positions
    /\ FreshTrail \in Trails /\ EntryTrail \in Trails
    /\ \A best \in Int : best >= 0 => Earned(FreshTrail, best) /\ Earned(EntryTrail, best)
    /\ NoExit \in [why : {"none", "hard", "stop", "deep", "flash", "trail"},
                   gap : Int, size : {0, Half, Lot}]
<1>1. -R \in Int /\ 0 \in 0..MinBars
  BY SentinelConstants
<1>2. NoPos \in Positions /\ \A named \in BOOLEAN : Opened(named) \in Positions
  BY <1>1 DEF NoPos, Opened, Positions
<1>3. FreshTrail \in Trails
  BY <1>1 DEF FreshTrail, Trails
<1>4. EntryTrail = [stage |-> 1, peak |-> 0, seen |-> 0, target |-> 0, last |-> -R]
  BY DEF EntryTrail, FreshTrail
<1>5. EntryTrail \in Trails
  BY <1>1, <1>4 DEF Trails
<1> QED BY <1>2, <1>3, <1>4, <1>5 DEF Earned, FreshTrail, NoExit

LEMMA TypeParts ==
    TypeOK => /\ pos \in Positions /\ disk \in Positions /\ trail \in Trails
              /\ samples \in Histories /\ hist.best \in Int /\ hist.before \in BOOLEAN
              /\ pos.shares \in Int /\ pos.known \in Int /\ pos.stop \in Int
              /\ age \in 0..MinHold /\ pending \in 0..Confirm
BY Constants DEF TypeOK, Trails, Histories, Positions

LEMMA InitInv == Init => Inv
<1> SUFFICES ASSUME Init PROVE Inv
  OBVIOUS
<1>1. TypeOK
  <2>1. pos \in Positions /\ disk \in Positions /\ trail \in Trails /\ samples \in Histories
    BY StartFits, NoHistoryFits DEF Init
  <2>2. hist \in [best : Int, before : BOOLEAN, crashes : 0..MaxCrashes]
    BY Constants DEF Init
  <2>3. age \in 0..MinHold /\ pending \in 0..Confirm
    <3>1. age = 0 /\ pending = 0
      BY DEF Init
    <3> QED BY <3>1, Constants
  <2>5. up \in BOOLEAN /\ owned \in BOOLEAN
    BY DEF Init
  <2>4. out = NoExit
    BY DEF Init
  <2> QED BY <2>1, <2>2, <2>3, <2>4, <2>5, StartFits DEF TypeOK, Trails, Histories
<1>2. AllSame(samples, pos.known)
  BY NoHistoryFits DEF Init, NoPos
<1>3. hist.best = 0 /\ pending = 0 /\ out.why = "none" /\ up
  BY DEF Init, NoExit
<1>4. Earned(trail, hist.best)
  BY <1>3, StartFits DEF Init
<1> QED BY <1>1, <1>2, <1>3, <1>4 DEF Inv

\* Nothing of a closed position is left.
LEMMA GoneFits ==
    ASSUME Inv, Gone
    PROVE  /\ pos' \in Positions /\ disk' \in Positions /\ age' \in 0..MinHold /\ owned' \in BOOLEAN
           /\ trail' \in Trails /\ samples' \in Histories /\ pending' = 0
           /\ pos'.shares = 0 /\ disk'.shares = 0
           /\ AllSame(samples', pos'.known)
           /\ \A best \in Int : best >= 0 => Earned(trail', best)
<1>1. pos' = NoPos /\ disk' = NoPos /\ age' = 0 /\ owned' = FALSE
  BY DEF Gone
<1>2. trail' = FreshTrail /\ samples' = NoHistory /\ pending' = 0
  BY DEF Gone
<1>3. NoPos.shares = 0 /\ NoPos.known \in Int
  BY DEF NoPos
<1>4. AllSame(samples', pos'.known)
  BY <1>1, <1>2, <1>3, NoHistoryFits
<1>5. age' \in 0..MinHold
  BY <1>1, Constants
<1>6. pos' \in Positions /\ disk' \in Positions
  BY <1>1, StartFits
<1>7. trail' \in Trails /\ \A best \in Int : best >= 0 => Earned(trail', best)
  BY <1>2, StartFits
<1> QED BY <1>1, <1>2, <1>3, <1>4, <1>5, <1>6, <1>7, NoHistoryFits

LEMMA LaterFits == ASSUME NEW a \in 0..MinHold PROVE Later(a) \in 0..MinHold
BY Constants DEF Later

\* The counter of the hysteresis moves with the note of the last look.
LEMMA CountedFits ==
    ASSUME Inv, NEW mark \in Int, NEW close \in Int
    PROVE  /\ Counted(mark, close) \in 0..Confirm
           /\ Counted(mark, close) > 0 =>
                pos.named /\ IF DeepBreach(mark) THEN hist.before ELSE Beyond(mark, close)
<1>1. pending \in 0..Confirm /\ (pending > 0 => hist.before /\ pos.named)
  BY DEF Inv, TypeOK
<1> QED BY <1>1, Constants DEF Counted

LEMMA StayInv ==
    ASSUME Inv, Looking, NEW mark \in Int, NEW close \in Int, NEW atr \in Atrs \cup {NoAtr},
           Stay(mark, close, atr)
    PROVE  Inv'
<1> DEFINE kept == IF DeepBreach(mark) THEN hist.before ELSE Beyond(mark, close)
           moved == IF Verdict(mark, close, atr) = "none" THEN Tightened(close, atr) ELSE pos
<1>0. pos.shares \in {0, Half, Lot} /\ pos.shares # 0
  BY DEF Inv, TypeOK, Positions, Looking
<1>1. /\ pos \in Positions /\ hist.best \in Int /\ hist.best >= 0 /\ pos.stop \in Int
      /\ hist.before \in BOOLEAN /\ hist.crashes \in 0..MaxCrashes /\ age \in 0..MinHold
  BY DEF Inv, TypeOK, Positions
<1>2. samples' \in Histories /\ AllSame(samples', pos.shares)
  BY <1>0, SampledFits DEF Stay
<1>3. trail' \in Trails /\ Earned(trail', Highest(hist.best, close))
  BY TrailedFits DEF Stay
<1>4. moved \in Positions /\ moved.shares = pos.shares /\ moved.named = pos.named
  <2>1. Tightened(close, atr) \in Positions
    BY <1>1, TrailedFits
  <2>2. Tightened(close, atr).shares = pos.shares /\ Tightened(close, atr).named = pos.named
    BY <1>1 DEF Tightened, Positions
  <2> QED BY <1>1, <2>1, <2>2
<1>5. pos' = [moved EXCEPT !.known = pos.shares]
  BY DEF Stay
<1> HIDE DEF moved
<1>6. /\ pos' \in Positions /\ pos'.known = pos.shares /\ pos'.shares = pos.shares
      /\ pos'.named = pos.named
  BY <1>0, <1>4, <1>5 DEF Positions
<1>7. /\ hist' \in [best : Int, before : BOOLEAN, crashes : 0..MaxCrashes]
      /\ hist'.best = Highest(hist.best, close) /\ hist'.before = kept
  <2>1. hist' = [hist EXCEPT !.best = Highest(hist.best, close), !.before = kept]
    BY DEF Stay
  <2>2. Highest(hist.best, close) \in Int
    BY <1>1, HighestFits
  <2>3. kept \in BOOLEAN
    BY <1>1 DEF Beyond
  <2> HIDE DEF kept
  <2> DEFINE h == [hist EXCEPT !.best = Highest(hist.best, close)]
  <2>4. hist \in [best : Int, before : BOOLEAN, crashes : 0..MaxCrashes]
    BY DEF Inv, TypeOK
  <2>5. h \in [best : Int, before : BOOLEAN, crashes : 0..MaxCrashes] /\ h.best = Highest(hist.best, close)
    BY <2>2, <2>4
  <2>6. hist' = [h EXCEPT !.before = kept]
    BY <2>1
  <2> HIDE DEF h
  <2> QED BY <2>3, <2>5, <2>6
<1>8. pending' \in 0..Confirm /\ (pending' > 0 => hist'.before /\ pos'.named)
  BY <1>6, <1>7, CountedFits DEF Stay
<1>9. age' \in 0..MinHold
  BY <1>1, LaterFits DEF Stay
<1>10. hist'.best >= 0 /\ Earned(trail', hist'.best)
  <2>1. hist.best \in Int /\ hist.best >= 0
    BY <1>1
  <2>2. Highest(hist.best, close) >= 0
    BY <2>1 DEF Highest
  <2> QED BY <1>3, <1>7, <2>2
<1>11. AllSame(samples', pos'.known)
  BY <1>2, <1>6
<1>12. up' = up /\ disk' = disk /\ owned' = owned /\ out' = out
  BY DEF Stay
<1>13. TypeOK'
  BY <1>2, <1>3, <1>6, <1>7, <1>8, <1>9, <1>12 DEF Inv, TypeOK, Trails, Histories
<1> QED BY <1>6, <1>8, <1>10, <1>11, <1>12, <1>13 DEF Inv, Looking

\* The reason of an exit, and the size of the sample it compared with.
LEMMA VerdictFits ==
    ASSUME NEW mark, NEW close, NEW atr
    PROVE  Verdict(mark, close, atr) \in {"none", "blocked", "hard", "stop", "deep", "flash", "trail"}
BY DEF Verdict, Winner

LEMMA ExitInv ==
    ASSUME Inv, Looking, NEW mark \in Int, NEW close \in Int, NEW atr \in Atrs \cup {NoAtr},
           Exit(mark, close, atr)
    PROVE  Inv'
<1>1. Gone /\ up' = up /\ hist' = hist
  BY DEF Exit
<1>2. /\ hist \in [best : Int, before : BOOLEAN, crashes : 0..MaxCrashes] /\ hist.best >= 0
      /\ pos.stop \in Int /\ pos.shares # 0 /\ up \in BOOLEAN
  BY DEF Inv, TypeOK, Positions, Looking
<1>3. Sampled(mark).base.shares \in {0, Half, Lot}
  BY <1>2, SampledFits DEF Histories, Samples
<1>4. out' = [why |-> Verdict(mark, close, atr), gap |-> pos.stop - mark,
              size |-> Sampled(mark).base.shares]
  BY DEF Exit
<1>5. Verdict(mark, close, atr) \in {"hard", "stop", "deep", "flash", "trail"}
  BY VerdictFits DEF Exit
<1>6. out' \in [why : {"none", "hard", "stop", "deep", "flash", "trail"}, gap : Int, size : {0, Half, Lot}]
  BY <1>2, <1>3, <1>4, <1>5
<1>7. pending' = 0 /\ hist.best \in Int
  BY <1>1, <1>2, GoneFits
<1>8. TypeOK'
  BY <1>1, <1>2, <1>6, <1>7, GoneFits, Constants DEF TypeOK, Trails, Histories
<1>9. pos'.shares = 0 /\ disk'.shares = 0 /\ AllSame(samples', pos'.known)
  BY <1>1, GoneFits
<1>10. Earned(trail', hist'.best) /\ hist'.best >= 0
  BY <1>1, <1>2, <1>7, GoneFits
<1> QED BY <1>1, <1>7, <1>8, <1>9, <1>10 DEF Inv, Looking

LEMMA OpenInv == ASSUME Inv, Open PROVE Inv'
<1>1. PICK named \in BOOLEAN : pos' = Opened(named) /\ disk' = Opened(named)
  BY DEF Open
<1>2. /\ age' = 0 /\ owned' = TRUE /\ trail' = EntryTrail /\ samples' = NoHistory
      /\ pending' = 0 /\ out' = NoExit /\ up' = up
  BY DEF Open
<1>3. /\ hist' \in [best : Int, before : BOOLEAN, crashes : 0..MaxCrashes] /\ hist'.best = 0
  <2> DEFINE h == [hist EXCEPT !.best = 0]
  <2>1. hist \in [best : Int, before : BOOLEAN, crashes : 0..MaxCrashes]
    BY DEF Inv, TypeOK
  <2>2. h \in [best : Int, before : BOOLEAN, crashes : 0..MaxCrashes] /\ h.best = 0
    BY <2>1
  <2>3. hist' = [h EXCEPT !.before = FALSE]
    BY DEF Open
  <2> HIDE DEF h
  <2> QED BY <2>2, <2>3
<1>4. pos' \in Positions /\ disk' \in Positions /\ pos'.known = 0
  BY <1>1, StartFits DEF Opened
<1>5. AllSame(samples', pos'.known)
  BY <1>2, <1>4, NoHistoryFits
<1>6. trail' \in Trails /\ Earned(trail', hist'.best)
  BY <1>2, <1>3, StartFits
<1>7. age' \in 0..MinHold /\ pending' \in 0..Confirm
  BY <1>2, Constants
<1>8. up' \in BOOLEAN /\ owned' \in BOOLEAN
  BY <1>2 DEF Inv, TypeOK
<1>9. TypeOK'
  BY <1>2, <1>3, <1>4, <1>6, <1>7, <1>8, StartFits, NoHistoryFits DEF TypeOK, Trails, Histories
<1>10. out'.why = "none" /\ ~(pending' > 0) /\ hist'.best >= 0
  BY <1>2, <1>3 DEF NoExit
<1>11. up'
  BY <1>2 DEF Open
<1> QED BY <1>5, <1>6, <1>9, <1>10, <1>11 DEF Inv

LEMMA PassInv == ASSUME Inv, Pass PROVE Inv'
<1>1. /\ pos \in Positions /\ samples \in Histories /\ pos.known \in Int /\ age \in 0..MinHold
      /\ pos.shares # 0
  <2>1. pos.shares # 0
    BY DEF Pass, Looking, Inv, TypeOK, Positions
  <2> QED BY <2>1, TypeParts DEF Inv
<1>2. /\ pos' \in Positions /\ pos'.known = pos.known /\ pos'.named = pos.named
  BY <1>1 DEF Pass, Positions
<1>3. samples' \in Histories /\ AllSame(samples', pos'.known)
  BY <1>1, <1>2, AgedFits DEF Pass, Inv
<1>4. age' \in 0..MinHold
  BY <1>1, LaterFits DEF Pass
<1>5. /\ up' = up /\ disk' = disk /\ owned' = owned /\ trail' = trail /\ pending' = pending
      /\ out' = out /\ hist' = hist
  BY DEF Pass
<1>6. TypeOK'
  BY <1>2, <1>3, <1>4, <1>5 DEF Inv, TypeOK, Histories
<1>7. out'.why = "none"
  BY <1>1, <1>5 DEF Inv
<1>8. up'
  BY <1>5 DEF Pass, Looking
<1> QED BY <1>2, <1>3, <1>5, <1>6, <1>7, <1>8 DEF Inv, Earned

LEMMA LeaveInv == ASSUME Inv, Leave PROVE Inv'
<1>1. Gone /\ up' = up /\ hist' = hist /\ out' = NoExit
  BY DEF Leave
<1>2. /\ hist \in [best : Int, before : BOOLEAN, crashes : 0..MaxCrashes] /\ hist.best >= 0
      /\ hist.best \in Int /\ up \in BOOLEAN
  BY DEF Inv, TypeOK
<1>3. pending' = 0 /\ pos'.shares = 0 /\ disk'.shares = 0 /\ AllSame(samples', pos'.known)
  BY <1>1, GoneFits
<1>4. TypeOK'
  BY <1>1, <1>2, <1>3, GoneFits, StartFits, Constants DEF TypeOK, Trails, Histories
<1>5. Earned(trail', hist'.best) /\ hist'.best >= 0
  BY <1>1, <1>2, GoneFits
<1>6. up'
  BY <1>1 DEF Leave, Looking
<1> QED BY <1>3, <1>4, <1>5, <1>6 DEF Inv

LEMMA SaveInv == ASSUME Inv, Save PROVE Inv'
<1>1. /\ disk' = pos /\ up' = up /\ pos' = pos /\ age' = age /\ owned' = owned /\ trail' = trail
      /\ samples' = samples /\ pending' = pending /\ out' = out /\ hist' = hist
  BY DEF Save
<1>2. pos.shares # 0 \/ disk'.shares # 0 => out.why = "none"
  BY <1>1 DEF Inv
<1> QED BY <1>1, <1>2 DEF Inv, TypeOK, AllSame, Earned

LEMMA CrashInv == ASSUME Inv, Crash PROVE Inv'
<1>1. /\ up' = FALSE /\ pos' = NoPos /\ owned' = FALSE /\ trail' = FreshTrail
      /\ samples' = NoHistory /\ pending' = 0 /\ disk' = disk /\ age' = age /\ out' = out
  BY DEF Crash
<1>2. /\ hist' \in [best : Int, before : BOOLEAN, crashes : 0..MaxCrashes] /\ hist'.best = hist.best
  <2> DEFINE h == [hist EXCEPT !.crashes = @ + 1]
  <2>1. hist \in [best : Int, before : BOOLEAN, crashes : 0..MaxCrashes] /\ hist.crashes < MaxCrashes
    BY DEF Inv, TypeOK, Crash
  <2>2. hist.crashes + 1 \in 0..MaxCrashes
    BY <2>1, Constants
  <2>3. h \in [best : Int, before : BOOLEAN, crashes : 0..MaxCrashes] /\ h.best = hist.best
    BY <2>1, <2>2
  <2>4. hist' = [h EXCEPT !.before = FALSE]
    BY DEF Crash
  <2> HIDE DEF h
  <2> QED BY <2>3, <2>4
<1>3. AllSame(samples', pos'.known) /\ pos'.shares = 0
  BY <1>1, NoHistoryFits DEF NoPos
<1>4. Earned(trail', hist'.best) /\ hist'.best >= 0
  BY <1>1, <1>2, StartFits DEF Inv, TypeOK
<1>5. pending' \in 0..Confirm
  BY <1>1, Constants
<1>6. TypeOK'
  BY <1>1, <1>2, <1>5, StartFits, NoHistoryFits DEF Inv, TypeOK, Trails, Histories
<1> QED BY <1>1, <1>3, <1>4, <1>6 DEF Inv

LEMMA BootInv == ASSUME Inv, Boot PROVE Inv'
<1>1. /\ up' = TRUE /\ pos' = disk /\ disk' = disk /\ owned' = owned /\ trail' = trail
      /\ samples' = samples /\ pending' = pending /\ out' = out /\ hist' = hist
  BY DEF Boot
<1>2. age' \in 0..MinHold
  <2>1. age' = 0 \/ age' \in age..MinHold
    BY DEF Boot
  <2>2. age \in 0..MinHold
    BY DEF Inv, TypeOK
  <2> QED BY <2>1, <2>2, Constants
<1>3. samples = NoHistory /\ pending = 0 /\ disk \in Positions
  BY DEF Boot, Inv, TypeOK
<1>4. AllSame(samples', pos'.known)
  BY <1>1, <1>3, NoHistoryFits, Constants DEF Positions
<1>5. TypeOK'
  BY <1>1, <1>2, <1>3 DEF Inv, TypeOK
<1> QED BY <1>1, <1>3, <1>4, <1>5 DEF Inv, Earned

LEMMA NextInv == Inv /\ [Next]_vars => Inv'
<1> SUFFICES ASSUME Inv, [Next]_vars PROVE Inv'
  OBVIOUS
<1>1. CASE Look
  <2>1. PICK mark \in Gains, close \in Gains, atr \in Atrs \cup {NoAtr} :
          Exit(mark, close, atr) \/ Stay(mark, close, atr)
    BY <1>1 DEF Look
  <2>2. mark \in Int /\ close \in Int
    BY SentinelConstants
  <2> QED BY <1>1, <2>1, <2>2, ExitInv, StayInv DEF Look
<1>2. CASE UNCHANGED vars
  BY <1>2 DEF vars, Inv, TypeOK, AllSame, Earned
<1> QED BY <1>1, <1>2, OpenInv, PassInv, LeaveInv, SaveInv, CrashInv, BootInv DEF Next

LEMMA AlwaysInv == Spec => []Inv
BY InitInv, NextInv, PTL DEF Spec

\* The position, its samples, the trail and the notes keep their types.
THEOREM TypeCorrect == Spec => []TypeOK
<1>1. Inv => TypeOK
  BY DEF Inv
<1> QED BY <1>1, AlwaysInv, PTL

-----------------------------------------------------------------------------
(* What an exit has behind it                                              *)

\* Only a look closes a position with a reason of the sentinel.
LEMMA OnlyLooksClose ==
    ASSUME Inv, [Next]_vars, NEW why \in {"stop", "deep", "flash", "trail"}, Closes(why)
    PROVE  /\ Looking
           /\ \E mark, close \in Gains, atr \in Atrs \cup {NoAtr} :
                Exit(mark, close, atr) /\ Verdict(mark, close, atr) = why
<1>1. pos.shares # 0 /\ pos.shares > 0 /\ pos'.shares = 0 /\ out'.why = why /\ why # "none"
  BY Constants DEF Closes, Inv, TypeOK, Positions
<1>2. out.why = "none"
  BY <1>1 DEF Inv
<1>3. CASE Look
  <2>1. PICK mark \in Gains, close \in Gains, atr \in Atrs \cup {NoAtr} :
          Exit(mark, close, atr) \/ Stay(mark, close, atr)
    BY <1>3 DEF Look
  <2>2. ~Stay(mark, close, atr)
    BY <1>1, <1>2 DEF Stay
  <2>3. Verdict(mark, close, atr) = why
    BY <1>1, <2>1, <2>2 DEF Exit
  <2> QED BY <1>3, <2>1, <2>2, <2>3 DEF Look
<1>4. ~Open
  BY <1>1 DEF Open
<1>5. ~Pass /\ ~Save /\ ~Crash /\ ~Boot
  BY <1>1, <1>2 DEF Pass, Save, Crash, Boot
<1>6. ~Leave
  BY <1>1 DEF Leave, NoExit
<1>7. ~UNCHANGED vars
  BY <1>1 DEF vars
<1> QED BY <1>3, <1>4, <1>5, <1>6, <1>7 DEF Next

\* A stop out of the sentinel is confirmed by an earlier look or far beyond.
THEOREM StopsAreConfirmed == Spec => StopConfirmed
<1>1. ASSUME Inv, [Next]_vars, Closes("stop") \/ Closes("deep")
      PROVE  ~pos.named \/ hist.before \/ out'.gap >= DeepGap
  <2>1. PICK mark \in Gains, close \in Gains, atr \in Atrs \cup {NoAtr} :
          Exit(mark, close, atr) /\ Verdict(mark, close, atr) \in {"stop", "deep"}
    BY <1>1, OnlyLooksClose
  <2>2. Winner(mark, close, atr) = "stop"
    <3>1. Winner(mark, close, atr) # "deep"
      BY DEF Winner
    <3> QED BY <2>1, <3>1 DEF Verdict
  <2>3. StopCrossed(mark, close)
    BY <2>2 DEF Winner
  <2>4. out'.gap = pos.stop - mark
    BY <2>1 DEF Exit
  <2>5. pending \in 0..Confirm /\ (pending > 0 => hist.before)
    BY <1>1 DEF Inv, TypeOK
  <2> QED BY <2>3, <2>4, <2>5, Constants DEF StopCrossed, DeepBreach
<1>2. Inv /\ [Next]_vars =>
        [Closes("stop") \/ Closes("deep") => ~pos.named \/ hist.before \/ out'.gap >= DeepGap]_vars
  BY <1>1
<1> QED BY <1>2, AlwaysInv, PTL DEF Spec, StopConfirmed

\* The trail takes out only what had a close one risk in profit before.
THEOREM TrailsAreEarned == Spec => TrailEarned
<1>1. ASSUME Inv, [Next]_vars, Closes("trail") PROVE hist.best >= R
  <2>1. PICK mark \in Gains, close \in Gains, atr \in Atrs \cup {NoAtr} :
          Exit(mark, close, atr) /\ Verdict(mark, close, atr) = "trail"
    BY <1>1, OnlyLooksClose
  <2>2. TrailCrossed(close, atr)
    BY <2>1 DEF Verdict, Winner
  <2>3. close \in Int
    BY SentinelConstants
  <2> QED BY <1>1, <2>2, <2>3, CrossedFits
<1>2. Inv /\ [Next]_vars => [Closes("trail") => hist.best >= R]_vars
  BY <1>1
<1> QED BY <1>2, AlwaysInv, PTL DEF Spec, TrailEarned

\* The velocity that closes a position was measured on its own share count.
THEOREM FlashesCompareLike == Spec => FlashSameSize
<1>1. ASSUME Inv, [Next]_vars, Closes("flash") PROVE out'.size = pos.shares
  <2>1. Looking
    BY <1>1, OnlyLooksClose
  <2>2. PICK mark \in Gains, close \in Gains, atr \in Atrs \cup {NoAtr} :
          Exit(mark, close, atr) /\ Verdict(mark, close, atr) = "flash"
    BY <1>1, OnlyLooksClose
  <2>3. Flashed(mark) /\ mark \in Int
    BY <2>2, SentinelConstants DEF Verdict, Winner
  <2>4. pos.shares # 0
    BY <2>1 DEF Looking
  <2>5. AllSame(Sampled(mark), pos.shares)
    BY <1>1, <2>3, <2>4, SampledFits
  <2>6. Sampled(mark).base.shares = pos.shares
    BY <2>3, <2>5 DEF Flashed, AllSame, Same
  <2> QED BY <2>2, <2>6 DEF Exit
<1>2. Inv /\ [Next]_vars => [Closes("flash") => out'.size = pos.shares]_vars
  BY <1>1
<1> QED BY <1>2, AlwaysInv, PTL DEF Spec, FlashSameSize
=============================================================================

---------------------------- MODULE MonitorProofs ----------------------------
(***************************************************************************)
(* Proofs about Monitor, for any number of handler threads, any threshold  *)
(* and counters of any width.                                              *)
(*                                                                         *)
(* A request that overlaps no other finds the static variables as the      *)
(* request before it left them, and they are no newer than its reading.    *)
(* What is known of requests that overlap is only that every part of what  *)
(* they read was once a counter of the kernel, and so is at most what the  *)
(* kernel counts now.                                                      *)
(***************************************************************************)
EXTENDS Monitor, TLAPS

\* No part of r is greater than that of s.
AtMost(r, s) == r["busy"] <= s["busy"] /\ r["idle"] <= s["idle"]

\* Past the first call there is a previous reading.
KnowsPrev(x, has) ==
  /\ x.pc \in {"load", "store", "decide", "alert", "answer"} => has = TRUE
  /\ x.pc = "first" /\ "hasPrev" \notin x.todo => has = TRUE

\* The load that x reports is the one since the reading it found.
ReportsSince(x) ==
  x.dt = Total(x.cur) - Total(x.since) /\ x.used = x.cur["busy"] - x.since["busy"]

\* x, which has been alone so far, found the reading since, and knew that it did.
FoundSince(x, prv, has) ==
  /\ x.pc # "first"
  /\ x.pc \in {"check", "load"} => has = TRUE /\ prv = x.since
  /\ x.pc = "load" => \A p \in Parts \ x.todo : x.base[p] = x.since[p]
  /\ x.pc \in {"store", "decide"} => x.base = x.since
  /\ x.pc \in {"alert", "answer"} => ReportsSince(x)

\* What holds of a request that has been alone so far.
LoneOK(x, prv, has, lst) ==
  /\ AtMost(x.base, x.cur) /\ AtMost(prv, x.cur)
  /\ x.pc \in {"first", "alert", "answer"} => x.used <= x.dt
  /\ x.pc \in {"check", "first", "load", "store"} => lst = x.since
  /\ x.pc \in {"first", "store"} => \A p \in Parts \ x.todo : prv[p] = x.cur[p]
  /\ x.pc \in {"decide", "alert", "answer"} => prv = x.cur /\ lst = x.cur
  /\ x.since # NoReading => FoundSince(x, prv, has)

\* Of requests that overlap, nobody knows which was the last.
RequestOK(x, prv, has, lst) ==
  x.pc # "idle" => IF x.alone THEN LoneOK(x, prv, has, lst) ELSE lst = NoReading

\* Between two requests, the last reading is the one that was kept.
LastOK ==
  (\A c \in Threads : At(c, "idle")) /\ last # NoReading => hasPrev = TRUE /\ prev = last

\* Who raises an alert has computed an overload.
AlertOK(x) == x.pc = "alert" => Overload(x.used, x.dt)

Inv ==
  /\ TypeOK
  /\ AtMost(prev, kernel)
  /\ \A c \in Threads : AtMost(t[c].cur, kernel) /\ AtMost(t[c].base, kernel)
  /\ \A c \in Threads : KnowsPrev(t[c], hasPrev)
  /\ \A c \in Threads : RequestOK(t[c], prev, hasPrev, last)
  /\ \A c \in Threads : ~At(c, "idle") /\ t[c].alone => \A d \in Threads \ {c} : At(d, "idle")
  /\ LastOK
  /\ \A c \in Threads : AlertOK(t[c])

-----------------------------------------------------------------------------
\* A difference of unsigned counters is one again, and wraps only if it is negative.
LEMMA MinusFact ==
  ASSUME NEW x \in 0 .. Word - 1, NEW y \in 0 .. Word - 1
  PROVE  /\ Minus(x, y) \in 0 .. Word - 1
         /\ y <= x => Minus(x, y) = x - y
BY MonitorAssumption DEF Minus

LEMMA ReadingFact ==
  ASSUME NEW r \in Reading
  PROVE  /\ r["busy"] \in 0 .. MaxTicks /\ r["idle"] \in 0 .. MaxTicks
         /\ r["busy"] \in 0 .. Word - 1 /\ r["idle"] \in 0 .. Word - 1
         /\ Total(r) \in 0 .. Word - 1 /\ Total(r) = r["busy"] + r["idle"]
<1>1. r["busy"] \in 0 .. MaxTicks /\ r["idle"] \in 0 .. MaxTicks
  BY DEF Reading, Parts
<1> QED
  BY <1>1, MonitorAssumption DEF Total

\* Two readings that agree in both parts are the same.
LEMMA SameReading ==
  ASSUME NEW r \in Reading, NEW s \in Reading, \A p \in Parts : r[p] = s[p]
  PROVE  r = s
BY DEF Reading

\* Readings are the same up to one part that is replaced.
LEMMA PartFact ==
  ASSUME NEW r \in Reading, NEW p \in Parts, NEW n \in 0 .. MaxTicks
  PROVE  /\ [r EXCEPT ![p] = n] \in Reading
         /\ \A q \in Parts : [r EXCEPT ![p] = n][q] = IF q = p THEN n ELSE r[q]
BY DEF Reading

LEMMA ZeroFact == Zero \in Reading /\ Zero["busy"] = 0 /\ Zero["idle"] = 0
BY MonitorAssumption DEF Zero, Reading, Parts

LEMMA NoReadingFact == NoReading \notin Reading
BY MonitorAssumption DEF Reading, Parts

LEMMA NoRequestFact ==
  /\ NoRequest \in Request
  /\ NoRequest.pc = "idle"
  /\ NoRequest.cur = Zero /\ NoRequest.base = Zero
<1>1. 0 \in 0 .. Word - 1
  BY MonitorAssumption
<1> QED
  BY <1>1, ZeroFact DEF NoRequest, Request

\* What is computed in "decide": from two readings of which one is not older than the other,
\* the ticks between them, and so a percentage up to 100.
LEMMA DecideFact ==
  ASSUME NEW x \in Request
  PROVE  LET dt   == Dt(x)
             used == Minus(dt, Didle(x))
         IN /\ dt \in 0 .. Word - 1
            /\ used \in 0 .. Word - 1
            /\ AtMost(x.base, x.cur) => /\ used <= dt
                                        /\ dt = Total(x.cur) - Total(x.base)
                                        /\ used = x.cur["busy"] - x.base["busy"]
<1> DEFINE dt == Dt(x)
           didle == Didle(x)
           used == Minus(dt, didle)
<1>1. x.cur \in Reading /\ x.base \in Reading
  BY DEF Request
<1>2. dt \in 0 .. Word - 1 /\ (Total(x.base) <= Total(x.cur) => dt = Total(x.cur) - Total(x.base))
  BY <1>1, ReadingFact, MinusFact DEF Dt
<1>3. /\ didle \in 0 .. Word - 1
      /\ x.base["idle"] <= x.cur["idle"] => didle = x.cur["idle"] - x.base["idle"]
  BY <1>1, ReadingFact, MinusFact DEF Didle
<1> HIDE DEF dt, didle
<1>5. used \in 0 .. Word - 1 /\ (didle <= dt => used = dt - didle)
  BY <1>2, <1>3, MinusFact
<1>6. AtMost(x.base, x.cur) => /\ used <= dt
                               /\ dt = Total(x.cur) - Total(x.base)
                               /\ used = x.cur["busy"] - x.base["busy"]
  <2> HIDE DEF used
  <2> QED
    BY <1>1, <1>2, <1>3, <1>5, ReadingFact, MonitorAssumption DEF AtMost
<1> QED
  BY <1>2, <1>5, <1>6 DEF dt, used, didle

-----------------------------------------------------------------------------
LEMMA InvInit == Init => Inv
<1> SUFFICES ASSUME Init PROVE Inv
  OBVIOUS
<1> USE ZeroFact, NoRequestFact
<1>1. TypeOK
  BY DEF Init, TypeOK
<1>2. AtMost(Zero, kernel)
  BY <1>1, ReadingFact DEF TypeOK, AtMost
<1> QED
  BY <1>1, <1>2 DEF Init, Inv, KnowsPrev, RequestOK, LastOK, AlertOK, At

\* When a request goes on to x, only x has to be looked at: a request that is alone is c.
LEMMA GoesOn ==
  ASSUME Inv, NEW c \in Threads, ~At(c, "idle"), NEW x \in Request,
         t' = [t EXCEPT ![c] = x], kernel' = kernel,
         x.pc # "idle", x.cur = t[c].cur, x.alone = t[c].alone, AtMost(x.base, kernel),
         prev' \in Reading, AtMost(prev', kernel),
         hasPrev' \in BOOLEAN, hasPrev => hasPrev',
         alerted' \in BOOLEAN,
         last' \in Reading \union {NoReading}, ~t[c].alone => last' = last,
         KnowsPrev(x, hasPrev'),
         x.alone => LoneOK(x, prev', hasPrev', last'),
         AlertOK(x)
  PROVE  Inv'
<1>1. TypeOK'
  BY DEF Inv, TypeOK
<1>2. \A d \in Threads : t'[d] = IF d = c THEN x ELSE t[d]
  BY DEF Inv, TypeOK
<1>3. /\ AtMost(prev', kernel')
      /\ \A d \in Threads : AtMost(t'[d].cur, kernel') /\ AtMost(t'[d].base, kernel')
  BY <1>2 DEF Inv
<1>4. \A d \in Threads : KnowsPrev(t'[d], hasPrev')
  BY <1>2 DEF Inv, KnowsPrev, TypeOK
<1>5. ASSUME NEW d \in Threads PROVE RequestOK(t'[d], prev', hasPrev', last')
  <2>1. CASE d = c
    BY <1>2, <2>1 DEF Inv, RequestOK, At
  <2>2. CASE d # c /\ t[d].pc # "idle"
    <3>1. ~t[d].alone /\ ~t[c].alone
      BY <2>2 DEF Inv, At
    <3>2. last = NoReading
      BY <2>2, <3>1 DEF Inv, RequestOK
    <3> QED
      BY <1>2, <2>2, <3>1, <3>2 DEF RequestOK
  <2>3. CASE d # c /\ t[d].pc = "idle"
    BY <1>2, <2>3 DEF RequestOK
  <2> QED
    BY <2>1, <2>2, <2>3
<1>6. \A d \in Threads : ~At(d, "idle")' /\ t'[d].alone => \A e \in Threads \ {d} : At(e, "idle")'
  BY <1>2 DEF Inv, At
<1>7. LastOK'
  BY <1>2 DEF LastOK, At
<1>8. \A d \in Threads : AlertOK(t'[d])
  BY <1>2 DEF Inv
<1> QED
  BY <1>1, <1>3, <1>4, <1>5, <1>6, <1>7, <1>8 DEF Inv

LEMMA TickStep == ASSUME Inv, NEW p \in Parts, Tick(p) PROVE Inv'
<1>1. kernel \in Reading /\ kernel[p] < MaxTicks /\ kernel' = [kernel EXCEPT ![p] = @ + 1]
  BY DEF Inv, TypeOK, Tick
<1>2. kernel[p] + 1 \in 0 .. MaxTicks
  BY <1>1, ReadingFact, MonitorAssumption DEF Parts
<1>3. kernel' \in Reading /\ \A q \in Parts : kernel'[q] = IF q = p THEN kernel[p] + 1 ELSE kernel[q]
  <2> DEFINE n == kernel[p] + 1
  <2>1. n \in 0 .. MaxTicks /\ kernel' = [kernel EXCEPT ![p] = n]
    BY <1>1, <1>2
  <2> HIDE DEF n
  <2>2. kernel' \in Reading /\ \A q \in Parts : kernel'[q] = IF q = p THEN n ELSE kernel[q]
    BY <1>1, <2>1 DEF Reading
  <2> QED
    BY <2>2 DEF n
<1>4. ASSUME NEW r \in Reading, AtMost(r, kernel) PROVE AtMost(r, kernel')
  BY <1>1, <1>3, <1>4, ReadingFact DEF AtMost, Parts
<1>6. UNCHANGED <<prev, hasPrev, t, alerted, last>>
  BY DEF Tick
<1>7. prev \in Reading /\ \A c \in Threads : t[c].cur \in Reading /\ t[c].base \in Reading
  BY DEF Inv, TypeOK, Request
<1>8. /\ AtMost(prev, kernel)'
      /\ \A c \in Threads : AtMost(t[c].cur, kernel)' /\ AtMost(t[c].base, kernel)'
  BY <1>4, <1>6, <1>7 DEF Inv
<1>9. \A c \in Threads : AlertOK(t[c])'
  BY <1>6 DEF Inv
<1>10. TypeOK' /\ LastOK'
  BY <1>3, <1>6 DEF Inv, TypeOK, LastOK, At
<1>11. /\ \A c \in Threads : KnowsPrev(t[c], hasPrev)'
       /\ \A c \in Threads : RequestOK(t[c], prev, hasPrev, last)'
  BY <1>6 DEF Inv
<1>12. \A c \in Threads : ~At(c, "idle")' /\ t'[c].alone => \A d \in Threads \ {c} : At(d, "idle")'
  BY <1>6 DEF Inv, At
<1> QED
  BY <1>8, <1>9, <1>10, <1>11, <1>12 DEF Inv

\* A request that begins alone finds what the last one left.
LEMMA ReadStep == ASSUME Inv, NEW c \in Threads, Read(c) PROVE Inv'
<1> DEFINE alone == Others(c) = {}
           x == [t[c] EXCEPT !.pc = "check", !.cur = kernel, !.alone = alone, !.since = last]
<1>1. /\ t \in [Threads -> Request] /\ kernel \in Reading /\ prev \in Reading
      /\ last \in Reading \union {NoReading} /\ hasPrev \in BOOLEAN /\ At(c, "idle")
  BY DEF Inv, TypeOK, Read
<1>2. c \notin Others(c)
  BY DEF Others
<1>3. \A d \in Threads :
        t'[d] = IF d = c THEN x
                ELSE IF d \in Others(c) THEN [t[d] EXCEPT !.alone = FALSE] ELSE t[d]
  BY <1>1, <1>2 DEF Read, Overlapping
<1>4. /\ alone \in BOOLEAN
      /\ alone <=> \A d \in Threads \ {c} : At(d, "idle")
  BY DEF Others
<1>5. UNCHANGED <<kernel, prev, hasPrev, alerted>> /\ last' = IF alone THEN last ELSE NoReading
  BY DEF Read
<1> HIDE DEF alone
<1>6. /\ x \in Request /\ x.pc = "check" /\ x.cur = kernel /\ x.alone = alone /\ x.since = last
      /\ x.base = t[c].base
  BY <1>1, <1>4 DEF Request
<1> HIDE DEF x
<1>7. ASSUME NEW d \in Threads, d # c
      PROVE  /\ t'[d] \in Request /\ t'[d].pc = t[d].pc /\ t'[d].cur = t[d].cur
             /\ t'[d].base = t[d].base /\ t'[d].todo = t[d].todo
             /\ t'[d].dt = t[d].dt /\ t'[d].used = t[d].used
             /\ t[d].pc # "idle" => t'[d].alone = FALSE /\ alone = FALSE
  <2>1. t[d] \in Request
    BY <1>1
  <2>2. t[d].pc # "idle" => d \in Others(c)
    BY <1>7 DEF Others, At
  <2>3. d \in Others(c) => ~alone
    BY DEF alone
  <2> QED
    BY <1>3, <1>4, <1>7, <2>1, <2>2, <2>3 DEF Request
<1>8. TypeOK'
  <2>1. t' \in [Threads -> Request]
    <3>1. t' = [d \in Threads |-> t'[d]]
      BY <1>1 DEF Read, Overlapping
    <3> QED
      BY <1>3, <1>6, <1>7, <3>1
  <2> QED
    BY <1>1, <1>5, <2>1 DEF Inv, TypeOK
<1>9. AtMost(kernel, kernel)
  BY <1>1, ReadingFact DEF AtMost
<1>10. /\ AtMost(prev, kernel)'
       /\ \A d \in Threads : AtMost(t[d].cur, kernel)' /\ AtMost(t[d].base, kernel)'
  BY <1>3, <1>5, <1>6, <1>7, <1>9 DEF Inv
<1>11. \A d \in Threads : KnowsPrev(t[d], hasPrev)'
  BY <1>3, <1>5, <1>6, <1>7 DEF Inv, KnowsPrev
<1>12. x.alone => LoneOK(x, prev, hasPrev, last)
  <2> SUFFICES ASSUME alone PROVE LoneOK(x, prev, hasPrev, last)
    BY <1>6
  <2>1. last # NoReading => hasPrev = TRUE /\ prev = last
    BY <1>1, <1>4 DEF Inv, LastOK
  <2>2. AtMost(x.base, kernel)
    BY <1>6 DEF Inv
  <2> QED
    BY <1>6, <2>1, <2>2 DEF LoneOK, FoundSince, Inv
<1>13. \A d \in Threads : RequestOK(t[d], prev, hasPrev, last)'
  BY <1>3, <1>4, <1>5, <1>6, <1>7, <1>12 DEF RequestOK
<1>14. \A d \in Threads : ~At(d, "idle")' /\ t'[d].alone => \A e \in Threads \ {d} : At(e, "idle")'
  BY <1>3, <1>4, <1>6, <1>7 DEF At
<1>15. LastOK'
  BY <1>3, <1>6 DEF LastOK, At
<1>16. \A d \in Threads : AlertOK(t'[d])
  BY <1>3, <1>6, <1>7 DEF Inv, AlertOK
<1> QED
  BY <1>8, <1>10, <1>11, <1>13, <1>14, <1>15, <1>16 DEF Inv

LEMMA CheckStep == ASSUME Inv, NEW c \in Threads, Check(c) PROVE Inv'
<1>1. t[c] \in Request /\ t[c].pc = "check" /\ t \in [Threads -> Request]
  BY DEF Inv, TypeOK, Check, At
<1>2. UNCHANGED <<kernel, prev, hasPrev, alerted, last>>
  BY DEF Check
<1>3. AtMost(t[c].base, kernel)
  BY DEF Inv
<1>4. t[c].alone => LoneOK(t[c], prev, hasPrev, last)
  BY <1>1 DEF Inv, RequestOK
<1>5. CASE hasPrev /\ t' = [t EXCEPT ![c].pc = "load", ![c].todo = Parts]
  <2> DEFINE x == [t[c] EXCEPT !.pc = "load", !.todo = Parts]
  <2>1. /\ x \in Request /\ x.pc = "load" /\ x.todo = Parts /\ x.cur = t[c].cur /\ x.base = t[c].base
        /\ x.alone = t[c].alone /\ x.since = t[c].since
    BY <1>1 DEF Request
  <2>2. t' = [t EXCEPT ![c] = x]
    BY <1>1, <1>5 DEF Request
  <2> HIDE DEF x
  <2>3. x.alone => LoneOK(x, prev, hasPrev, last)
    BY <1>1, <1>4, <2>1 DEF LoneOK, FoundSince
  <2>4. KnowsPrev(x, hasPrev)
    BY <1>5, <2>1 DEF KnowsPrev, Inv, TypeOK
  <2> QED
    BY <1>1, <1>2, <1>3, <2>1, <2>2, <2>3, <2>4, GoesOn DEF Inv, TypeOK, At, AlertOK
<1>6. CASE ~hasPrev /\ t' = [t EXCEPT ![c].pc = "first", ![c].todo = Parts \union {"hasPrev"},
                                     ![c].dt = 0, ![c].used = 0]
  <2> DEFINE x == [t[c] EXCEPT !.pc = "first", !.todo = Parts \union {"hasPrev"},
                               !.dt = 0, !.used = 0]
  <2>1. /\ x \in Request /\ x.pc = "first" /\ x.todo = Parts \union {"hasPrev"}
        /\ x.cur = t[c].cur /\ x.base = t[c].base
        /\ x.alone = t[c].alone /\ x.since = t[c].since /\ x.used = 0 /\ x.dt = 0
    <3>1. 0 \in 0 .. Word - 1
      BY MonitorAssumption
    <3> QED
      BY <1>1, <3>1 DEF Request
  <2>2. t' = [t EXCEPT ![c] = x]
    BY <1>1, <1>6 DEF Request
  <2> HIDE DEF x
  <2>3. x.alone => LoneOK(x, prev, hasPrev, last)
    BY <1>1, <1>4, <1>6, <2>1 DEF LoneOK, FoundSince
  <2>4. KnowsPrev(x, hasPrev)
    BY <2>1 DEF KnowsPrev
  <2> QED
    BY <1>1, <1>2, <1>3, <2>1, <2>2, <2>3, <2>4, GoesOn DEF Inv, TypeOK, At, AlertOK
<1> QED
  BY <1>5, <1>6 DEF Check

\* What Touch makes of the request: the part is done, and with the last one the step.
LEMMA TouchFact ==
  ASSUME Inv, NEW c \in Threads, NEW p \in t[c].todo,
         NEW next \in {"store", "decide", "answer"}
  PROVE  \E x \in Request :
           /\ Touch(c, p, next) = [t EXCEPT ![c] = x]
           /\ x.todo = t[c].todo \ {p}
           /\ x.pc = IF t[c].todo = {p} THEN next ELSE t[c].pc
           /\ x.cur = t[c].cur /\ x.base = t[c].base /\ x.alone = t[c].alone
           /\ x.since = t[c].since /\ x.used = t[c].used /\ x.dt = t[c].dt
<1>1. t[c] \in Request /\ t \in [Threads -> Request]
  BY DEF Inv, TypeOK
<1>2. CASE t[c].todo = {p}
  <2> DEFINE x == [t[c] EXCEPT !.pc = next, !.todo = {}]
  <2>1. x \in Request /\ Touch(c, p, next) = [t EXCEPT ![c] = x]
    BY <1>1, <1>2 DEF Touch, Request
  <2> QED
    BY <1>1, <1>2, <2>1 DEF Request
<1>3. CASE t[c].todo # {p}
  <2> DEFINE x == [t[c] EXCEPT !.todo = t[c].todo \ {p}]
  <2>1. x \in Request /\ Touch(c, p, next) = [t EXCEPT ![c] = x]
    BY <1>1, <1>3 DEF Touch, Request
  <2> QED
    BY <1>1, <1>3, <2>1 DEF Request
<1> QED
  BY <1>2, <1>3

\* prev = cur; has_prev = true; of a first call: nothing was known of a reading before.
LEMMA FirstStep == ASSUME Inv, NEW c \in Threads, First(c) PROVE Inv'
<1>1. /\ t[c] \in Request /\ t[c].pc = "first" /\ prev \in Reading /\ hasPrev \in BOOLEAN
      /\ kernel \in Reading /\ t[c].cur \in Reading
  BY DEF Inv, TypeOK, First, At, Request
<1>2. PICK p \in t[c].todo :
        /\ IF p = "hasPrev" THEN hasPrev' = TRUE /\ UNCHANGED prev
                            ELSE prev' = [prev EXCEPT ![p] = t[c].cur[p]] /\ UNCHANGED hasPrev
        /\ t' = Touch(c, p, "answer")
        /\ last' = IF t[c].todo = {p} THEN Left(c) ELSE last
  BY DEF First
<1>3. UNCHANGED <<kernel, alerted>>
  BY DEF First
<1>4. PICK x \in Request :
        /\ t' = [t EXCEPT ![c] = x]
        /\ x.todo = t[c].todo \ {p}
        /\ x.pc = IF t[c].todo = {p} THEN "answer" ELSE "first"
        /\ x.cur = t[c].cur /\ x.base = t[c].base /\ x.alone = t[c].alone
        /\ x.since = t[c].since /\ x.used = t[c].used /\ x.dt = t[c].dt
  BY <1>1, <1>2, TouchFact
<1>5. /\ AtMost(t[c].cur, kernel) /\ AtMost(t[c].base, kernel) /\ AtMost(prev, kernel)
      /\ KnowsPrev(t[c], hasPrev)
      /\ t[c].alone => LoneOK(t[c], prev, hasPrev, last)
  BY <1>1 DEF Inv, RequestOK
<1>6. /\ prev' \in Reading
      /\ \A q \in Parts : prev'[q] = IF q = p THEN t[c].cur[q] ELSE prev[q]
  <2>1. CASE p = "hasPrev"
    BY <1>1, <1>2, <2>1 DEF Parts
  <2>2. CASE p # "hasPrev"
    <3>1. p \in Parts
      BY <1>1, <2>2 DEF Request
    <3>2. prev' = [prev EXCEPT ![p] = t[c].cur[p]]
      BY <1>2, <2>2
    <3> QED
      BY <1>1, <3>1, <3>2 DEF Reading
  <2> QED
    BY <2>1, <2>2
<1>7. AtMost(prev', kernel) /\ (AtMost(prev, x.cur) => AtMost(prev', x.cur))
  BY <1>1, <1>4, <1>5, <1>6, ReadingFact DEF AtMost, Parts
<1>8. /\ hasPrev' \in BOOLEAN /\ (hasPrev => hasPrev')
      /\ p = "hasPrev" => hasPrev' = TRUE
      /\ p # "hasPrev" => hasPrev' = hasPrev
  BY <1>1, <1>2
<1>9. KnowsPrev(x, hasPrev')
  BY <1>1, <1>4, <1>5, <1>8 DEF KnowsPrev
<1>10. /\ last' \in Reading \union {NoReading} /\ (~t[c].alone => last' = last)
       /\ t[c].alone /\ t[c].todo = {p} => last' = x.cur
       /\ t[c].todo # {p} => last' = last
  BY <1>1, <1>2, <1>4 DEF Left, Inv, TypeOK
<1>11. x.alone => LoneOK(x, prev', hasPrev', last')
  <2> SUFFICES ASSUME x.alone PROVE LoneOK(x, prev', hasPrev', last')
    OBVIOUS
  <2>1. LoneOK(t[c], prev, hasPrev, last)
    BY <1>4, <1>5
  <2>2. x.since = NoReading
    BY <1>1, <1>4, <2>1 DEF LoneOK, FoundSince
  <2>3. \A q \in Parts \ x.todo : prev'[q] = x.cur[q]
    BY <1>1, <1>4, <1>6, <2>1 DEF LoneOK
  <2>4. t[c].todo = {p} => prev' = x.cur
    <3> SUFFICES ASSUME t[c].todo = {p} PROVE prev' = x.cur
      OBVIOUS
    <3>1. \A q \in Parts : prev'[q] = x.cur[q]
      BY <1>4, <2>3
    <3>2. x.cur \in Reading
      BY DEF Request
    <3> QED
      BY <1>6, <3>1, <3>2, SameReading
  <2>5. AtMost(x.base, x.cur) /\ AtMost(prev', x.cur) /\ x.used <= x.dt
    BY <1>1, <1>4, <1>7, <2>1 DEF LoneOK
  <2>6. x.pc = "first" => last' = x.since
    BY <1>1, <1>4, <1>10, <2>1 DEF LoneOK
  <2> QED
    BY <1>4, <1>10, <2>2, <2>3, <2>4, <2>5, <2>6 DEF LoneOK
<1>12. AlertOK(x)
  BY <1>1, <1>4, <1>8 DEF AlertOK
<1>13. x.pc # "idle" /\ ~At(c, "idle") /\ alerted' \in BOOLEAN
  BY <1>1, <1>3, <1>4 DEF At, Inv, TypeOK
<1> HIDE DEF Inv
<1> QED
  BY <1>3, <1>4, <1>5, <1>6, <1>7, <1>8, <1>9, <1>10, <1>11, <1>12, <1>13, GoesOn

\* total(prev) and idle(prev)
LEMMA LoadStep == ASSUME Inv, NEW c \in Threads, Load(c) PROVE Inv'
<1>1. /\ t[c] \in Request /\ t[c].pc = "load" /\ prev \in Reading /\ t[c].base \in Reading
      /\ kernel \in Reading /\ t[c].cur \in Reading /\ t \in [Threads -> Request]
  BY DEF Inv, TypeOK, Load, At, Request
<1>2. PICK p \in t[c].todo :
        t' = [Touch(c, p, "store") EXCEPT ![c].base[p] = prev[p],
                                          ![c].todo = IF t[c].todo = {p} THEN Parts ELSE @]
  BY DEF Load
<1>3. UNCHANGED <<kernel, prev, hasPrev, alerted, last>>
  BY DEF Load
<1>4. PICK y \in Request :
        /\ Touch(c, p, "store") = [t EXCEPT ![c] = y]
        /\ y.todo = t[c].todo \ {p}
        /\ y.pc = IF t[c].todo = {p} THEN "store" ELSE t[c].pc
        /\ y.cur = t[c].cur /\ y.base = t[c].base /\ y.alone = t[c].alone
        /\ y.since = t[c].since /\ y.used = t[c].used /\ y.dt = t[c].dt
  BY TouchFact
<1>5. /\ AtMost(t[c].cur, kernel) /\ AtMost(t[c].base, kernel) /\ AtMost(prev, kernel)
      /\ KnowsPrev(t[c], hasPrev)
      /\ t[c].alone => LoneOK(t[c], prev, hasPrev, last)
  BY <1>1 DEF Inv, RequestOK
<1> DEFINE loaded == [t[c].base EXCEPT ![p] = prev[p]]
           x == [y EXCEPT !.base = loaded,
                          !.todo = IF t[c].todo = {p} THEN Parts ELSE t[c].todo \ {p}]
<1>6. \A q \in Parts : loaded[q] = IF q = p THEN prev[q] ELSE t[c].base[q]
  BY <1>1 DEF Reading
<1>7. loaded \in Reading
  BY <1>1 DEF Reading
<1> HIDE DEF loaded
<1>8. /\ x \in Request /\ x.pc = y.pc /\ x.cur = t[c].cur /\ x.alone = t[c].alone
      /\ x.base = loaded /\ x.since = t[c].since
      /\ x.todo = IF t[c].todo = {p} THEN Parts ELSE t[c].todo \ {p}
  BY <1>1, <1>4, <1>7 DEF Request
<1>9. t' = [t EXCEPT ![c] = x]
  <2> DEFINE z == [y EXCEPT !.base = [y.base EXCEPT ![p] = prev[p]],
                            !.todo = IF t[c].todo = {p} THEN Parts ELSE y.todo]
             y2 == [t EXCEPT ![c] = y]
  <2>1. y2[c] = y
    BY <1>1
  <2>2. t' = [y2 EXCEPT ![c].base[p] = prev[p],
                        ![c].todo = IF t[c].todo = {p} THEN Parts ELSE @]
    BY <1>2, <1>4
  <2>3. z = x
    BY <1>4 DEF loaded
  <2> HIDE DEF y2, x
  <2>4. t' = [y2 EXCEPT ![c] = z]
    BY <2>1, <2>2
  <2>5. [y2 EXCEPT ![c] = z] = [t EXCEPT ![c] = z]
    BY <1>1 DEF y2
  <2> QED
    BY <2>3, <2>4, <2>5
<1> HIDE DEF x
<1>10. /\ AtMost(x.base, kernel)
       /\ AtMost(t[c].base, x.cur) /\ AtMost(prev, x.cur) => AtMost(x.base, x.cur)
  BY <1>1, <1>5, <1>6, <1>8, ReadingFact DEF AtMost, Parts
<1>11. KnowsPrev(x, hasPrev)
  BY <1>1, <1>4, <1>5, <1>8 DEF KnowsPrev
<1>12. x.alone => LoneOK(x, prev, hasPrev, last)
  <2> SUFFICES ASSUME x.alone PROVE LoneOK(x, prev, hasPrev, last)
    OBVIOUS
  <2>1. LoneOK(t[c], prev, hasPrev, last)
    BY <1>5, <1>8
  <2>2. x.pc \in {"load", "store"} /\ (x.pc = "store" <=> t[c].todo = {p})
    BY <1>1, <1>4, <1>8
  <2>3. x.pc = "store" => Parts \ x.todo = {}
    BY <1>8, <2>2
  <2>4. ASSUME x.since # NoReading PROVE FoundSince(x, prev, hasPrev)
    <3>1. hasPrev = TRUE /\ prev = x.since /\ \A q \in Parts \ t[c].todo : t[c].base[q] = x.since[q]
      BY <1>1, <1>8, <2>1, <2>4 DEF LoneOK, FoundSince
    <3>2. \A q \in Parts : q \notin t[c].todo \ {p} => x.base[q] = x.since[q]
      BY <1>6, <1>8, <3>1
    <3>3. x.pc = "load" => \A q \in Parts \ x.todo : x.base[q] = x.since[q]
      BY <1>8, <2>2, <3>2
    <3>4. x.pc = "store" => x.base = x.since
      <4> SUFFICES ASSUME x.pc = "store" PROVE x.base = x.since
        OBVIOUS
      <4>1. \A q \in Parts : x.base[q] = x.since[q]
        BY <2>2, <3>2
      <4> QED
        BY <1>1, <1>7, <1>8, <3>1, <4>1, SameReading
    <3> QED
      BY <2>2, <3>1, <3>3, <3>4 DEF FoundSince
  <2> QED
    BY <1>1, <1>8, <1>10, <2>1, <2>2, <2>3, <2>4 DEF LoneOK
<1>13. AlertOK(x)
  BY <1>1, <1>4, <1>8 DEF AlertOK
<1>14. x.pc # "idle" /\ ~At(c, "idle")
  BY <1>1, <1>4, <1>8 DEF At
<1> QED
  BY <1>1, <1>3, <1>5, <1>8, <1>9, <1>10, <1>11, <1>12, <1>13, <1>14, GoesOn DEF Inv, TypeOK

\* prev = cur; of a later call.
LEMMA StoreStep == ASSUME Inv, NEW c \in Threads, Store(c) PROVE Inv'
<1>1. /\ t[c] \in Request /\ t[c].pc = "store" /\ prev \in Reading /\ kernel \in Reading
      /\ t[c].cur \in Reading
  BY DEF Inv, TypeOK, Store, At, Request
<1>2. PICK p \in t[c].todo :
        /\ prev' = [prev EXCEPT ![p] = t[c].cur[p]]
        /\ t' = Touch(c, p, "decide")
        /\ last' = IF t[c].todo = {p} THEN Left(c) ELSE last
  BY DEF Store
<1>3. UNCHANGED <<kernel, hasPrev, alerted>>
  BY DEF Store
<1>4. PICK x \in Request :
        /\ t' = [t EXCEPT ![c] = x]
        /\ x.todo = t[c].todo \ {p}
        /\ x.pc = IF t[c].todo = {p} THEN "decide" ELSE t[c].pc
        /\ x.cur = t[c].cur /\ x.base = t[c].base /\ x.alone = t[c].alone
        /\ x.since = t[c].since /\ x.used = t[c].used /\ x.dt = t[c].dt
  BY <1>2, TouchFact
<1>5. /\ AtMost(t[c].cur, kernel) /\ AtMost(t[c].base, kernel) /\ AtMost(prev, kernel)
      /\ KnowsPrev(t[c], hasPrev)
      /\ t[c].alone => LoneOK(t[c], prev, hasPrev, last)
  BY <1>1 DEF Inv, RequestOK
<1>6. /\ prev' \in Reading
      /\ \A q \in Parts : prev'[q] = IF q = p THEN t[c].cur[q] ELSE prev[q]
  BY <1>1, <1>2 DEF Reading
<1>7. AtMost(prev', kernel) /\ (AtMost(prev, x.cur) => AtMost(prev', x.cur))
  BY <1>1, <1>4, <1>5, <1>6, ReadingFact DEF AtMost, Parts
<1>8. KnowsPrev(x, hasPrev')
  BY <1>1, <1>3, <1>4, <1>5 DEF KnowsPrev
<1>9. /\ last' \in Reading \union {NoReading} /\ (~t[c].alone => last' = last)
      /\ t[c].alone /\ t[c].todo = {p} => last' = x.cur
      /\ t[c].todo # {p} => last' = last
  BY <1>1, <1>2, <1>4 DEF Left, Inv, TypeOK
<1>10. x.alone => LoneOK(x, prev', hasPrev', last')
  <2> SUFFICES ASSUME x.alone PROVE LoneOK(x, prev', hasPrev', last')
    OBVIOUS
  <2>1. LoneOK(t[c], prev, hasPrev, last)
    BY <1>4, <1>5
  <2>2. \A q \in Parts \ x.todo : prev'[q] = x.cur[q]
    BY <1>1, <1>4, <1>6, <2>1 DEF LoneOK
  <2>3. t[c].todo = {p} => prev' = x.cur
    <3> SUFFICES ASSUME t[c].todo = {p} PROVE prev' = x.cur
      OBVIOUS
    <3>1. \A q \in Parts : prev'[q] = x.cur[q]
      BY <1>4, <2>2
    <3>2. x.cur \in Reading
      BY DEF Request
    <3> QED
      BY <1>6, <3>1, <3>2, SameReading
  <2>4. AtMost(x.base, x.cur) /\ AtMost(prev', x.cur)
    BY <1>1, <1>4, <1>7, <2>1 DEF LoneOK
  <2>5. x.pc = "store" => last' = x.since
    BY <1>1, <1>4, <1>9, <2>1 DEF LoneOK
  <2>6. x.since # NoReading => FoundSince(x, prev', hasPrev')
    BY <1>1, <1>4, <2>1 DEF LoneOK, FoundSince
  <2> QED
    BY <1>1, <1>4, <1>9, <2>2, <2>3, <2>4, <2>5, <2>6 DEF LoneOK
<1>11. AlertOK(x)
  BY <1>1, <1>4, <1>8 DEF AlertOK
<1>12. /\ x.pc # "idle" /\ ~At(c, "idle") /\ alerted' \in BOOLEAN /\ hasPrev' \in BOOLEAN
       /\ hasPrev => hasPrev'
  BY <1>1, <1>3, <1>4 DEF At, Inv, TypeOK
<1> QED
  BY <1>3, <1>4, <1>5, <1>6, <1>7, <1>8, <1>9, <1>10, <1>11, <1>12, GoesOn

LEMMA DecideStep == ASSUME Inv, NEW c \in Threads, Decide(c) PROVE Inv'
<1> DEFINE dt   == Dt(t[c])
           used == Minus(dt, Didle(t[c]))
           next == IF Overload(used, dt) THEN "alert" ELSE "answer"
           x    == [t[c] EXCEPT !.pc = next, !.dt = dt, !.used = used]
<1>1. /\ t[c] \in Request /\ t[c].pc = "decide" /\ kernel \in Reading /\ t[c].cur \in Reading
      /\ t[c].base \in Reading /\ t \in [Threads -> Request]
  BY DEF Inv, TypeOK, Decide, At, Request
<1>2. UNCHANGED <<kernel, prev, hasPrev, alerted, last>>
  BY DEF Decide
<1>3. /\ dt \in 0 .. Word - 1
      /\ used \in 0 .. Word - 1
      /\ AtMost(t[c].base, t[c].cur) => /\ used <= dt
                                        /\ dt = Total(t[c].cur) - Total(t[c].base)
                                        /\ used = t[c].cur["busy"] - t[c].base["busy"]
  BY <1>1, DecideFact
<1>4. t' = [t EXCEPT ![c].pc = next, ![c].dt = dt, ![c].used = used]
  BY DEF Decide
<1>5. next = "alert" => Overload(used, dt)
  OBVIOUS
<1>6. next \in {"alert", "answer"}
  OBVIOUS
<1> HIDE DEF dt, used, next
<1>7. /\ x \in Request /\ x.pc = next /\ x.todo = t[c].todo /\ x.cur = t[c].cur
      /\ x.base = t[c].base /\ x.alone = t[c].alone /\ x.since = t[c].since
      /\ x.dt = dt /\ x.used = used
  BY <1>1, <1>3, <1>6 DEF Request
<1>8. t' = [t EXCEPT ![c] = x]
  BY <1>1, <1>4
<1> HIDE DEF x
<1>9. /\ AtMost(t[c].base, kernel) /\ AtMost(prev, kernel)
      /\ KnowsPrev(t[c], hasPrev)
      /\ t[c].alone => LoneOK(t[c], prev, hasPrev, last)
  BY <1>1 DEF Inv, RequestOK
<1>10. KnowsPrev(x, hasPrev)
  BY <1>1, <1>6, <1>7, <1>9 DEF KnowsPrev
<1>11. x.alone => LoneOK(x, prev, hasPrev, last)
  <2> SUFFICES ASSUME x.alone PROVE LoneOK(x, prev, hasPrev, last)
    OBVIOUS
  <2>1. LoneOK(t[c], prev, hasPrev, last)
    BY <1>7, <1>9
  <2>2. AtMost(x.base, x.cur) /\ AtMost(prev, x.cur) /\ prev = x.cur /\ last = x.cur
    BY <1>1, <1>7, <2>1 DEF LoneOK
  <2>3. x.used <= x.dt
    BY <1>3, <1>7, <2>2
  <2>4. x.since # NoReading => FoundSince(x, prev, hasPrev)
    <3> SUFFICES ASSUME x.since # NoReading PROVE ReportsSince(x)
      BY <1>6, <1>7 DEF FoundSince
    <3>1. x.base = x.since
      BY <1>1, <1>7, <2>1 DEF LoneOK, FoundSince
    <3> QED
      BY <1>3, <1>7, <2>2, <3>1 DEF ReportsSince
  <2> QED
    BY <1>6, <1>7, <2>2, <2>3, <2>4 DEF LoneOK
<1>12. AlertOK(x)
  BY <1>5, <1>7 DEF AlertOK
<1>13. x.pc # "idle" /\ ~At(c, "idle")
  BY <1>1, <1>6, <1>7 DEF At
<1> QED
  BY <1>1, <1>2, <1>7, <1>8, <1>9, <1>10, <1>11, <1>12, <1>13, GoesOn DEF Inv, TypeOK

LEMMA AlertStep == ASSUME Inv, NEW c \in Threads, Alert(c) PROVE Inv'
<1> DEFINE x == [t[c] EXCEPT !.pc = "answer"]
<1>1. t[c] \in Request /\ t[c].pc = "alert" /\ t \in [Threads -> Request]
  BY DEF Inv, TypeOK, Alert, At
<1>2. UNCHANGED <<kernel, prev, hasPrev, last>> /\ alerted' \in {alerted, TRUE}
  BY DEF Alert
<1>3. /\ x \in Request /\ x.pc = "answer" /\ x.todo = t[c].todo /\ x.cur = t[c].cur
      /\ x.base = t[c].base /\ x.alone = t[c].alone /\ x.since = t[c].since
      /\ x.dt = t[c].dt /\ x.used = t[c].used
  BY <1>1 DEF Request
<1>4. t' = [t EXCEPT ![c] = x]
  BY <1>1 DEF Alert
<1> HIDE DEF x
<1>5. /\ AtMost(t[c].base, kernel) /\ AtMost(prev, kernel)
      /\ KnowsPrev(t[c], hasPrev)
      /\ t[c].alone => LoneOK(t[c], prev, hasPrev, last)
  BY <1>1 DEF Inv, RequestOK
<1>6. KnowsPrev(x, hasPrev)
  BY <1>1, <1>3, <1>5 DEF KnowsPrev
<1>7. x.alone => LoneOK(x, prev, hasPrev, last)
  BY <1>1, <1>3, <1>5 DEF LoneOK, FoundSince, ReportsSince
<1>8. AlertOK(x)
  BY <1>3 DEF AlertOK
<1>9. x.pc # "idle" /\ ~At(c, "idle")
  BY <1>1, <1>3 DEF At
<1> QED
  BY <1>1, <1>2, <1>3, <1>4, <1>5, <1>6, <1>7, <1>8, <1>9, GoesOn DEF Inv, TypeOK

\* The last reading of a request that was alone stays the last one.
LEMMA AnswerStep == ASSUME Inv, NEW c \in Threads, Answer(c) PROVE Inv'
<1>1. t[c] \in Request /\ t[c].pc = "answer" /\ t \in [Threads -> Request] /\ kernel \in Reading
  BY DEF Inv, TypeOK, Answer, At
<1>2. UNCHANGED <<kernel, prev, hasPrev, alerted, last>> /\ t' = [t EXCEPT ![c] = NoRequest]
  BY DEF Answer
<1>3. \A d \in Threads : t'[d] = IF d = c THEN NoRequest ELSE t[d]
  BY <1>1, <1>2
<1>4. TypeOK'
  BY <1>2, NoRequestFact DEF Inv, TypeOK
<1>5. AtMost(Zero, kernel)
  BY <1>1, ZeroFact, ReadingFact DEF AtMost
<1>6. /\ AtMost(prev, kernel)'
      /\ \A d \in Threads : AtMost(t[d].cur, kernel)' /\ AtMost(t[d].base, kernel)'
  BY <1>2, <1>3, <1>5, NoRequestFact DEF Inv
<1>7. /\ \A d \in Threads : KnowsPrev(t[d], hasPrev)'
      /\ \A d \in Threads : RequestOK(t[d], prev, hasPrev, last)'
  BY <1>2, <1>3, NoRequestFact DEF Inv, KnowsPrev, RequestOK
<1>8. \A d \in Threads : ~At(d, "idle")' /\ t'[d].alone => \A e \in Threads \ {d} : At(e, "idle")'
  BY <1>3, NoRequestFact DEF Inv, At
<1>9. LastOK'
  <2>1. t[c].alone => prev = t[c].cur /\ last = t[c].cur
    BY <1>1 DEF Inv, RequestOK, LoneOK
  <2>2. ~t[c].alone => last = NoReading
    BY <1>1 DEF Inv, RequestOK
  <2>3. hasPrev = TRUE
    BY <1>1 DEF Inv, KnowsPrev
  <2> QED
    BY <1>2, <2>1, <2>2, <2>3 DEF LastOK
<1>10. \A d \in Threads : AlertOK(t'[d])
  BY <1>3, NoRequestFact DEF Inv, AlertOK
<1> QED
  BY <1>4, <1>6, <1>7, <1>8, <1>9, <1>10 DEF Inv

LEMMA Inductive == Inv /\ [Next]_vars => Inv'
<1> SUFFICES ASSUME Inv, [Next]_vars PROVE Inv'
  OBVIOUS
<1>1. CASE UNCHANGED vars
  BY <1>1 DEF vars, Inv, TypeOK, LastOK, AlertOK, At
<1>2. CASE Next
  BY <1>2, TickStep, ReadStep, CheckStep, FirstStep, LoadStep, StoreStep, DecideStep, AlertStep,
     AnswerStep DEF Next, Handle
<1> QED
  BY <1>1, <1>2

THEOREM Invariance == Spec => []Inv
<1>1. Init => Inv
  BY InvInit
<1>2. Inv /\ [Next]_vars => Inv'
  BY Inductive
<1> QED
  BY <1>1, <1>2, PTL DEF Spec

-----------------------------------------------------------------------------
\* The types: no difference or percentage leaves the range of its type, for counters of any width.
THEOREM TypeCorrect == Spec => []TypeOK
<1>1. Inv => TypeOK
  BY DEF Inv
<1> QED
  BY <1>1, Invariance, PTL

\* A request that overlaps no other computes a percentage from 0 to 100, whatever the requests
\* before it left.
THEOREM LoneLoadIsPercentage == Spec => []LoneLoadInRange
<1>1. Inv => LoneLoadInRange
  BY DEF Inv, RequestOK, LoneOK, LoneLoadInRange, Computed
<1> QED
  BY <1>1, Invariance, PTL

\* Of requests that come one after another, each reports exactly the load since the one before.
THEOREM SerialLoadIsTrue == Spec => []SerialLoadTrue
<1>1. Inv => SerialLoadTrue
  BY DEF Inv, RequestOK, LoneOK, FoundSince, ReportsSince, SerialLoadTrue, Computed
<1> QED
  BY <1>1, Invariance, PTL

\* What a thread other than c does leaves the request of c where it is.
LEMMA OthersWait ==
  ASSUME Inv, NEW c \in Threads, NEW d \in Threads, d # c, Handle(d)
  PROVE  t'[c].pc = t[c].pc
<1>1. t \in [Threads -> Request]
  BY DEF Inv, TypeOK
<1>2. CASE Read(d)
  <2> DEFINE rest == Overlapping(d)
  <2>1. rest[c].pc = t[c].pc
    BY <1>1 DEF Overlapping, Request
  <2>2. t'[c] = rest[c]
    BY <1>2 DEF Read, Overlapping
  <2> QED
    BY <2>1, <2>2
<1>3. CASE First(d) \/ Store(d)
  BY <1>1, <1>3 DEF First, Store, Touch
<1>4. CASE Load(d)
  BY <1>1, <1>4 DEF Load, Touch
<1>5. CASE Check(d) \/ Decide(d) \/ Alert(d) \/ Answer(d)
  BY <1>1, <1>5 DEF Check, Decide, Alert, Answer
<1> QED
  BY <1>2, <1>3, <1>4, <1>5 DEF Handle

\* A serial request computes the ticks since the reading of the request before.
LEMMA SerialOverload ==
  ASSUME Inv, NEW c \in Threads, Serial(c)
  PROVE  /\ At(c, "decide") =>
              (Overload(Minus(Dt(t[c]), Didle(t[c])), Dt(t[c])) <=> BusySince(c))
         /\ At(c, "alert") => BusySince(c)
<1>1. t[c] \in Request /\ t[c].since \in Reading /\ t[c].cur \in Reading /\ t[c].base \in Reading
  BY DEF Inv, TypeOK, Request, Serial
<1>2. ~At(c, "idle") => LoneOK(t[c], prev, hasPrev, last) /\ FoundSince(t[c], prev, hasPrev)
  BY DEF Inv, RequestOK, LoneOK, Serial, At
<1> DEFINE dt == Dt(t[c])
           used == Minus(dt, Didle(t[c]))
           total == Total(t[c].cur) - Total(t[c].since)
           busy == t[c].cur["busy"] - t[c].since["busy"]
<1>3. BusySince(c) <=> total > 0 /\ 100 * busy >= Threshold * total
  BY DEF BusySince
<1>4. total \in Int /\ (~At(c, "idle") /\ t[c].base = t[c].since => total >= 0)
  <2>1. ~At(c, "idle") => AtMost(t[c].base, t[c].cur)
    BY <1>2 DEF LoneOK
  <2> QED
    BY <1>1, <2>1, ReadingFact, MonitorAssumption DEF AtMost
<1>5. ASSUME At(c, "decide")
      PROVE  Overload(used, dt) <=> BusySince(c)
  <2>1. t[c].base = t[c].since /\ AtMost(t[c].base, t[c].cur)
    BY <1>2, <1>5 DEF At, LoneOK, FoundSince
  <2>2. dt = total /\ used = busy
    BY <1>1, <2>1, DecideFact
  <2>3. total >= 0
    BY <1>4, <1>5, <2>1 DEF At
  <2> HIDE DEF dt, used, total, busy
  <2> QED
    BY <1>3, <1>4, <2>2, <2>3 DEF Overload
<1>6. ASSUME At(c, "alert") PROVE BusySince(c)
  <2>1. t[c].dt = total /\ t[c].used = busy
    BY <1>2, <1>6 DEF At, FoundSince, ReportsSince
  <2>2. Overload(t[c].used, t[c].dt)
    BY <1>6 DEF Inv, AlertOK, At
  <2>3. t[c].dt >= 0 /\ t[c].dt \in Int
    BY <1>1, MonitorAssumption DEF Request
  <2> HIDE DEF total, busy
  <2> QED
    BY <1>3, <2>1, <2>2, <2>3 DEF Overload
<1> QED
  BY <1>5, <1>6

\* Of requests that come one after another, exactly those raise an alert that find the machine
\* as busy as the threshold says; any other alert is that of a request that overlaps another.
THEOREM SerialAlertsAreTrue == Spec => SerialAlertsTrue
<1> DEFINE Decided ==
             \A c \in Threads :
               At(c, "decide") /\ ~At(c, "decide")' /\ Serial(c) => (At(c, "alert")' <=> BusySince(c))
           Raised ==
             ~alerted /\ alerted' =>
               \E c \in Threads : At(c, "alert") /\ (Serial(c) => BusySince(c))
<1>1. ASSUME Inv, Next PROVE Decided
  <2> SUFFICES ASSUME NEW c \in Threads, At(c, "decide"), ~At(c, "decide")', Serial(c)
               PROVE  At(c, "alert")' <=> BusySince(c)
    OBVIOUS
  <2>1. PICK d \in Threads : Handle(d)
    BY <1>1 DEF Next, Tick, At
  <2>2. d = c
    BY <1>1, <2>1, OthersWait DEF At
  <2>3. Decide(c)
    BY <2>1, <2>2 DEF Handle, Read, Check, First, Load, Store, Alert, Answer, At
  <2>4. At(c, "alert")' <=> Overload(Minus(Dt(t[c]), Didle(t[c])), Dt(t[c]))
    <3>1. t \in [Threads -> Request]
      BY <1>1 DEF Inv, TypeOK
    <3> QED
      BY <2>3, <3>1 DEF Decide, At
  <2> QED
    BY <1>1, <2>4, SerialOverload
<1>2. ASSUME Inv, Next PROVE Raised
  <2> SUFFICES ASSUME ~alerted, alerted'
               PROVE  \E c \in Threads : At(c, "alert") /\ (Serial(c) => BusySince(c))
    OBVIOUS
  <2>1. PICK c \in Threads : Alert(c)
    BY <1>2 DEF Next, Tick, Handle, Read, Check, First, Load, Store, Decide, Answer
  <2> QED
    BY <1>2, <2>1, SerialOverload DEF Alert
<1>3. Inv /\ [Next]_vars => [Decided /\ Raised]_vars
  BY <1>1, <1>2
<1> QED
  BY <1>3, Invariance, PTL DEF Spec, SerialAlertsTrue
=============================================================================

------------------------------ MODULE Monitor ------------------------------
(***************************************************************************)
(* GET /api/system/stats: cpu_usage_percent compares a reading of          *)
(* /proc/stat with the reading of the call before, and check_server_load   *)
(* raises an alert of tenant 1 when the percentage reaches the threshold.  *)
(* Nothing takes an alert back.                                            *)
(*                                                                         *)
(* The reading of the call before is a function's static variable: every   *)
(* handler thread reads and writes it, without a lock.  That is a data     *)
(* race: the parts of the reading are loaded and stored one by one, in any *)
(* order, and has_prev may be set before them.  A release build, the only  *)
(* one README.md names, loads each part once per call.                     *)
(*                                                                         *)
(* A reading has two parts here: the ticks the processors were busy (user, *)
(* nice, system, irq, softirq) and those they were idle (idle, iowait).    *)
(* The kernel only ever adds to them.  Differences are unsigned.           *)
(***************************************************************************)
EXTENDS Integers

CONSTANTS
  Threads,    \* the handler threads
  Threshold,  \* cfg_.cpu_threshold, in percent
  Word,       \* 2^64: one more than the largest unsigned long long
  MaxTicks,   \* how far the counters of the kernel go
  NoReading   \* no reading is known

ASSUME MonitorAssumption ==
  /\ Threshold \in Nat \ {0}
  /\ MaxTicks \in Nat
  /\ Word \in Nat /\ 2 * MaxTicks < Word
  /\ NoReading \notin [{"busy", "idle"} -> 0 .. MaxTicks]

VARIABLES
  kernel,   \* the counters of /proc/stat
  prev,     \* static CpuTimes prev
  hasPrev,  \* static bool has_prev
  t,        \* the request each thread handles
  alerted,  \* whether GET /api/alerts shows tenant 1 an overload
  last      \* history: the reading of the last call, if no other call overlapped it

vars == <<kernel, prev, hasPrev, t, alerted, last>>

Parts   == {"busy", "idle"}
Reading == [Parts -> 0 .. MaxTicks]
Zero    == [p \in Parts |-> 0]

(***************************************************************************)
(* A request: its step, the parts of the static variables it has yet to    *)
(* touch in that step, its reading, the one it compares it with, and what  *)
(* it computes from them.  alone (no other request has overlapped it so    *)
(* far) and since (the reading the last one left, when that is certain)    *)
(* are history.                                                            *)
(***************************************************************************)
Request ==
  [pc    : {"idle", "check", "first", "load", "store", "decide", "alert", "answer"},
   todo  : SUBSET (Parts \union {"hasPrev"}),
   cur   : Reading,
   base  : Reading,
   dt    : 0 .. Word - 1,
   used  : 0 .. Word - 1,
   alone : BOOLEAN,
   since : Reading \union {NoReading}]

NoRequest ==
  [pc |-> "idle", todo |-> {}, cur |-> Zero, base |-> Zero, dt |-> 0, used |-> 0,
   alone |-> TRUE, since |-> NoReading]

At(c, step) == t[c].pc = step

Others(c) == {d \in Threads \ {c} : ~At(d, "idle")}

-----------------------------------------------------------------------------
\* The machine has run for a while when the panel starts.
Init ==
  /\ kernel \in Reading
  /\ prev = Zero
  /\ hasPrev = FALSE
  /\ t = [c \in Threads |-> NoRequest]
  /\ alerted = FALSE
  /\ last = NoReading

Tick(p) ==
  /\ kernel[p] < MaxTicks
  /\ kernel' = [kernel EXCEPT ![p] = @ + 1]
  /\ UNCHANGED <<prev, hasPrev, t, alerted, last>>

\* The requests that c overlaps are no longer alone, and neither is c.
Overlapping(c) ==
  [d \in Threads |-> IF d \in Others(c) THEN [t[d] EXCEPT !.alone = FALSE] ELSE t[d]]

\* read_cpu_times(cur)
Read(c) ==
  /\ At(c, "idle")
  /\ LET alone == Others(c) = {} IN
       /\ t' = [Overlapping(c) EXCEPT ![c].pc = "check", ![c].cur = kernel,
                                      ![c].alone = alone, ![c].since = last]
       /\ last' = IF alone THEN last ELSE NoReading
  /\ UNCHANGED <<kernel, prev, hasPrev, alerted>>

\* if (!has_prev)
Check(c) ==
  /\ At(c, "check")
  /\ t' = IF hasPrev
            THEN [t EXCEPT ![c].pc = "load", ![c].todo = Parts]
            ELSE [t EXCEPT ![c].pc = "first", ![c].todo = Parts \union {"hasPrev"},
                           ![c].dt = 0, ![c].used = 0]
  /\ UNCHANGED <<kernel, prev, hasPrev, alerted, last>>

\* What follows when c has stored its reading: it is the last one, or who knows.
Left(c) == IF t[c].alone THEN t[c].cur ELSE last

\* Of the parts c has to touch in this step, it touches p.
Touch(c, p, next) ==
  IF t[c].todo = {p} THEN [t EXCEPT ![c].pc = next, ![c].todo = {}]
                     ELSE [t EXCEPT ![c].todo = @ \ {p}]

\* A variant with a bug: the first reading is not kept.
FirstFlagOnly(c) ==
  /\ At(c, "first")
  /\ hasPrev' = TRUE
  /\ t' = [t EXCEPT ![c].pc = "answer", ![c].todo = {}]
  /\ last' = Left(c)
  /\ UNCHANGED <<kernel, prev, alerted>>

\* prev = cur; has_prev = true; return 0;
First(c) ==
  /\ At(c, "first")
  /\ \E p \in t[c].todo :
       /\ IF p = "hasPrev" THEN hasPrev' = TRUE /\ UNCHANGED prev
                           ELSE prev' = [prev EXCEPT ![p] = t[c].cur[p]] /\ UNCHANGED hasPrev
       /\ t' = Touch(c, p, "answer")
       /\ last' = IF t[c].todo = {p} THEN Left(c) ELSE last
  /\ UNCHANGED <<kernel, alerted>>

\* total(prev) and idle(prev)
Load(c) ==
  /\ At(c, "load")
  /\ \E p \in t[c].todo :
       t' = [Touch(c, p, "store") EXCEPT ![c].base[p] = prev[p],
                                         ![c].todo = IF t[c].todo = {p} THEN Parts ELSE @]
  /\ UNCHANGED <<kernel, prev, hasPrev, alerted, last>>

\* A variant with a bug: prev collects the readings.
StoreAdding(c) ==
  /\ At(c, "store")
  /\ \E p \in t[c].todo :
       /\ prev' = [prev EXCEPT ![p] = IF @ + t[c].cur[p] < MaxTicks THEN @ + t[c].cur[p]
                                                                   ELSE MaxTicks]
       /\ t' = Touch(c, p, "decide")
       /\ last' = IF t[c].todo = {p} THEN Left(c) ELSE last
  /\ UNCHANGED <<kernel, hasPrev, alerted>>

\* prev = cur;
Store(c) ==
  /\ At(c, "store")
  /\ \E p \in t[c].todo :
       /\ prev' = [prev EXCEPT ![p] = t[c].cur[p]]
       /\ t' = Touch(c, p, "decide")
       /\ last' = IF t[c].todo = {p} THEN Left(c) ELSE last
  /\ UNCHANGED <<kernel, hasPrev, alerted>>

\* A variant with a bug: signed differences.
MinusSigned(x, y) == x - y

\* x - y of unsigned long long
Minus(x, y) == IF x >= y THEN x - y ELSE x - y + Word

Total(r) == r["busy"] + r["idle"]

Dt(x) == Minus(Total(x.cur), Total(x.base))

\* A variant with a bug: idle(prev) is taken after prev = cur.
DidleLate(x) == 0

Didle(x) == Minus(x.cur["idle"], x.base["idle"])

\* (100.0 * used) / dt >= threshold, where dt = 0 counts as 0 percent
Overload(used, dt) == dt # 0 /\ 100 * used >= Threshold * dt

\* The percentage is computed, and check_server_load compares it.
Decide(c) ==
  /\ At(c, "decide")
  /\ LET dt   == Dt(t[c])
         used == Minus(dt, Didle(t[c]))
     IN t' = [t EXCEPT ![c].pc = IF Overload(used, dt) THEN "alert" ELSE "answer",
                       ![c].dt = dt, ![c].used = used]
  /\ UNCHANGED <<kernel, prev, hasPrev, alerted, last>>

\* insert_alert(1, ...): the row is inserted, or the statement is refused and nobody notices.
Alert(c) ==
  /\ At(c, "alert")
  /\ alerted' \in {alerted, TRUE}
  /\ t' = [t EXCEPT ![c].pc = "answer"]
  /\ UNCHANGED <<kernel, prev, hasPrev, last>>

Answer(c) ==
  /\ At(c, "answer")
  /\ t' = [t EXCEPT ![c] = NoRequest]
  /\ UNCHANGED <<kernel, prev, hasPrev, alerted, last>>

Handle(c) ==
  Read(c) \/ Check(c) \/ First(c) \/ Load(c) \/ Store(c) \/ Decide(c) \/ Alert(c) \/ Answer(c)

Next ==
  \/ \E p \in Parts : Tick(p)
  \/ \E c \in Threads : Handle(c)

Spec == Init /\ [][Next]_vars

-----------------------------------------------------------------------------
\* Every variable has its type.
TypeOK ==
  /\ kernel \in Reading
  /\ prev \in Reading
  /\ hasPrev \in BOOLEAN
  /\ t \in [Threads -> Request]
  /\ alerted \in BOOLEAN
  /\ last \in Reading \union {NoReading}

Computed(c) == t[c].pc \in {"alert", "answer"}

\* A call that overlaps no other computes a percentage between 0 and 100, whatever mixture of
\* readings the calls before have left in prev (cpu_usage_percent never checks its result).
LoneLoadInRange == \A c \in Threads : Computed(c) /\ t[c].alone => t[c].used <= t[c].dt

\* Requests that come one after another report the load since the one before, no more and no
\* less, as soon as one of them has come alone (cpu_usage_percent keeps the reading it used).
SerialLoadTrue ==
  \A c \in Threads :
    Computed(c) /\ t[c].alone /\ t[c].since # NoReading =>
      LET r == t[c].since
      IN t[c].dt = Total(t[c].cur) - Total(r) /\ t[c].used = t[c].cur["busy"] - r["busy"]

\* c has overlapped no other call, and neither did the one before it.
Serial(c) == t[c].alone /\ t[c].since # NoReading

\* The processors were busy enough between the two readings of the kernel.
BusySince(c) ==
  LET total == Total(t[c].cur) - Total(t[c].since)
  IN total > 0 /\ 100 * (t[c].cur["busy"] - t[c].since["busy"]) >= Threshold * total

\* Of calls that come one after another, exactly those raise an overload alert between which
\* the machine really was as busy as the threshold says, whatever overlapping calls have left
\* in prev before; an alert appears only by such a call or by one that overlaps another (what
\* overlapping calls compute may be any share: prev mixes their readings, and it wraps).
SerialAlertsTrue ==
  [][/\ \A c \in Threads :
          At(c, "decide") /\ ~At(c, "decide")' /\ Serial(c) => (At(c, "alert")' <=> BusySince(c))
     /\ ~alerted /\ alerted' =>
          \E c \in Threads : At(c, "alert") /\ (Serial(c) => BusySince(c))]_vars
=============================================================================

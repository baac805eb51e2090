------------------------------- MODULE Alarms -------------------------------
(***************************************************************************)
(* The alarms of the HAL: a linked list of them, a tick counter that wraps *)
(* round, and alt_tick, which the timer's interrupt calls.                 *)
(*                                                                         *)
(* The program changes the list between alt_irq_disable_all and            *)
(* alt_irq_enable_all, so those calls are one step each (Interrupts shows  *)
(* that no interrupt is taken in between).  A tick is a step for each      *)
(* alarm it visits; no other routine changes the list meanwhile.           *)
(*                                                                         *)
(* Three calls are taken without a check and are more than the list or the *)
(* flags bear: to start an alarm that is registered, to start one for as   *)
(* many ticks as the counter has values, less one, and to stop in a        *)
(* callback the alarm that is visited next.  `misuse' remembers which of   *)
(* them were made.                                                         *)
(***************************************************************************)
EXTENDS Integers, FiniteSets

CONSTANTS
  AlarmIds,        \* the alt_alarm structures of the program
  alt_alarm_list,  \* the head of the list
  Wrap,            \* how many values alt_u32 has
  Periods,         \* the ticks an alarm is started for, and those a callback returns
  Off              \* not registered

ASSUME AlarmAssumption ==
  /\ alt_alarm_list \notin AlarmIds
  /\ Off \notin AlarmIds \cup {alt_alarm_list} \cup Nat
  /\ Wrap \in Nat /\ Wrap > 2
  /\ Periods \subseteq 0 .. Wrap - 1

VARIABLES
  _alt_tick_rate,  \* ticks a second, 0 while there is no system clock
  _alt_nticks,     \* the ticks so far
  alarm,           \* the `time' and `rollover' of each alarm
  next, previous,  \* the links of the list
  visited,         \* the alarm alt_tick is about to visit, or Off
  misuse           \* the calls made that the code does not bear

alarmVars == <<_alt_tick_rate, _alt_nticks, alarm, next, previous, visited, misuse>>

Entries == AlarmIds \cup {alt_alarm_list}

AlarmInit ==
  /\ _alt_tick_rate = 0
  /\ _alt_nticks = 0
  /\ alarm = [a \in AlarmIds |-> [time |-> 0, rollover |-> FALSE]]
  /\ next = [e \in Entries |-> e] /\ previous = [e \in Entries |-> e]
  /\ visited = Off /\ misuse = {}

-----------------------------------------------------------------------------
(* The list. *)

Links == [next |-> next, previous |-> previous]

alt_llist_insert(l, e) ==
  LET first == l.next[alt_alarm_list] IN
  [next |-> [l.next EXCEPT ![e] = first, ![alt_alarm_list] = e],
   previous |-> [l.previous EXCEPT ![e] = alt_alarm_list, ![first] = e]]

\* Faulty: the entry keeps its links.
alt_llist_remove_Stale(l, e) ==
  [next |-> [l.next EXCEPT ![l.previous[e]] = l.next[e]],
   previous |-> [l.previous EXCEPT ![l.next[e]] = l.previous[e]]]

\* The entry is left pointing to itself, so that it can be removed again.
alt_llist_remove(l, e) ==
  LET p == l.previous[e]
      n == l.next[e]
  IN  [next |-> [l.next EXCEPT ![p] = n, ![e] = e],
       previous |-> [l.previous EXCEPT ![n] = p, ![e] = e]]

SetLinks(l) == next' = l.next /\ previous' = l.previous

\* A walk along the links `n' from the head on leaves the set only for the head;
\* the alarms that are reached are those of every such set.
Closed(n, S) == \A e \in S \cup {alt_alarm_list} : n[e] \in S \cup {alt_alarm_list}
Reached(n) == {a \in AlarmIds : \A S \in SUBSET AlarmIds : Closed(n, S) => a \in S}
Listed == Reached(next)

-----------------------------------------------------------------------------
(* Calls of the program and of callbacks. *)

\* Faulty: the flag is left to the first tick.
Started_Unflagged(now, n) == [time |-> (n + now + 1) % Wrap, rollover |-> FALSE]

\* alt_alarm_start: the time of the call, and whether the counter wraps round
\* before it.
Started(now, n) ==
  LET t == (n + now + 1) % Wrap IN [time |-> t, rollover |-> t < now]

\* The system clock's driver sets the rate, once.
alt_sysclk_init ==
  /\ _alt_tick_rate = 0
  /\ _alt_tick_rate' = 1
  /\ UNCHANGED <<_alt_nticks, alarm, next, previous, visited, misuse>>

MisusedBy(a, n) ==
  {m \in {"restart", "toolong"} :
     \/ m = "restart" /\ a \in Listed
     \/ m = "toolong" /\ n = Wrap - 1}

\* Without a clock it fails and starts nothing.  It does not ask whether the
\* alarm is registered.
Start(a, n) ==
  /\ visited = Off /\ _alt_tick_rate # 0
  /\ alarm' = [alarm EXCEPT ![a] = Started(_alt_nticks, n)]
  /\ SetLinks(alt_llist_insert(Links, a))
  /\ misuse' = misuse \cup MisusedBy(a, n)
  /\ UNCHANGED <<_alt_tick_rate, _alt_nticks, visited>>

alt_alarm_start == \E a \in AlarmIds, n \in Periods : Start(a, n)

\* An alarm that was started once can be stopped at any time.
alt_alarm_stop ==
  /\ visited = Off
  /\ \E a \in AlarmIds : SetLinks(alt_llist_remove(Links, a))
  /\ UNCHANGED <<_alt_tick_rate, _alt_nticks, alarm, visited, misuse>>

-----------------------------------------------------------------------------
(* alt_tick. *)

\* The counter wraps round to 0.
TickBegin ==
  /\ visited = Off /\ _alt_tick_rate # 0
  /\ _alt_nticks' = (_alt_nticks + 1) % Wrap
  /\ visited' = next[alt_alarm_list]
  /\ UNCHANGED <<_alt_tick_rate, alarm, next, previous, misuse>>

\* A flag is cleared when the counter has wrapped round; an alarm is called
\* when its time has come and its flag is clear.
Flag(r, now) == r.rollover /\ now # 0
Expired(r, now) == r.time <= now /\ ~ Flag(r, now)

Visits == visited \notin {Off, alt_alarm_list}

Pass ==
  /\ Visits /\ ~ Expired(alarm[visited], _alt_nticks)
  /\ alarm' = [alarm EXCEPT ![visited].rollover = Flag(alarm[visited], _alt_nticks)]
  /\ visited' = next[visited]
  /\ UNCHANGED <<_alt_tick_rate, _alt_nticks, next, previous, misuse>>

\* What a callback may do to the list before it returns, in one call at most:
\* nothing, stop an alarm, or start one.  `al' are the alarms as they are then.
Effects(a, al) ==
  {[links |-> Links, alarm |-> al, misuse |-> {}]}
  \cup {[links |-> alt_llist_remove(Links, b), alarm |-> al,
         misuse |-> IF b = next[a] /\ b # a THEN {"stopnext"} ELSE {}] : b \in AlarmIds}
  \cup {[links |-> alt_llist_insert(Links, b),
         alarm |-> [al EXCEPT ![b] = Started(_alt_nticks, n)],
         misuse |-> MisusedBy(b, n)] : b \in AlarmIds, n \in Periods}

\* The time to the next call: it may wrap round too.
Again(r, n) ==
  LET t == (r.time + n) % Wrap IN
  [time |-> t, rollover |-> r.rollover \/ t < _alt_nticks]

\* The callback answers 0, and the alarm is stopped, or the ticks to its next
\* call; the alarm visited next was read before.
Callback ==
  /\ Visits /\ Expired(alarm[visited], _alt_nticks)
  /\ \E e \in Effects(visited, [alarm EXCEPT ![visited].rollover = FALSE]),
        n \in Periods \cup {0} :
       /\ IF n = 0
          THEN SetLinks(alt_llist_remove(e.links, visited)) /\ alarm' = e.alarm
          ELSE SetLinks(e.links) /\ alarm' = [e.alarm EXCEPT ![visited] = Again(@, n)]
       /\ misuse' = misuse \cup e.misuse
  /\ visited' = next[visited]
  /\ UNCHANGED <<_alt_tick_rate, _alt_nticks>>

TickEnd ==
  /\ visited = alt_alarm_list
  /\ visited' = Off
  /\ UNCHANGED <<_alt_tick_rate, _alt_nticks, alarm, next, previous, misuse>>

alt_tick == TickBegin \/ Pass \/ Callback \/ TickEnd

AlarmNext == alt_sysclk_init \/ alt_alarm_start \/ alt_alarm_stop \/ alt_tick

\* alt_tick runs to its end once the interrupt has called it.
AlarmSpec ==
  AlarmInit /\ [][AlarmNext]_alarmVars /\ WF_alarmVars(Pass \/ Callback \/ TickEnd)

-----------------------------------------------------------------------------
(* Properties. *)

AlarmTypeOK ==
  /\ _alt_tick_rate \in {0, 1} /\ _alt_nticks \in 0 .. Wrap - 1
  /\ alarm \in [AlarmIds -> [time : 0 .. Wrap - 1, rollover : BOOLEAN]]
  /\ next \in [Entries -> Entries] /\ previous \in [Entries -> Entries]
  /\ visited \in Entries \cup {Off}
  /\ misuse \subseteq {"restart", "toolong", "stopnext"}

\* Unless an alarm is started while it is registered, the list is one ring
\* through its head, the same both ways, and an alarm that is not in it points to
\* itself, even when a callback stops the alarm that is visited next.
ListIsRing ==
  "restart" \notin misuse =>
    /\ \A e \in Entries : previous[next[e]] = e /\ next[previous[e]] = e
    /\ \A a \in AlarmIds \ Listed : next[a] = a

\* Every alarm is called at the tick it was set for, whatever wraps round and
\* whatever callbacks and the program start and stop meanwhile, and a tick ends,
\* as long as no call is made that the code does not bear.
T == INSTANCE Timers WITH
  Alarms <- AlarmIds,
  remaining <- LET listed == Listed
               IN  [a \in AlarmIds |-> IF a \in listed
                     THEN (alarm[a].time - _alt_nticks) % Wrap ELSE Off],
  ticking <- visited # Off,
  kept <- misuse = {}
CallsAreTimely == T!SafeSpec
ImplementsTimers == T!Spec

\* alt_alarm_start.c:84-88: the flag set when the time of an alarm rolls over
\* "will prevent the subsequent tick event from causing an alarm too early": an
\* alarm started for one tick or more is not called at the next one.
NotTooEarly ==
  [][\A a \in AlarmIds, n \in Periods \ {0} :
       Start(a, n) => ~ Expired(alarm'[a], (_alt_nticks + 1) % Wrap)]_alarmVars
=============================================================================

---------------------------- MODULE MonitorRules ----------------------------
(***************************************************************************)
(* One monitoring rule of a TM1 server, the scheduled passes that check it *)
(* when it is due (anyone holding the cron secret may start one at any     *)
(* time) and the checks people ask for.  A check reads what happened since *)
(* the last one, raises alerts once per occurrence and mails them.         *)
(***************************************************************************)
EXTENDS Naturals, FiniteSetsExt

CONSTANTS Events, Checks,
          MaxTime,      \* bound: moments that are told apart
          MaxValue,     \* bound: sizes of a dimension, states of security
          MaxAlerts,    \* MAX_ALERTS_PER_CHECK
          MaxErrors     \* ERRORS_BEFORE_ALERT

VARIABLES
  kind,    \* the rule watches events, a dimension's growth, or security
  alone,   \* one check at a time in this behaviour
  now,     \* the moment; each reading of the clock has one of its own
  happened,\* per event: its timestamp, 0 before it happens
  shown,   \* events whose record a check can read
  late,    \* events that became readable after their timestamp
  value,   \* the size or the security of the server now
  rule,    \* the rule's committed row
  alert,   \* per occurrence: its alert's status, or "none"
  check,   \* per check: where it is
  mails,   \* per occurrence: how often subscribers were mailed
  again,   \* occurrences mailed by a check that was then rolled back
  cut,     \* events beyond MaxAlerts that a check left out
  down     \* "cannot check" alerts since the last successful check

vars == <<kind, alone, now, happened, shown, late, value, rule, alert, check, mails, again, cut, down>>
world == <<kind, alone, happened, shown, late, value>>
book == <<rule, alert>>
ledger == <<mails, again, cut, down>>

Times == 0..MaxTime
Values == 1..MaxValue
Occurrences ==
  ({"event"} \X Events) \cup ({"security"} \X Values) \cup
  {<<"growth", b, v>> : b, v \in Values} \cup ({"down"} \X Times)
Statuses == {"none", "open", "answered"}   \* answered: acknowledged or resolved
Idle == [at |-> "idle", hand |-> FALSE, since |-> 0, started |-> 0, errors |-> 0, ok |-> TRUE,
         found |-> {}, base |-> 0, new |-> {}]

\* rule.last, rule.base: 0 for none.
TypeOK ==
  /\ kind \in {"events", "growth", "security"} /\ alone \in BOOLEAN /\ now \in Times
  /\ happened \in [Events -> Times] /\ shown \subseteq Events /\ late \subseteq Events
  /\ value \in Values
  /\ rule \in [status : {"proposed", "active", "paused", "deleted"}, born : Times, last : Times,
               errors : Nat, base : 0..MaxValue]
  /\ alert \in [Occurrences -> Statuses]
  /\ check \in [Checks ->
       [at : {"idle", "due", "started", "found", "recorded", "mail"}, hand : BOOLEAN,
        since : Times, started : Times, errors : Nat, ok : BOOLEAN, found : SUBSET Occurrences,
        base : 0..MaxValue, new : SUBSET Occurrences]]
  /\ mails \in [Occurrences -> Nat]
  /\ again \subseteq Occurrences /\ cut \subseteq Events /\ down \in Nat

\* What a new rule's status is: made by a person, or by propose_monitor.
Created == {"active", "proposed"}

\* create.
Init ==
  /\ kind \in {"events", "growth", "security"} /\ alone \in BOOLEAN
  /\ now = 1
  /\ happened = [e \in Events |-> 0] /\ shown = {} /\ late = {} /\ value = 1
  /\ \E s \in Created :
       rule = [status |-> s, born |-> 1, last |-> 0, errors |-> 0, base |-> 0]
  /\ alert = [o \in Occurrences |-> "none"]
  /\ check = [c \in Checks |-> Idle]
  /\ mails = [o \in Occurrences |-> 0] /\ again = {} /\ cut = {} /\ down = 0

-----------------------------------------------------------------------------
(* The server and the other records.                                       *)

\* A run fails, the model or a change is applied: its record can be read at
\* once, or only later under the timestamp it has now.
Happen(e) ==
  /\ kind = "events" /\ happened[e] = 0 /\ now < MaxTime
  /\ now' = now + 1 /\ happened' = [happened EXCEPT ![e] = now']
  /\ \/ shown' = shown \cup {e} /\ UNCHANGED late
     \/ late' = late \cup {e} /\ UNCHANGED shown
  /\ UNCHANGED <<kind, alone, value, book, check, ledger>>

Appear(e) ==
  /\ e \in late \ shown
  /\ shown' = shown \cup {e}
  /\ UNCHANGED <<kind, alone, now, happened, late, value, book, check, ledger>>

\* Elements or group memberships are added or removed.
Change ==
  /\ kind # "events" /\ now < MaxTime
  /\ now' = now + 1 /\ value' \in Values \ {value}
  /\ UNCHANGED <<kind, alone, happened, shown, late, book, check, ledger>>

-----------------------------------------------------------------------------
(* A check.                                                                *)

\* The row of the rule is written by a check that has not committed.
Locked == \E c \in Checks : check[c].at = "recorded"

\* run_due_monitors lists the active rules whose interval has passed;
Due(c) ==
  /\ check[c].at = "idle" /\ (alone => \A d \in Checks : check[d].at = "idle")
  /\ rule.status = "active"
  /\ check' = [check EXCEPT ![c] = [Idle EXCEPT !.at = "due"]]
  /\ UNCHANGED <<world, now, book, ledger>>

\* check_now is asked for by a person, of any rule that was turned on.
CheckNow(c) ==
  /\ check[c].at = "idle" /\ (alone => \A d \in Checks : check[d].at = "idle")
  /\ rule.status \in {"active", "paused"}
  /\ check' = [check EXCEPT ![c] = [Idle EXCEPT !.at = "due", !.hand = TRUE]]
  /\ UNCHANGED <<world, now, book, ledger>>

\* check_rule reads the rule again and notes the time before it looks (a rule
\* deleted meanwhile fails the pass).
Start(c) ==
  /\ check[c].at = "due" /\ rule.status # "deleted" /\ now < MaxTime
  /\ now' = now + 1
  /\ check' = [check EXCEPT ![c] = [@ EXCEPT !.at = "started", !.started = now', !.errors = rule.errors,
                 !.since = IF rule.last = 0 THEN rule.born ELSE rule.last, !.base = rule.base]]
  /\ UNCHANGED <<world, book, ledger>>

\* The evaluators: failed or slow runs, applied changes and model changes since
\* the last check; a size above the baseline; a security that differs from it.
NewEvents(c) == {e \in shown : happened[e] > check[c].since}

Grown(c) ==
  LET b == check[c].base
  IN  [found |-> IF b # 0 /\ value > b THEN {<<"growth", b, value>>} ELSE {},
       base |-> IF b = 0 \/ value > b THEN value ELSE b]

SecurityChanged(c) ==
  [found |-> IF check[c].base \notin {0, value} THEN {<<"security", value>>} ELSE {}, base |-> value]

Evaluated(c) ==
  CASE kind = "events" -> [found |-> {<<"event", e>> : e \in NewEvents(c)}, base |-> 0]
    [] kind = "growth" -> Grown(c)
    [] kind = "security" -> SecurityChanged(c)

\* The first MaxAlerts of what was found, oldest first.
Raised(found) ==
  {s \in SUBSET found :
     /\ Cardinality(s) = Min({Cardinality(found), MaxAlerts})
     /\ kind = "events" => \A o \in s, x \in found \ s : happened[o[2]] < happened[x[2]]}

Evaluate(c) ==
  /\ check[c].at = "started"
  /\ \/ LET r == Evaluated(c) IN \E s \in Raised(r.found) :
          /\ check' = [check EXCEPT ![c] = [@ EXCEPT !.at = "found", !.since = 0, !.found = s, !.base = r.base]]
          /\ cut' = IF kind = "events" THEN cut \cup {o[2] : o \in r.found \ s} ELSE cut
     \/ /\ check' = [check EXCEPT ![c] = [@ EXCEPT !.at = "found", !.since = 0, !.ok = FALSE, !.base = 0]]   \* no answer
        /\ UNCHANGED cut
  /\ UNCHANGED <<world, now, book, mails, again, down>>

\* Three failed checks in a row are said once.
Silent(c) == check[c].errors + 1 = MaxErrors

Found(c) ==
  IF check[c].ok THEN check[c].found ELSE IF Silent(c) THEN {<<"down", check[c].started>>} ELSE {}

\* _raise inserts what is not there yet, once nobody else is writing the rule.
Record(c) ==
  /\ check[c].at = "found" /\ ~Locked /\ rule.status # "deleted"
  /\ check' = [check EXCEPT ![c] = [@ EXCEPT !.at = "recorded",
                 !.new = {o \in Found(c) : alert[o] = "none"}]]
  /\ UNCHANGED <<world, now, book, ledger>>

\* What check_rule leaves in the rule's row: the time noted before it looked.
After_Finish(c) ==
  IF check[c].ok THEN [rule EXCEPT !.last = now, !.errors = 0, !.base = check[c].base]
  ELSE [rule EXCEPT !.errors = check[c].errors + 1]

After(c) ==
  IF check[c].ok THEN [rule EXCEPT !.last = check[c].started, !.errors = 0, !.base = check[c].base]
  ELSE [rule EXCEPT !.errors = check[c].errors + 1]

\* Row and alerts are committed; a scheduled pass mails them now.
Commit(c) ==
  /\ check[c].at = "recorded"
  /\ check[c].hand => check[c].new = {}    \* its mails have gone out
  /\ rule' = After(c)
  /\ alert' = [o \in Occurrences |-> IF o \in check[c].new THEN "open" ELSE alert[o]]
  /\ check' = [check EXCEPT ![c] = IF @.new = {} THEN Idle ELSE [Idle EXCEPT !.at = "mail", !.new = check[c].new]]
  /\ down' = IF check[c].ok THEN 0 ELSE down + Cardinality(check[c].new)
  /\ UNCHANGED <<world, now, mails, again, cut>>

\* notify: to subscribers who may still use the connection.
Notify(c) ==
  /\ check[c].at = "mail"
  /\ mails' = [o \in Occurrences |-> IF o \in check[c].new THEN mails[o] + 1 ELSE mails[o]]
  /\ check' = [check EXCEPT ![c] = Idle]
  /\ UNCHANGED <<world, now, book, again, cut, down>>

\* check_now mails before its request commits, which may still fail.
NotifyNow(c) ==
  /\ check[c].at = "recorded" /\ check[c].hand /\ check[c].new # {}
  /\ mails' = [o \in Occurrences |-> IF o \in check[c].new THEN mails[o] + 1 ELSE mails[o]]
  /\ check' = [check EXCEPT ![c] = Idle]
  /\ \/ /\ rule' = After(c)
        /\ alert' = [o \in Occurrences |-> IF o \in check[c].new THEN "open" ELSE alert[o]]
        /\ down' = IF check[c].ok THEN 0 ELSE down + Cardinality(check[c].new)
        /\ UNCHANGED again
     \/ again' = again \cup check[c].new /\ UNCHANGED <<book, down>>
  /\ UNCHANGED <<world, now, cut>>

\* The pass fails or its process ends: what it had not committed is undone, what
\* it had not mailed never is.
Fail(c) ==
  /\ check[c].at # "idle"
  /\ check' = [check EXCEPT ![c] = Idle]
  /\ UNCHANGED <<world, now, book, ledger>>

-----------------------------------------------------------------------------
(* People.                                                                 *)

\* update: turn a rule on or off, or change its parameters (a new baseline).
Update ==
  /\ rule.status # "deleted" /\ ~Locked
  /\ \/ \E s \in {"active", "paused"} \ {rule.status} :
          rule' = [rule EXCEPT !.status = s,
                     !.last = IF s = "active" /\ rule.status = "proposed" THEN 0 ELSE @]
     \/ rule.base # 0 /\ rule' = [rule EXCEPT !.base = 0]
  /\ UNCHANGED <<world, now, alert, check, ledger>>

\* delete: its alerts go with it.
Delete ==
  /\ rule.status # "deleted" /\ ~Locked
  /\ rule' = [rule EXCEPT !.status = "deleted"]
  /\ alert' = [o \in Occurrences |-> "none"]
  /\ UNCHANGED <<world, now, check, ledger>>

\* set_alert_status.
Answer(o) ==
  /\ alert[o] = "open"
  /\ alert' = [alert EXCEPT ![o] = "answered"]
  /\ UNCHANGED <<world, now, rule, check, ledger>>

CheckStep(c) ==
  \/ Due(c) \/ CheckNow(c) \/ Start(c) \/ Evaluate(c) \/ Record(c) \/ Commit(c)
  \/ Notify(c) \/ NotifyNow(c) \/ Fail(c)

\* The requests of the Alerts page, each by somebody who may use the connection.
Request == Update \/ Delete \/ \E o \in Occurrences : Answer(o)

Next ==
  \/ \E e \in Events : Happen(e) \/ Appear(e)
  \/ Change \/ Request
  \/ \E c \in Checks : CheckStep(c)

Spec == Init /\ [][Next]_vars

-----------------------------------------------------------------------------
\* However passes and people's checks overlap, fail and repeat, an event between
\* two checks is not missed: once the rule was checked up to a later moment it
\* has an alert, unless it became readable after its timestamp or one check found
\* more than it raises (check_rule: since, started).
NoneMissed ==
  rule.status # "deleted" =>
    \A e \in Events \ (late \cup cut) :
      happened[e] \in (rule.born + 1)..rule.last => alert[<<"event", e>>] # "none"

\* However checks overlap, an occurrence is never raised again once somebody has
\* answered its alert ("Each occurrence alerts once").
AlertsOnce ==
  rule'.status # "deleted" =>
     \A o \in Occurrences : alert[o] = "answered" => alert'[o] = "answered"

\* Subscribers are mailed once about an occurrence, unless a check that mailed it
\* was rolled back (run_due_monitors commits before notify).
MailedOnce ==
  \A o \in Occurrences \ again : mails[o] <= 1 /\ (mails[o] = 1 /\ rule.status # "deleted" => alert[o] # "none")

\* Checked by one pass at a time, an unreachable server is said once, however
\* long it stays so ("An unreachable server is said once, after three failed
\* checks in a row").
DownSaidOnce == alone => down <= 1
=============================================================================

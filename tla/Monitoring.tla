------------------------------ MODULE Monitoring ------------------------------
(* The passive monitoring loop (monitoring/service.py): one round of checks   *)
(* per interval over the instances, the triggers, the consents and the disks, *)
(* each finding an alert_* audit entry; and the notifier                      *)
(* (monitoring/notifier.py), which mails the alerts it hears on the bus,      *)
(* within two limits.  Instances change between rounds, and the process       *)
(* restarts, with fresh sets in memory and the audit log kept.                *)
EXTENDS Naturals, Integers, FiniteSets, Sequences

CONSTANTS
  Instances, Workflow,   \* of an instance: the email-triggered workflow it is a run of
  Mounts,
  Levels,                \* the level alerts: error rate, queue depth, token burn
  Nobody,                \* the subject of an alert about no workflow and no instance
  MaxTime, MaxChanges, MaxFaults   \* a fault: a write that fails, a send that fails, a restart

VARIABLES
  now,     \* in intervals of the loop
  inst,    \* instance -> its state, its start and its newest step activity
  consent, \* workflow -> when its mailbox's consent dies, or NoClock
  low,     \* the mounts below a floor
  high,    \* the kinds of level above their threshold
  round,   \* where the loop is in its round
  alerted, \* the service's sets, in memory: the keys already alerted on
  since,   \* kind -> the service's last alert at this height, or Never
  log,     \* the alert entries
  heard,   \* the notifier's queue
  mailed,  \* the notifier's memory of what it sent
  posted,  \* every email that left, and whether its entry was written
  lost,    \* keys whose entry could not be written
  changes, faults, restarts
vars == <<now, inst, consent, low, high, round, alerted, since, log, heard, mailed, posted, lost, changes, faults, restarts>>

Workflows == {Workflow[i] : i \in Instances}
Never     == 0 - 100
NoClock   == 100

StuckAfter   == 1
PausedAfter  == 2
StaleAfter   == 2
ConsentWarn  == 1
LevelWindow  == 2
DiskRepeat   == 2
MailRepeat   == 2
Hour         == 1
MaxPerHour   == 2

Checks == <<"stuck", "paused", "levels", "stale", "consent", "disk">>
Absent == [state |-> "absent", started |-> Never, active |-> Never]

Init ==
  /\ now = 1
  /\ inst = [i \in Instances |-> Absent]
  /\ consent \in [Workflows -> {NoClock, 3}]
  /\ low = {} /\ high = {}
  /\ round = 0 /\ alerted = {} /\ since = [k \in Levels |-> Never]
  /\ log = {} /\ heard = <<>> /\ mailed = {} /\ posted = {} /\ lost = {}
  /\ changes = 0 /\ faults = 0 /\ restarts = 0

-----------------------------------------------------------------------------
(* The platform between two rounds: runs start, do steps, stop and are        *)
(* resumed (which does not reset started_at), consents are renewed, disks     *)
(* fill and are cleared, levels rise and fall, time passes.                   *)
Changing == round = 0 /\ heard = <<>> /\ changes < MaxChanges /\ changes' = changes + 1

Started == {i \in Instances : inst[i].state # "absent"}
Flip(set, x) == IF x \in set THEN set \ {x} ELSE set \cup {x}

Change(i) ==
  /\ Changing
  /\ \E new \in
       CASE inst[i].state = "absent"  -> {[state |-> "running", started |-> now, active |-> now]}
         [] inst[i].state = "running" ->
              {[inst[i] EXCEPT !.active = now], [inst[i] EXCEPT !.state = "ended"],
               [inst[i] EXCEPT !.state = "paused"]}
         [] inst[i].state = "paused"  -> {[inst[i] EXCEPT !.state = "running"]}
         [] OTHER -> {} :
       inst' = [inst EXCEPT ![i] = new]
  /\ UNCHANGED <<now, consent, low, high, round, alerted, since, log, heard, mailed, posted, lost, faults, restarts>>
World ==
  /\ Changing
  /\ \/ \E w \in Workflows : consent[w] < NoClock /\ consent' = [consent EXCEPT ![w] = now + 3]
                             /\ UNCHANGED <<low, high>>
     \/ \E m \in Mounts : low' = Flip(low, m) /\ UNCHANGED <<consent, high>>
     \/ \E k \in Levels : high' = Flip(high, k) /\ UNCHANGED <<consent, low>>
  /\ UNCHANGED <<now, inst, round, alerted, since, log, heard, mailed, posted, lost, faults, restarts>>

-----------------------------------------------------------------------------
(* What each check would alert on now.  A key is the alert with what its      *)
(* once-only rule is about: an instance, a workflow's last run, an expiry, a  *)
(* mount.                                                                     *)
Key(action, subject, episode) == [action |-> action, subject |-> subject, episode |-> episode]
InLog(k)  == \E e \in log : e.key = k

\* Mutant of Idle: the very limit does not count as over it.
MutIdle(i, state, limit) ==
  inst[i].state = state /\ now - inst[i].started >= limit /\ now - inst[i].active > limit

(* The age of an instance is that of its newest step activity, after a cheap  *)
(* bound by its start.                                                        *)
Idle(i, state, limit) ==
  inst[i].state = state /\ now - inst[i].started >= limit /\ now - inst[i].active >= limit

Stuck  == {Key("alert_stuck_workflow", i, 0) : i \in {i \in Instances : Idle(i, "running", StuckAfter)}}
Paused == {Key("alert_abandoned_pause", i, 0) : i \in {i \in Instances : Idle(i, "paused", PausedAfter)}}

(* A level above its threshold, not alerted within the window.                *)
LevelKey(k) == Key("alert_high", k, now)
Leveled == {LevelKey(k) : k \in {k \in high : now - since[k] >= LevelWindow}}

(* The newest run of the workflow, and the episode it names.                  *)
LastRun(w) ==
  LET starts == {inst[i].started : i \in {i \in Started : Workflow[i] = w}}
  IN IF starts = {} THEN Never ELSE CHOOSE s \in starts : \A t \in starts : t <= s
IsStale(w) == now - LastRun(w) >= StaleAfter
StaleKey(w) == Key("alert_stale_trigger", w, LastRun(w))
Stale == {StaleKey(w) : w \in {w \in Workflows : IsStale(w)}}

ConsentKey(w) == Key("alert_trigger_consent_expiring", w, consent[w])
Expiring == {ConsentKey(w) : w \in {w \in Workflows : consent[w] # NoClock /\ consent[w] - now <= ConsentWarn}}

(* A low disk, unless the audit log has its last alert within the repeat.     *)
DiskKey(m) == Key("alert_low_disk", m, now)
LowDisks == {DiskKey(m) : m \in {m \in low :
               \A e \in log : e.key.action = "alert_low_disk" /\ e.key.subject = m =>
                 now - e.key.episode >= DiskRepeat}}

(* What the service remembers a key by: a stale trigger by its workflow.      *)
Memory(k) == IF k.action = "alert_stale_trigger" THEN [k EXCEPT !.episode = 0] ELSE k

Findings(check) ==
  {k \in CASE check = "stuck"   -> Stuck   [] check = "paused"  -> Paused
           [] check = "levels"  -> Leveled [] check = "stale"   -> Stale
           [] check = "consent" -> Expiring [] check = "disk"   -> LowDisks :
     Memory(k) \notin alerted}

\* Mutant of Known: a restart forgets what was reported.
MutKnown(k) == FALSE

(* Whether an earlier process reported the episode already: the audit log     *)
(* answers for the triggers and the consents.                                 *)
Known(k) == k.action \in {"alert_stale_trigger", "alert_trigger_consent_expiring"} /\ InLog(k)

-----------------------------------------------------------------------------
(* _loop: an interval passes and a round begins; a check goes through its findings one by one,       *)
(* remembering each and writing its entry through the audit writer, which     *)
(* also publishes it; a write that fails ends the round.                      *)
Begin ==
  /\ round = 0 /\ heard = <<>> /\ now < MaxTime
  /\ now' = now + 1 /\ round' = 1
  /\ since' = [k \in Levels |-> IF k \in high THEN since[k] ELSE Never]
  /\ UNCHANGED <<inst, consent, low, high, alerted, log, heard, mailed, posted, lost, changes, faults, restarts>>

Report ==
  /\ round \in 1 .. Len(Checks)
  /\ \E k \in Findings(Checks[round]) :
       /\ alerted' = IF k.action \in {"alert_low_disk", "alert_high"} THEN alerted
                     ELSE alerted \cup {Memory(k)}
       /\ since' = IF k.action = "alert_high" THEN [since EXCEPT ![k.subject] = now] ELSE since
       /\ \/ /\ Known(k) /\ UNCHANGED <<round, log, heard, lost, faults>>
          \/ /\ ~Known(k)
             /\ log' = log \cup {[key |-> k, at |-> now, boot |-> restarts]}
             /\ heard' = Append(heard, k)
             /\ UNCHANGED <<round, lost, faults>>
          \/ /\ ~Known(k) /\ faults < MaxFaults
             /\ faults' = faults + 1 /\ lost' = lost \cup {k}
             /\ round' = 0 /\ UNCHANGED <<log, heard>>
  /\ UNCHANGED <<now, inst, consent, low, high, mailed, posted, changes, restarts>>

Checked ==
  /\ round \in 1 .. Len(Checks) /\ Findings(Checks[round]) = {}
  /\ LET ahead == {r \in round + 1 .. Len(Checks) : Findings(Checks[r]) # {}} \cup {Len(Checks) + 1}
     IN round' = CHOOSE r \in ahead : \A x \in ahead : r <= x
  /\ UNCHANGED <<now, inst, consent, low, high, alerted, since, log, heard, mailed, posted, lost, changes, faults, restarts>>
End ==
  /\ round = Len(Checks) + 1
  /\ round' = 0
  /\ UNCHANGED <<now, inst, consent, low, high, alerted, since, log, heard, mailed, posted, lost, changes, faults, restarts>>

(* handle: the alert is mailed unless one of the same action and subject was  *)
(* within the repeat, or the hour is full.  The subject is the workflow or    *)
(* the instance; an alert about neither has none.                             *)
MailSubject(k) ==
  IF k.action \in {"alert_low_disk", "alert_high"} THEN Nobody ELSE k.subject

\* Mutant of MayMail: no limit to the hour.
MutMayMail(k) ==
  ~\E m \in mailed : m.action = k.action /\ m.subject = MailSubject(k) /\ now - m.at < MailRepeat

MayMail(k) ==
  /\ ~\E m \in mailed : m.action = k.action /\ m.subject = MailSubject(k) /\ now - m.at < MailRepeat
  /\ Cardinality({m \in mailed : now - m.at <= Hour}) < MaxPerHour

Handle ==
  /\ heard # <<>> /\ round = 0
  /\ heard' = Tail(heard)
  /\ LET k == Head(heard)
         mail == [action |-> k.action, subject |-> MailSubject(k), at |-> now]
         Post(recorded) == /\ mailed' = mailed \cup {mail}
                           /\ posted' = posted \cup {[mail |-> mail, of |-> k, boot |-> restarts,
                                                      recorded |-> recorded]} IN
     \/ ~MayMail(k) /\ UNCHANGED <<mailed, posted, faults>>
     \/ MayMail(k) /\ Post(TRUE) /\ UNCHANGED faults
     \/ /\ MayMail(k) /\ faults < MaxFaults /\ faults' = faults + 1
        /\ Post(FALSE) \/ UNCHANGED <<mailed, posted>>
  /\ UNCHANGED <<now, inst, consent, low, high, round, alerted, since, log, lost, changes, restarts>>

Restart ==
  /\ faults < MaxFaults
  /\ faults' = faults + 1 /\ restarts' = restarts + 1
  /\ round' = 0 /\ alerted' = {} /\ since' = [k \in Levels |-> Never] /\ heard' = <<>> /\ mailed' = {}
  /\ UNCHANGED <<now, inst, consent, low, high, log, posted, lost, changes>>

Next ==
  \/ \E i \in Instances : Change(i)
  \/ World \/ Begin \/ Report \/ Checked \/ End \/ Handle \/ Restart

Spec == Init /\ [][Next]_vars

-----------------------------------------------------------------------------
(* An episode is alerted on once: a stale trigger once for its last run and  *)
(* an expiring consent once for its expiry, whatever restarts there are, an  *)
(* instance once in a process, a disk once in the repeat interval; and the   *)
(* notifier of one process never posts two emails about one subject within   *)
(* the repeat, nor more than the hour's allowance.                           *)
OncePerEpisode ==
  /\ \A d, e \in log : d # e /\ d.key.action = e.key.action /\ d.key.subject = e.key.subject =>
       /\ d.key.action \in {"alert_stale_trigger", "alert_trigger_consent_expiring"} => d.key # e.key
       /\ d.key.action \in {"alert_stuck_workflow", "alert_abandoned_pause"} => d.boot # e.boot
       /\ d.key.action = "alert_low_disk" => d.at - e.at \notin (1 - DiskRepeat) .. (DiskRepeat - 1)
  /\ \A p \in posted :
       /\ Cardinality({q \in posted : q.boot = p.boot /\ p.mail.at - q.mail.at \in 0 .. Hour}) <= MaxPerHour
       /\ \A q \in posted : q # p /\ q.boot = p.boot /\ q.mail.action = p.mail.action
                             /\ q.mail.subject = p.mail.subject =>
            p.mail.at - q.mail.at \notin (1 - MailRepeat) .. (MailRepeat - 1)

(* A round that reaches its end leaves nothing it looked for unsaid: every   *)
(* instance idle too long in its state, every stale trigger, every expiring  *)
(* consent and every low disk has its entry, of this round or an earlier     *)
(* one, except what a failed write had already taken from the log.           *)
Lost(action, subject) == \E k \in lost : k.action = action /\ k.subject = subject
Said(action, subject) == Lost(action, subject)
                         \/ \E e \in log : e.key.action = action /\ e.key.subject = subject
RoundsReport == round = Len(Checks) + 1 =>
  /\ \A i \in Started :
       /\ inst[i].state = "running" /\ now - inst[i].active >= StuckAfter => Said("alert_stuck_workflow", i)
       /\ inst[i].state = "paused" /\ now - inst[i].active >= PausedAfter => Said("alert_abandoned_pause", i)
  /\ \A k \in Stale : Said(k.action, k.subject)
  /\ \A k \in Expiring : InLog(k) \/ Lost(k.action, k.subject)
  /\ LowDisks = {} /\ Leveled = {}

(* "a trigger that recovers and goes stale again alerts again".              *)
StaleAgainIsReported == round = Len(Checks) + 1 =>
  \A k \in Stale : InLog(k) \/ Lost(k.action, k.subject)
=============================================================================

------------------------------- MODULE Guest -------------------------------
(* Commands in a guest and its host name: guestexec.go, the exec side of     *)
(* ssh.go, hostname.go, the end of doRun in vmops.go and the editing of a VM *)
(* ("/api/vm/notes" of handlers.go), for one VM.                             *)
(*                                                                           *)
(* A command goes through the guest agent, or over SSH when the agent does   *)
(* not answer.  Each boot starts a goroutine that probes both and sets the   *)
(* host name, and one that watches for a channel that did not answer yet.    *)
EXTENDS Integers

CONSTANTS
    Editor,        \* requests that change the host name
    MaxGuestBoots, \* bound: boots
    MaxNames       \* bound: host names

ASSUME GuestAssumption == MaxGuestBoots \in Nat /\ MaxNames \in Nat \ {0}

Session == 1..MaxGuestBoots
HostName == 1..MaxNames
Unmanaged == 0
Channel == {"agent", "ssh"}

(* The goroutines: of a boot, those that its watch starts, and of requests.  *)
Goroutine ==
    ({"start", "watch", "later", "later again"} \X Session) \cup ({"edit"} \X Editor)

VARIABLES
    session,   \* VM.StartedAt, as the number of the boot
    up,        \* VM.State is "running", and the guest runs
    answers,   \* the channels that the guest answers
    fallback,  \* cfg.SSHFallbackEnabled
    gone,      \* agentProbedSinceBoot: "unknown", "no" or "yes"
    wanted,    \* desiredHostname
    applied,   \* VM.HostnameApplied
    setting,   \* hostnameBusy
    guestName, \* what the guest is called
    place,     \* where each goroutine is
    naming,    \* the name it sets
    outcome,   \* how its command went through the agent, or over SSH
    okay,      \* the channels that answered it
    news,      \* the watch found one that did not answer before
    astray,    \* auxiliary: a command changed the name and reported no success
    missed     \* auxiliary: boots in which an attempt failed, was refused for
               \* another, or came too late

guestVars == <<session, up, answers, fallback, gone, wanted, applied, setting, guestName,
               place, naming, outcome, okay, news, astray, missed>>
vmVars == <<session, up, answers, fallback, wanted>>
hostVars == <<applied, setting, guestName, astray>>
execVars == <<naming, outcome>>
probeVars == <<okay, news>>

Go(p, s) == place' = [place EXCEPT ![p] = s]
Miss == missed' = missed \cup {session}

-----------------------------------------------------------------------------
(* The VM *)

(* doRun up to the point where the VM is up; the agent cache starts afresh.  *)
(* Another boot may still be probing.                                        *)
BootUp ==
    /\ ~up /\ session < MaxGuestBoots
    /\ up' = TRUE /\ session' = session + 1
    /\ gone' = "unknown"
    /\ Go(<<"start", session + 1>>, "ask agent")
    /\ UNCHANGED <<answers, fallback, wanted, hostVars, execVars, probeVars, missed>>

GoDown ==
    /\ up
    /\ up' = FALSE /\ answers' = {}
    /\ UNCHANGED <<session, fallback, gone, wanted, hostVars, place, execVars, probeVars, missed>>

ChannelUp ==
    /\ up
    /\ \E c \in Channel \ answers : answers' = answers \cup {c}
    /\ UNCHANGED <<session, up, fallback, gone, wanted, hostVars, place, execVars, probeVars,
                   missed>>

-----------------------------------------------------------------------------
(* Probes *)

Hears(p, c, yes) == okay' = [okay EXCEPT ![p] = IF yes THEN @ \cup {c} ELSE @ \ {c}]

(* probeAgent: the guest answers or not,                                     *)
AskAgent(p) ==
    /\ place[p] = "ask agent"
    /\ Hears(p, "agent", "agent" \in answers)
    /\ Go(p, "note agent")
    /\ UNCHANGED <<vmVars, gone, hostVars, execVars, news, missed>>

(* and the answer goes into the cache, whatever boot it is of by now.        *)
NoteAgent(p) ==
    /\ place[p] = "note agent"
    /\ gone' = IF "agent" \in okay[p] THEN "no" ELSE "yes"
    /\ news' = [news EXCEPT ![p] = "agent" \in okay[p]]
    /\ Go(p, IF "ssh" \in okay[p] THEN "settle" ELSE "ask ssh")
    /\ UNCHANGED <<vmVars, hostVars, execVars, okay, missed>>

(* probeSSH                                                                  *)
AskSSH(p) ==
    /\ place[p] = "ask ssh"
    /\ Hears(p, "ssh", fallback /\ "ssh" \in answers)
    /\ news' = [news EXCEPT ![p] = @ \/ (fallback /\ "ssh" \in answers)]
    /\ Go(p, "settle")
    /\ UNCHANGED <<vmVars, gone, hostVars, execVars, missed>>

(* The boot goes on: the watch starts with what was found, and if anything   *)
(* answered the host name is set.                                            *)
Settle(b) ==
    LET p == <<"start", b>>
        w == <<"watch", b>>
    IN  /\ place[p] = "settle"
        /\ okay' = [okay EXCEPT ![w] = okay[p], ![p] = {}]
        /\ news' = [news EXCEPT ![p] = FALSE]
        /\ place' = [place EXCEPT ![w] = "sleep", ![p] = IF okay[p] # {} THEN "apply" ELSE "done"]
        /\ UNCHANGED <<vmVars, gone, hostVars, execVars, missed>>

(* watchGuestChannelsAfterBoot: sleeps and asks, until both answer, the VM   *)
(* stops or boots again, or the window is over.  Without the fallback SSH    *)
(* counts as answering.                                                      *)
WatchWakes(b) ==
    LET w == <<"watch", b>>
        same == up /\ session = b
    IN  /\ place[w] = "sleep"
        /\ IF okay[w] = Channel \/ ~same
           THEN Go(w, "done") /\ okay' = [okay EXCEPT ![w] = {}]
           ELSE /\ okay' = [okay EXCEPT ![w] = IF fallback THEN @ ELSE @ \cup {"ssh"}]
                /\ Go(w, IF "agent" \notin okay[w] THEN "ask agent"
                         ELSE IF fallback THEN "ask ssh" ELSE "settle")
        /\ news' = [news EXCEPT ![w] = FALSE]
        /\ UNCHANGED <<vmVars, gone, hostVars, execVars, missed>>

WatchEnds(b) ==
    LET w == <<"watch", b>> IN
    /\ place[w] = "sleep" /\ okay[w] # Channel
    /\ Go(w, "done")
    /\ okay' = [okay EXCEPT ![w] = {}]
    /\ missed' = missed \cup {b}
    /\ UNCHANGED <<vmVars, gone, hostVars, execVars, news>>

(* A goroutine that sets the host name is started when a channel came up.    *)
Helper(b) == IF place[<<"later", b>>] = "idle" THEN <<"later", b>> ELSE <<"later again", b>>

(* Mutant: only the boot sets the name. *)
WatchSettlesQuietly(b) ==
    LET w == <<"watch", b>> IN
    /\ place[w] = "settle"
    /\ Go(w, "sleep")
    /\ UNCHANGED <<vmVars, gone, hostVars, execVars, probeVars, missed>>

WatchSettles(b) ==
    LET w == <<"watch", b>> IN
    /\ place[w] = "settle"
    /\ place' = [place EXCEPT ![w] = "sleep", ![Helper(b)] = IF news[w] THEN "apply" ELSE @]
    /\ news' = [news EXCEPT ![w] = FALSE]
    /\ UNCHANGED <<vmVars, gone, hostVars, execVars, okay, missed>>

-----------------------------------------------------------------------------
(* The host name *)

(* "/api/vm/notes": another name is wanted; a running VM is to get it.       *)
EditName(e) ==
    LET p == <<"edit", e>> IN
    /\ place[p] = "idle"
    /\ \E n \in HostName : wanted' = n
    /\ Go(p, IF up THEN "apply" ELSE "done")
    /\ UNCHANGED <<session, up, answers, fallback, gone, hostVars, execVars, probeVars, missed>>

(* applyHostnameIfPending: nothing to do, or another is at it.               *)
Pending == wanted # Unmanaged /\ wanted # applied
(* Mutant: several may be at it. *)
MayApplyAnyway == up /\ Pending

MayApply == up /\ ~setting /\ Pending

Refuse(p) ==
    /\ place[p] = "apply" /\ ~MayApply
    /\ Go(p, "done")
    /\ IF Pending THEN Miss ELSE UNCHANGED missed
    /\ UNCHANGED <<vmVars, gone, hostVars, execVars, probeVars>>

Begin(p) ==
    /\ place[p] = "apply" /\ MayApply
    /\ setting' = TRUE
    /\ naming' = [naming EXCEPT ![p] = wanted]
    /\ Go(p, IF gone = "yes" THEN "call ssh" ELSE "call agent")
    /\ UNCHANGED <<vmVars, gone, applied, guestName, astray, outcome, probeVars, missed>>

(* What a command that runs may come to: it works; it fails, perhaps after   *)
(* it did some of its work; it fails and says something that reads like an   *)
(* agent that is not there; or the caller gives up, and it may still run.    *)
Outcomes == {"worked", "failed", "misread", "left"}
Runs(p, e) ==
    /\ outcome' = [outcome EXCEPT ![p] = e]
    /\ \E n \in (IF e = "worked" THEN {naming[p]} ELSE {guestName, naming[p]}) :
          /\ guestName' = n
          /\ astray' = (e # "worked" /\ (astray \/ n # guestName))

(* execViaAgent, and whether it takes the agent to have handled the command. *)
CallAgent(p) ==
    /\ place[p] = "call agent"
    /\ IF "agent" \in answers THEN \E e \in Outcomes : Runs(p, e)
       ELSE UNCHANGED <<outcome, guestName, astray>>
    /\ Go(p, "called")
    /\ UNCHANGED <<vmVars, gone, applied, setting, naming, probeVars, missed>>

Handled(e) == e \in {"worked", "failed", "left"}

(* execInGuest goes on: without an answer, SSH is next, now and for the rest *)
(* of the boot.                                                              *)
AgentAnswered(p) ==
    /\ place[p] = "called"
    /\ IF Handled(outcome[p])
       THEN Go(p, "back") /\ UNCHANGED gone
       ELSE Go(p, IF fallback THEN "call ssh" ELSE "back") /\ gone' = "yes"
    /\ UNCHANGED <<vmVars, hostVars, execVars, probeVars, missed>>

(* sshExecContext, when the fallback is on.                                  *)
CallSSH(p) ==
    /\ place[p] = "call ssh"
    /\ IF fallback /\ "ssh" \in answers THEN \E e \in {"worked", "failed", "left"} : Runs(p, e)
       ELSE UNCHANGED <<outcome, guestName, astray>>
    /\ Go(p, "back")
    /\ UNCHANGED <<vmVars, gone, applied, setting, naming, probeVars, missed>>

(* The name is noted as applied if the command worked,                       *)
Finished(p) ==
    /\ place[p] = "back"
    /\ IF outcome[p] = "worked" THEN applied' = naming[p] /\ UNCHANGED missed
       ELSE UNCHANGED applied /\ Miss
    /\ Go(p, "end")
    /\ UNCHANGED <<vmVars, gone, setting, guestName, astray, execVars, probeVars>>

(* Mutant: the flag is cleared only when the name was set. *)
EndApplyWell(p) ==
    /\ place[p] = "end"
    /\ setting' = (outcome[p] # "worked")
    /\ Go(p, "done")
    /\ naming' = [naming EXCEPT ![p] = Unmanaged]
    /\ outcome' = [outcome EXCEPT ![p] = "none"]
    /\ UNCHANGED <<vmVars, gone, applied, guestName, astray, probeVars, missed>>

(* and hostnameBusy is cleared in a section of its own, the deferred one.    *)
EndApply(p) ==
    /\ place[p] = "end"
    /\ setting' = FALSE
    /\ Go(p, "done")
    /\ naming' = [naming EXCEPT ![p] = Unmanaged]
    /\ outcome' = [outcome EXCEPT ![p] = "none"]
    /\ UNCHANGED <<vmVars, gone, applied, guestName, astray, probeVars, missed>>

-----------------------------------------------------------------------------
GuestInit ==
    /\ session = 0 /\ up = FALSE /\ answers = {}
    /\ fallback \in BOOLEAN
    /\ gone = "unknown"
    /\ wanted \in {Unmanaged, 1}
    /\ applied = Unmanaged /\ setting = FALSE /\ guestName = Unmanaged
    /\ place = [p \in Goroutine |-> "idle"]
    /\ naming = [p \in Goroutine |-> Unmanaged]
    /\ outcome = [p \in Goroutine |-> "none"]
    /\ okay = [p \in Goroutine |-> {}]
    /\ news = [p \in Goroutine |-> FALSE]
    /\ astray = FALSE /\ missed = {}

Probe(p) == AskAgent(p) \/ NoteAgent(p) \/ AskSSH(p)
SetName(p) ==
    \/ Refuse(p) \/ Begin(p) \/ CallAgent(p) \/ AgentAnswered(p) \/ CallSSH(p)
    \/ Finished(p) \/ EndApply(p)
Boots(b) == Settle(b) \/ WatchWakes(b) \/ WatchSettles(b)

GuestNext ==
    \/ BootUp \/ GoDown \/ ChannelUp
    \/ \E p \in Goroutine : Probe(p) \/ SetName(p)
    \/ \E b \in Session : Boots(b) \/ WatchEnds(b)
    \/ \E e \in Editor : EditName(e)

(* Goroutines run on: no call blocks for ever, all have deadlines.           *)
GuestFairness ==
    /\ \A p \in Goroutine : WF_guestVars(Probe(p) \/ SetName(p))
    /\ \A b \in Session : WF_guestVars(Boots(b))

GuestSpec == GuestInit /\ [][GuestNext]_guestVars /\ GuestFairness

-----------------------------------------------------------------------------
(* Types, and that hostnameBusy is set exactly while one goroutine sets the  *)
(* name.                                                                     *)
Place == {"idle", "ask agent", "note agent", "ask ssh", "settle", "sleep", "apply",
          "call agent", "called", "call ssh", "back", "end", "done"}
Sets(p) == place[p] \in {"call agent", "called", "call ssh", "back", "end"}
GuestTypeOK ==
    /\ session \in 0..MaxGuestBoots /\ answers \subseteq Channel
    /\ gone \in {"unknown", "no", "yes"}
    /\ {wanted, applied, guestName} \subseteq HostName \cup {Unmanaged}
    /\ place \in [Goroutine -> Place]
    /\ okay \in [Goroutine -> SUBSET Channel] /\ outcome \in [Goroutine -> Outcomes \cup {"none"}]
    /\ naming \in [Goroutine -> HostName \cup {Unmanaged}] /\ news \in [Goroutine -> BOOLEAN]
    /\ {up, setting, fallback, astray} \subseteq BOOLEAN /\ missed \subseteq 0..MaxGuestBoots
    /\ \A p, q \in Goroutine : Sets(p) /\ Sets(q) => p = q
    /\ setting <=> \E p \in Goroutine : Sets(p)

(* HostnameApplied is the guest's name when nothing is setting it, unless a  *)
(* command that reported no success changed it all the same: two requests    *)
(* and a boot cannot leave the name of one noted and that of another set.    *)
AppliedTrue == ~setting /\ ~astray /\ applied # Unmanaged => guestName = applied

(* A boot gets its host name once a channel answers, however late in the     *)
(* watch's window, unless an attempt fails or is refused for another.        *)
Reachable == "agent" \in answers \/ (fallback /\ "ssh" \in answers)
NameLands ==
    \A b \in Session :
        up /\ session = b /\ Reachable ~>
            ~up \/ session # b \/ b \in missed \/ ~Pending

(* Why: the name is that of a command which worked until it is noted, and    *)
(* nobody else is at it then.  That no goroutine is started over one that    *)
(* still runs needs that the watch reports a channel at most once: those it  *)
(* has started, and the one it is about to, are of different channels.       *)
Worked(p) == place[p] \in {"called", "back"} /\ outcome[p] = "worked"
Probing == {"ask agent", "note agent", "ask ssh", "settle"}
Begun(p) == place[p] # "idle"
Reports(w) == news[w] /\ place[w] # "note agent"
WatchWell(b) ==
    LET w == <<"watch", b>>
        first == Begun(<<"later", b>>)
        second == Begun(<<"later again", b>>)
        known == IF place[w] = "note agent" THEN okay[w] \ {"agent"} ELSE okay[w]
    IN  /\ second => first
        /\ place[w] \in Probing \cup {"sleep"} =>
              /\ first \/ Reports(w) => known # {}
              /\ second \/ (first /\ Reports(w)) => known = Channel
              /\ ~(second /\ Reports(w))
        /\ place[w] = "ask agent" => "agent" \notin okay[w] /\ ~news[w]
        /\ place[w] = "ask ssh" => "ssh" \notin okay[w]
        /\ place[w] \in {"idle", "sleep"} => ~news[w]
        /\ place[w] \in Probing \cup {"idle", "sleep", "done"}
BootWell(b) ==
    /\ place[<<"start", b>>] \in Probing \cup {"idle"} =>
          \A x \in {"watch", "later", "later again"} : ~Begun(<<x, b>>)
    /\ b > session => ~Begun(<<"start", b>>)
GuestInv ==
    /\ GuestTypeOK
    /\ \A p \in Goroutine :
          /\ ~Sets(p) \/ place[p] = "call agent" => outcome[p] = "none"
          /\ place[p] = "call ssh" => outcome[p] # "worked"
          /\ Worked(p) => guestName = naming[p]
    /\ \A b \in Session : BootWell(b) /\ WatchWell(b)
    /\ ~astray /\ applied # Unmanaged /\ guestName # applied => \E p \in Goroutine : Worked(p)
=============================================================================

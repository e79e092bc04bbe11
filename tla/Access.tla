------------------------------- MODULE Access -------------------------------
(* The access token, its sessions and the agent tokens: server/auth.go,      *)
(* auth/auth.go, auth/agent.go, and the token command of the CLI.            *)
(*                                                                           *)
(* auth.json and agent-tokens.json are written by the server and by CLI      *)
(* processes that share no lock with it.  The server keeps what it read      *)
(* last, with the file's modification time, and reads again when that        *)
(* differs; each look is a stat and then a load.                             *)
(*                                                                           *)
(* A file's content is the number of the write that made it, which is its    *)
(* modification time as well: writes have distinct times.  0 is a missing    *)
(* file.  os.WriteFile and os.Rename are a step each.  Who may call what,    *)
(* the login lockout and the expiry of sessions are left out.                *)
EXTENDS Integers, FiniteSets

CONSTANTS
    Caller,     \* requests the server is handling
    Admin,      \* CLI processes
    NoCaller,   \* nobody holds authState.mu
    Job,        \* what each of them may be asked for, as pairs
    MaxWrites   \* bound: writes of the two files

ASSUME AccessAssumption ==
    /\ MaxWrites \in Nat
    /\ Caller \cap Admin = {} /\ NoCaller \notin Caller \cup Admin
    /\ \A j \in Job : j[1] \in Admin => j[2] \notin {"check", "login", "list"}

File == {"auth", "agents"}
Version == 1..MaxWrites
Missing == 0                    \* no file, and what it means: no token
Locked == -1                    \* a hash that matches nothing
Process == Caller \cup Admin
Edits == {"rotate", "revoke", "add", "drop"}
Call == {"check", "login", "list"} \cup Edits

VARIABLES
    file,      \* the two files
    tmp,       \* their temporary files, shared by all who save
    writes,    \* number of the last write
    damaged,   \* versions that cannot be decoded
    value,     \* authState.hash and agents, as read last
    mtime,     \* the times they were read for
    loaded,    \* whether they were read at all
    sessions,  \* browser sessions: what authState.hash was when each was given
    mu,        \* authState.mu
    step,      \* where each request and CLI command is
    call,      \* what it does
    saw,       \* the modification time a look found
    held       \* auxiliary: what the file looked at meant since the request came

accessVars == <<file, tmp, writes, damaged, value, mtime, loaded, sessions, mu, step, call,
                saw, held>>
fileVars == <<file, tmp, writes, damaged>>
cacheVars == <<value, mtime, loaded, sessions>>
localVars == <<call, saw, held>>

Meaning(f, v) ==
    IF v \in damaged THEN IF f = "auth" THEN Locked ELSE Missing ELSE v

Looked(g) == IF call[g] = "list" THEN "agents" ELSE "auth"

(* Every request under way has seen the file as it is now, too.              *)
Written(f, v) ==
    /\ file' = [file EXCEPT ![f] = v]
    /\ held' = [g \in Caller |-> IF call[g] # "none" /\ Looked(g) = f
                                THEN held[g] \cup {Meaning(f, v)} ELSE held[g]]

To(g, s) == step' = [step EXCEPT ![g] = s] /\ UNCHANGED call

Return(g) ==
    /\ step' = [step EXCEPT ![g] = "idle"]
    /\ call' = [call EXCEPT ![g] = "none"]

Ended(g) ==
    /\ Return(g)
    /\ held' = IF g \in Caller THEN [held EXCEPT ![g] = {}] ELSE held

Leave(g) == mu' = IF mu = g THEN NoCaller ELSE mu

-----------------------------------------------------------------------------
(* A request comes, and a CLI command starts *)

FirstStep(c) ==
    CASE c \in {"check", "login", "add", "list"} -> "stat"
      [] c = "rotate" -> "write"
      [] c = "revoke" -> "remove"
      [] c = "drop" -> "read"

Asks(g) ==
    /\ step[g] = "idle"
    /\ \E c \in Call :
          /\ <<g, c>> \in Job
          /\ call' = [call EXCEPT ![g] = c]
          /\ step' = [step EXCEPT ![g] = IF g \in Admin /\ c = "add" THEN "read" ELSE FirstStep(c)]
    /\ held' = IF g \in Admin THEN held
               ELSE LET f == IF call'[g] = "list" THEN "agents" ELSE "auth" IN
                    [held EXCEPT ![g] = {Meaning(f, file[f])}]
    /\ UNCHANGED <<fileVars, cacheVars, mu, saw>>

-----------------------------------------------------------------------------
(* current and agentTokens: the look at a file, under the lock *)

(* What a request does with the v it was told: the guard goes on to the      *)
(* session, a login compares and is given one later, and without a dashboard *)
(* token there are no agent tokens.                                          *)
Told(g, v) ==
    /\ CASE call[g] = "check" -> To(g, "identify") /\ UNCHANGED held
         [] call[g] = "rotate" -> To(g, "session") /\ UNCHANGED held
         [] call[g] = "login" /\ v \in Version -> To(g, "session") /\ UNCHANGED held
         [] call[g] = "add" /\ v # Missing -> To(g, "read") /\ UNCHANGED held
         [] OTHER -> Ended(g)
    /\ saw' = [saw EXCEPT ![g] = Missing]
    /\ mu' = NoCaller

(* Mutant: the sessions stay. *)
RememberToken(f, v, at) ==
    /\ value' = [value EXCEPT ![f] = v]
    /\ mtime' = [mtime EXCEPT ![f] = at]
    /\ loaded' = [loaded EXCEPT ![f] = TRUE]
    /\ UNCHANGED sessions

(* A token that changed ends every session.                                  *)
Remember(f, v, at) ==
    /\ value' = [value EXCEPT ![f] = v]
    /\ mtime' = [mtime EXCEPT ![f] = at]
    /\ loaded' = [loaded EXCEPT ![f] = TRUE]
    /\ sessions' = IF f = "auth" /\ v # value[f] THEN {} ELSE sessions

(* What was read last still counts.                                          *)
Current(f) == loaded[f] /\ mtime[f] = file[f]

Stat(g) ==
    LET f == Looked(g) IN
    /\ step[g] = "stat" /\ mu \in {NoCaller, g}
    /\ CASE file[f] = Missing ->
              Remember(f, Missing, mtime[f]) /\ Told(g, Missing)
         [] file[f] # Missing /\ Current(f) ->
              Told(g, value[f]) /\ UNCHANGED cacheVars
         [] OTHER ->
              /\ To(g, "load") /\ mu' = g
              /\ saw' = [saw EXCEPT ![g] = file[f]]
              /\ UNCHANGED <<cacheVars, held>>
    /\ UNCHANGED fileVars

(* Mutant: the file is read first, and its time looked up afterwards. *)
LoadFirst(g) ==
    LET f == Looked(g) IN
    /\ step[g] = "load"
    /\ Remember(f, Meaning(f, saw[g]), file[f])
    /\ Told(g, Meaning(f, saw[g]))
    /\ UNCHANGED fileVars

Load(g) ==
    LET f == Looked(g) IN
    /\ step[g] = "load"
    /\ Remember(f, Meaning(f, file[f]), saw[g])
    /\ Told(g, Meaning(f, file[f]))
    /\ UNCHANGED fileVars

-----------------------------------------------------------------------------
(* What follows a look *)

(* The guard looks a session up in a section of its own; the sessions are in *)
(* another one than the comparison of the token, which is not repeated.      *)
Identify(g) ==
    /\ step[g] = "identify" /\ mu = NoCaller
    /\ Ended(g)
    /\ UNCHANGED <<fileVars, cacheVars, mu, saw>>

NewSession(g) ==
    /\ step[g] = "session" /\ mu = NoCaller
    /\ sessions' = sessions \cup {value["auth"]}
    /\ Ended(g)
    /\ UNCHANGED <<fileVars, value, mtime, loaded, mu, saw>>

EndSession(s) ==
    /\ s \in sessions
    /\ sessions' = sessions \ {s}
    /\ UNCHANGED <<fileVars, value, mtime, loaded, mu, step, localVars>>

-----------------------------------------------------------------------------
(* Writing: set and the CLI's token commands on auth.json, and agent tokens  *)

Target(g) == IF call[g] \in {"rotate", "revoke"} THEN "auth" ELSE "agents"

(* set holds the lock from its first call to the end of its look; the CLI    *)
(* and the agent tokens take none.                                           *)
Locks(g) == g \in Caller /\ Target(g) = "auth"
Enter(g) == IF Locks(g) THEN mu = NoCaller /\ mu' = g ELSE UNCHANGED mu

(* set, after its write: nothing read before counts, and it looks anew.      *)
Forget ==
    /\ loaded' = [f \in File |-> FALSE]
    /\ value' = [value EXCEPT !["auth"] = Missing]
    /\ sessions' = {}
    /\ UNCHANGED mtime

Saved(g) ==
    /\ CASE g \in Admin -> Return(g) /\ UNCHANGED cacheVars
         [] Locks(g) -> To(g, "stat") /\ Forget
         [] OTHER -> To(g, "invalidate") /\ UNCHANGED cacheVars
    /\ UNCHANGED mu

EditFails(g) ==
    /\ Ended(g) /\ Leave(g)
    /\ UNCHANGED <<fileVars, cacheVars>>

(* Save: the temporary file, then the rename; the disk may be full.          *)
Write(g) ==
    /\ step[g] = "write"
    /\ \/ /\ writes < MaxWrites
          /\ writes' = writes + 1
          /\ tmp' = [tmp EXCEPT ![Target(g)] = writes']
          /\ Enter(g) /\ To(g, "rename")
          /\ UNCHANGED <<file, damaged, held, cacheVars>>
       \/ (Locks(g) => mu = NoCaller) /\ EditFails(g)
    /\ UNCHANGED saw

(* Another save may have renamed the temporary file they share.              *)
Rename(g) ==
    LET f == Target(g) IN
    /\ step[g] = "rename"
    /\ IF tmp[f] = Missing
       THEN EditFails(g)
       ELSE /\ Written(f, tmp[f])
            /\ tmp' = [tmp EXCEPT ![f] = Missing]
            /\ Saved(g)
            /\ UNCHANGED <<writes, damaged>>
    /\ UNCHANGED saw

(* Remove, of the access token: auth.json, then the agent tokens.            *)
RemoveFile(g) ==
    /\ step[g] = "remove" /\ Enter(g)
    /\ Written("auth", Missing)
    /\ To(g, "removeAgents")
    /\ UNCHANGED <<tmp, writes, damaged, cacheVars, saw>>

RemoveAgents(g) ==
    /\ step[g] = "removeAgents"
    /\ \/ Written("agents", Missing) /\ Saved(g) /\ UNCHANGED <<tmp, writes, damaged>>
       \/ EditFails(g)
    /\ UNCHANGED saw

(* AddAgentToken and RevokeAgentToken read the list, and write it; a list    *)
(* that cannot be read, a name that is there already, or is not, and a full  *)
(* disk are errors, and an empty list removes the file.                      *)
ReadAgents(g) ==
    /\ step[g] = "read"
    /\ \/ /\ file["agents"] \notin damaged
          /\ call[g] = "drop" => file["agents"] # Missing
          /\ To(g, "write") /\ UNCHANGED held
       \/ /\ call[g] = "drop" /\ file["agents"] \in Version \ damaged
          /\ To(g, "clear") /\ UNCHANGED held
       \/ Ended(g)
    /\ UNCHANGED <<fileVars, cacheVars, mu, saw>>

Clear(g) ==
    /\ step[g] = "clear"
    /\ Written("agents", Missing)
    /\ Saved(g)
    /\ UNCHANGED <<tmp, writes, damaged, saw>>

InvalidateAgentTokens(g) ==
    /\ step[g] = "invalidate" /\ mu = NoCaller
    /\ loaded' = [loaded EXCEPT !["agents"] = FALSE]
    /\ Ended(g)
    /\ UNCHANGED <<fileVars, value, mtime, sessions, mu, saw>>

(* A file is written by hand, and cannot be decoded.                         *)
Damage(f) ==
    /\ writes < MaxWrites
    /\ writes' = writes + 1
    /\ damaged' = damaged \cup {writes'}
    /\ file' = [file EXCEPT ![f] = writes']
    /\ held' = [g \in Caller |-> IF call[g] # "none" /\ Looked(g) = f
                  THEN held[g] \cup {IF f = "auth" THEN Locked ELSE Missing} ELSE held[g]]
    /\ UNCHANGED <<tmp, cacheVars, mu, step, call, saw>>

-----------------------------------------------------------------------------
AccessInit ==
    /\ file = [f \in File |-> Missing] /\ tmp = [f \in File |-> Missing]
    /\ writes = 0 /\ damaged = {}
    /\ value = [f \in File |-> Missing] /\ mtime = [f \in File |-> Missing]
    /\ loaded = [f \in File |-> FALSE]
    /\ sessions = {}
    /\ mu = NoCaller
    /\ step = [g \in Process |-> "idle"] /\ call = [g \in Process |-> "none"]
    /\ saw = [g \in Process |-> Missing]
    /\ held = [g \in Caller |-> {}]

Handle(g) ==
    \/ Stat(g) \/ Load(g) \/ Identify(g) \/ NewSession(g) \/ InvalidateAgentTokens(g)

Edit(g) ==
    \/ Write(g) \/ Rename(g) \/ RemoveFile(g) \/ RemoveAgents(g) \/ ReadAgents(g) \/ Clear(g)

AccessNext ==
    \/ \E g \in Process : Asks(g) \/ Edit(g)
    \/ \E g \in Caller : Handle(g)
    \/ \E s \in sessions : EndSession(s)
    \/ \E f \in File : Damage(f)

AccessSpec == AccessInit /\ [][AccessNext]_accessVars

-----------------------------------------------------------------------------
Step == {"idle", "stat", "load", "identify", "session", "write", "rename", "remove",
         "removeAgents", "read", "clear", "invalidate"}
AccessTypeOK ==
    /\ file \in [File -> 0..MaxWrites] /\ tmp \in [File -> 0..MaxWrites]
    /\ writes \in 0..MaxWrites /\ damaged \subseteq Version
    /\ value \in [File -> -1..MaxWrites] /\ mtime \in [File -> 0..MaxWrites]
    /\ loaded \in [File -> BOOLEAN]
    /\ sessions \subseteq -1..MaxWrites
    /\ mu \in Caller \cup {NoCaller}
    /\ step \in [Process -> Step] /\ call \in [Process -> Call \cup {"none"}]
    /\ saw \in [Process -> 0..MaxWrites]
    /\ held \in [Caller -> SUBSET (-1..MaxWrites)]

(* A change "takes effect at once": a request goes by a token, and by agent  *)
(* tokens, that the file held at some time since the request came.           *)
Answered(g) ==
    step[g] \in {"stat", "load"} /\ step'[g] \notin {"stat", "load"}
        => value'[Looked(g)] \in held[g]
TakesEffect == [][\A g \in Caller : Answered(g)]_accessVars

(* A browser that was signed in when the token was replaced, by a change     *)
(* made before its request came, is not let in: every session a request may  *)
(* go by was given while the token known was one the file held since then.   *)
(* It says no more: a login that matched the old token, and is given its     *)
(* session only when the new one is known, is signed in like one that knew   *)
(* the new one, since newSession does not compare again.                     *)
SignedOut ==
    \A g \in Caller : step[g] = "identify" => sessions \subseteq held[g]

(* Why.  Requests are where their calls are made, and hold the lock from a   *)
(* look or a change of the access token to its end.                          *)
ChangesToken(g) == call[g] \in {"rotate", "revoke"}
PlaceWell(g) ==
    /\ step[g] = "idle" <=> call[g] = "none"
    /\ step[g] = "identify" => call[g] = "check"
    /\ step[g] = "session" => call[g] \in {"login", "rotate"}
    /\ step[g] \in {"write", "rename"} => call[g] \in {"rotate", "add", "drop"}
    /\ step[g] \in {"remove", "removeAgents"} => call[g] = "revoke"
    /\ step[g] \in {"read", "clear", "invalidate"} => call[g] \in {"add", "drop"}
    /\ g \in Admin => step[g] \notin {"stat", "load", "identify", "session", "invalidate"}
    /\ g \in Caller /\ ChangesToken(g) /\ step[g] \in {"stat", "rename", "removeAgents"} => mu = g
    /\ step[g] = "load" => mu = g

(* A version gets into a file once: what is in a temporary file was in none, *)
(* and what has been seen of a file is none that is still to come.           *)
Fresh(f, v) == v # Missing => v # tmp[f]
VersionsWell ==
    /\ damaged \subseteq 1..writes
    /\ \A f \in File :
          /\ {file[f], tmp[f], mtime[f]} \subseteq 0..writes
          /\ Fresh(f, file[f]) /\ Fresh(f, mtime[f])
          /\ tmp[f] \notin damaged
          /\ loaded[f] /\ mtime[f] = file[f] /\ file[f] # Missing => value[f] = Meaning(f, file[f])
    /\ \A g \in Caller : step[g] = "load" =>
          saw[g] \in 1..writes /\ Fresh(Looked(g), saw[g])

(* Nothing is known of the access token: it was changed, and not yet looked  *)
(* at anew.                                                                  *)
Anew == \E g \in Caller : ChangesToken(g) /\ step[g] \in {"stat", "load"}

AccessInv ==
    /\ AccessTypeOK /\ SignedOut
    /\ \A g \in Process : PlaceWell(g)
    /\ VersionsWell
    /\ \A g \in Caller : call[g] # "none" => Meaning(Looked(g), file[Looked(g)]) \in held[g]
    /\ \A g \in Caller : step[g] = "identify" /\ ~Anew => value["auth"] \in held[g]
    /\ sessions \subseteq {value["auth"]}
=============================================================================

---------------------------- MODULE AccessProofs ----------------------------
(***************************************************************************)
(* Theorems about Access for every set of requests and CLI processes, any  *)
(* jobs they may have, and any number of writes.                           *)
(***************************************************************************)
EXTENDS Access, TLAPS

-----------------------------------------------------------------------------
(* What the steps of one process leave to the others *)

\* g is at s now, and does c.
Moves(g, s, c) == step' = [step EXCEPT ![g] = s] /\ call' = [call EXCEPT ![g] = c]

LEMMA ToMoves ==
  ASSUME AccessInv, NEW g \in Process
  PROVE  /\ \A s : To(g, s) => Moves(g, s, call[g])
         /\ Ended(g) => Moves(g, "idle", "none")
         /\ Return(g) => Moves(g, "idle", "none")
BY DEF AccessInv, AccessTypeOK, To, Ended, Return, Moves

LEMMA MovesOne ==
  ASSUME AccessInv, NEW g \in Process, NEW s, NEW c, Moves(g, s, c)
  PROVE  /\ step'[g] = s /\ call'[g] = c
         /\ \A h \in Process \ {g} : step'[h] = step[h] /\ call'[h] = call[h]
         /\ s \in Step => step' \in [Process -> Step]
         /\ c \in Call \cup {"none"} => call' \in [Process -> Call \cup {"none"}]
BY DEF AccessInv, AccessTypeOK, Moves

\* Who holds the lock goes on holding it: g takes it when it is free, and leaves only
\* its own.
LEMMA PlacesKept ==
  ASSUME AccessInv, NEW g \in Process, NEW s, NEW c, Moves(g, s, c),
         mu' = mu \/ mu \in {NoCaller, g}, PlaceWell(g)'
  PROVE  \A h \in Process : PlaceWell(h)'
<1>1. ASSUME NEW h \in Process \ {g} PROVE PlaceWell(h)'
  <2>1. step'[h] = step[h] /\ call'[h] = call[h]
    BY MovesOne
  <2>2. PlaceWell(h) /\ h # NoCaller
    BY AccessAssumption DEF AccessInv, Process
  <2> QED BY <2>1, <2>2 DEF PlaceWell, ChangesToken
<1> QED BY <1>1

\* The two files, and what was read of them, are as they were.
LEMMA MeaningKept ==
  ASSUME AccessInv, NEW f \in File, NEW v \in 0..writes,
         damaged' = damaged \/ damaged' = damaged \cup {writes + 1}
  PROVE  Meaning(f, v)' = Meaning(f, v)
<1>1. v # writes + 1
  BY AccessAssumption DEF AccessInv, AccessTypeOK
<1> QED BY <1>1 DEF Meaning

\* What AccessInv says of one request, beside its place.
RequestWell(g) ==
    /\ step[g] = "load" => saw[g] \in 1..writes /\ Fresh(Looked(g), saw[g])
    /\ call[g] # "none" => Meaning(Looked(g), file[Looked(g)]) \in held[g]
    /\ step[g] = "identify" =>
          sessions \subseteq held[g] /\ (~Anew => value["auth"] \in held[g])

\* What a process keeps of its own is its own to change.
OwnType ==
    /\ mu' \in Caller \cup {NoCaller}
    /\ saw' \in [Process -> 0..MaxWrites]
    /\ held' \in [Caller -> SUBSET (-1..MaxWrites)]
OwnOnly(g) ==
    /\ \A h \in Process \ {g} : saw'[h] = saw[h]
    /\ \A h \in Caller \ {g} : held'[h] = held[h]

\* A change of the access token is looked at by a process that does not go elsewhere.
LEMMA AnewKept ==
  ASSUME AccessInv, NEW g \in Process, NEW s, NEW c, Moves(g, s, c),
         step[g] \in {"stat", "load"} => s = "load" /\ c = call[g]
  PROVE  Anew => Anew'
<1>1. ASSUME NEW h \in Caller, ChangesToken(h), step[h] \in {"stat", "load"}
      PROVE  ChangesToken(h)' /\ step'[h] \in {"stat", "load"}
  BY <1>1, MovesOne DEF Process, ChangesToken
<1> QED BY <1>1 DEF Anew

\* A step that leaves the files and what was read of them alone has to be right for the
\* process that takes it; a session it starts is under what was read, while nobody
\* looks at a change.
LEMMA QuietFiles ==
  ASSUME AccessInv, NEW g \in Process, NEW s \in Step, NEW c \in Call \cup {"none"},
         Moves(g, s, c), UNCHANGED <<fileVars, value, mtime>>,
         step[g] \in {"stat", "load"} => s = "load" /\ c = call[g],
         loaded' \in [File -> BOOLEAN], \A f \in File : loaded'[f] => loaded[f],
         sessions' \subseteq sessions \/ (sessions' = sessions \cup {value["auth"]} /\ ~Anew),
         mu' = mu \/ mu \in {NoCaller, g}, OwnType, OwnOnly(g), PlaceWell(g)',
         g \in Caller => RequestWell(g)'
  PROVE  AccessInv'
<1> USE DEF fileVars
<1>1. AccessTypeOK'
  <2>1. value["auth"] \in -1..MaxWrites
    BY DEF AccessInv, AccessTypeOK, File
  <2> QED BY <2>1, MovesOne DEF AccessInv, AccessTypeOK, OwnType
<1>2. \A h \in Process : PlaceWell(h)'
  BY PlacesKept
<1>3. ASSUME NEW h \in Process \ {g} PROVE step'[h] = step[h] /\ call'[h] = call[h]
  BY MovesOne
<1>4. Anew => Anew'
  BY AnewKept
<1>5. sessions' \subseteq {value'["auth"]}
  BY DEF AccessInv
<1>6. ASSUME NEW h \in Caller PROVE RequestWell(h)'
  <2>1. CASE h # g
    <3>1. step'[h] = step[h] /\ call'[h] = call[h] /\ saw'[h] = saw[h]
          /\ held'[h] = held[h] /\ h \in Process
      BY <1>3, <2>1 DEF OwnOnly, Process
    <3>2. step'[h] = "identify" =>
            sessions' \subseteq held'[h] /\ (~Anew' => value'["auth"] \in held'[h])
      BY <1>4, <3>1 DEF AccessInv, SignedOut
    <3> QED BY <3>1, <3>2 DEF AccessInv, VersionsWell, RequestWell, Looked, Meaning, Fresh
  <2> QED BY <2>1
<1>7. VersionsWell'
  BY <1>6 DEF AccessInv, VersionsWell, Meaning, Fresh, RequestWell
<1>8. SignedOut' /\ \A h \in Caller : step'[h] = "identify" /\ ~Anew' => value'["auth"] \in held'[h]
  BY <1>6 DEF SignedOut, RequestWell
<1>9. \A h \in Caller : call'[h] # "none" => Meaning(Looked(h), file[Looked(h)])' \in held'[h]
  BY <1>6 DEF RequestWell
<1> QED BY <1>1, <1>2, <1>5, <1>7, <1>8, <1>9 DEF AccessInv

LEMMA Quiet ==
  ASSUME AccessInv, NEW g \in Process, NEW s \in Step, NEW c \in Call \cup {"none"},
         Moves(g, s, c), UNCHANGED <<fileVars, cacheVars>>,
         step[g] \in {"stat", "load"} => s = "load" /\ c = call[g],
         mu' = mu \/ mu \in {NoCaller, g}, OwnType, OwnOnly(g), PlaceWell(g)',
         g \in Caller => RequestWell(g)'
  PROVE  AccessInv'
<1>1. /\ loaded' \in [File -> BOOLEAN] /\ \A f \in File : loaded'[f] => loaded[f]
      /\ sessions' \subseteq sessions /\ UNCHANGED <<fileVars, value, mtime>>
  BY DEF cacheVars, AccessInv, AccessTypeOK
<1>2. UNCHANGED <<fileVars, value, mtime>>
  BY <1>1
<1> QED BY <1>1, <1>2, QuietFiles

-----------------------------------------------------------------------------
(* Steps that leave the files, the cache and the sessions alone *)

LEMMA AsksKeeps ==
  ASSUME AccessInv, NEW g \in Process, Asks(g)
  PROVE  AccessInv'
<1>1. PICK c \in Call :
        /\ <<g, c>> \in Job
        /\ call' = [call EXCEPT ![g] = c]
        /\ step' = [step EXCEPT ![g] = IF g \in Admin /\ c = "add" THEN "read" ELSE FirstStep(c)]
  BY DEF Asks
<1> DEFINE s == IF g \in Admin /\ c = "add" THEN "read" ELSE FirstStep(c)
           f == IF c = "list" THEN "agents" ELSE "auth"
<1>2. /\ c \in {"check", "login", "list"} => s = "stat" /\ g \in Caller
      /\ c = "add" => s = IF g \in Admin THEN "read" ELSE "stat"
      /\ c = "rotate" => s = "write"
      /\ c = "revoke" => s = "remove"
      /\ c = "drop" => s = "read"
  <2>1. c \in {"check", "login", "list"} => g \in Caller
    <3>1. <<g, c>>[1] = g /\ <<g, c>>[2] = c
      OBVIOUS
    <3> QED BY <1>1, <3>1, AccessAssumption DEF Process
  <2>2. FirstStep(c) = IF c \in {"check", "login", "add", "list"} THEN "stat"
                       ELSE IF c = "rotate" THEN "write"
                       ELSE IF c = "revoke" THEN "remove" ELSE "read"
    BY DEF FirstStep, Call, Edits
  <2> QED BY <2>1, <2>2 DEF Process
<1>3. s \in Step /\ s # "idle" /\ Moves(g, s, c)
  BY <1>1, <1>2 DEF Step, Moves, Call, Edits
<1>4. step[g] = "idle" /\ call[g] = "none" /\ UNCHANGED <<fileVars, cacheVars, mu, saw>>
  BY DEF Asks, AccessInv, PlaceWell
<1>5. held' = IF g \in Admin THEN held ELSE [held EXCEPT ![g] = {Meaning(f, file[f])}]
  <2>1. call'[g] = c
    BY <1>1 DEF AccessInv, AccessTypeOK
  <2> QED BY <2>1 DEF Asks
<1>6. f \in File /\ Meaning(f, file[f]) \in -1..MaxWrites
  BY AccessAssumption DEF File, AccessInv, AccessTypeOK, Meaning, Locked, Missing
<1>7. OwnType /\ OwnOnly(g)
  BY <1>4, <1>5, <1>6, AccessAssumption DEF OwnType, OwnOnly, AccessInv, AccessTypeOK, Process
<1>8. step'[g] = s /\ call'[g] = c
  BY <1>3, MovesOne
<1>9. PlaceWell(g)'
  BY <1>2, <1>8, AccessAssumption DEF PlaceWell, ChangesToken, Call, Edits, Process
<1>10. ASSUME g \in Caller PROVE RequestWell(g)'
  <2>1. held'[g] = {Meaning(f, file[f])} /\ UNCHANGED damaged
    BY <1>4, <1>5, <1>6, <1>10, AccessAssumption DEF AccessInv, AccessTypeOK, fileVars
  <2>2. RequestWell(g)'
    BY <1>2, <1>4, <1>8, <2>1 DEF RequestWell, Looked, Meaning, fileVars, Call, Edits
  <2> QED BY <2>2
<1> HIDE DEF s
<1> QED BY <1>3, <1>4, <1>7, <1>9, <1>10, Quiet

LEMMA IdentifyKeeps ==
  ASSUME AccessInv, NEW g \in Caller, Identify(g)
  PROVE  AccessInv'
<1>1. g \in Process /\ Moves(g, "idle", "none")
  BY ToMoves DEF Identify, Process
<1>2. /\ UNCHANGED <<fileVars, cacheVars, mu, saw>>
      /\ held' = [held EXCEPT ![g] = {}]
      /\ step[g] = "identify"
  BY DEF Identify, Ended
<1>3. OwnType /\ OwnOnly(g)
  BY <1>2 DEF OwnType, OwnOnly, AccessInv, AccessTypeOK
<1>4. step'[g] = "idle" /\ call'[g] = "none"
  BY <1>1, MovesOne
<1>5. PlaceWell(g)'
  BY <1>4 DEF PlaceWell, ChangesToken
<1>6. RequestWell(g)'
  BY <1>2, <1>4 DEF RequestWell
<1> QED BY <1>1, <1>2, <1>3, <1>5, <1>6, Quiet DEF Step

\* A change that fails leaves nothing but its lock.
LEMMA FailingKeeps ==
  ASSUME AccessInv, NEW g \in Process, EditFails(g), UNCHANGED saw,
         step[g] \in {"write", "rename", "removeAgents"}, Locks(g) => mu \in {NoCaller, g}
  PROVE  AccessInv'
<1>1. Moves(g, "idle", "none")
  BY ToMoves DEF EditFails
<1>2. /\ UNCHANGED <<fileVars, cacheVars>>
      /\ held' = IF g \in Caller THEN [held EXCEPT ![g] = {}] ELSE held
      /\ mu' = IF mu = g THEN NoCaller ELSE mu
  BY DEF EditFails, Ended, Leave
<1>3. OwnType /\ OwnOnly(g)
  BY <1>2, AccessAssumption DEF OwnType, OwnOnly, AccessInv, AccessTypeOK, Missing
<1>4. step'[g] = "idle" /\ call'[g] = "none"
  BY <1>1, MovesOne
<1>5. PlaceWell(g)'
  BY <1>4, AccessAssumption DEF PlaceWell, ChangesToken
<1>6. RequestWell(g)'
  BY <1>4 DEF RequestWell
<1> QED BY <1>1, <1>2, <1>3, <1>5, <1>6, Quiet DEF Step

LEMMA ReadAgentsKeeps ==
  ASSUME AccessInv, NEW g \in Process, ReadAgents(g)
  PROVE  AccessInv'
<1>1. /\ step[g] = "read" /\ call[g] \in {"add", "drop"}
      /\ UNCHANGED <<fileVars, cacheVars, mu, saw>>
  BY DEF ReadAgents, AccessInv, PlaceWell
<1>2. ASSUME NEW s \in {"write", "clear"}, To(g, s), UNCHANGED held PROVE AccessInv'
  <2>1. Moves(g, s, call[g])
    BY <1>2, ToMoves
  <2>2. step'[g] = s /\ call'[g] = call[g]
    BY <2>1, MovesOne
  <2>3. OwnType /\ OwnOnly(g)
    BY <1>1, <1>2 DEF OwnType, OwnOnly, AccessInv, AccessTypeOK
  <2>4. PlaceWell(g)'
    BY <1>1, <2>2 DEF PlaceWell, ChangesToken
  <2>5. g \in Caller => RequestWell(g)'
    BY <1>1, <1>2, <2>2 DEF AccessInv, RequestWell, Looked, Meaning, fileVars
  <2> QED BY <1>1, <1>2, <2>1, <2>3, <2>4, <2>5, Quiet DEF Step, Call, Edits
<1>3. CASE Ended(g)
  <2>1. Moves(g, "idle", "none")
    BY <1>3, ToMoves
  <2>2. step'[g] = "idle" /\ call'[g] = "none"
    BY <2>1, MovesOne
  <2>3. OwnType /\ OwnOnly(g)
    BY <1>1, <1>3 DEF OwnType, OwnOnly, AccessInv, AccessTypeOK, Ended
  <2>4. PlaceWell(g)'
    BY <2>2, AccessAssumption DEF PlaceWell, ChangesToken
  <2>5. g \in Caller => RequestWell(g)'
    BY <2>2 DEF RequestWell
  <2> QED BY <1>1, <2>1, <2>3, <2>4, <2>5, Quiet DEF Step
<1> QED BY <1>2, <1>3 DEF ReadAgents

-----------------------------------------------------------------------------
(* Looks *)

\* Where a request goes when it was told v.
LEMMA ToldMoves ==
  ASSUME AccessInv, NEW g \in Caller, step[g] \in {"stat", "load"}, NEW v, Told(g, v)
  PROVE  /\ mu' = NoCaller /\ saw' = [saw EXCEPT ![g] = Missing]
         /\ \/ call[g] = "check" /\ Moves(g, "identify", call[g]) /\ UNCHANGED held
            \/ call[g] \in {"rotate", "login"} /\ Moves(g, "session", call[g]) /\ UNCHANGED held
            \/ call[g] = "add" /\ Moves(g, "read", call[g]) /\ UNCHANGED held
            \/ /\ call[g] \notin {"check", "rotate"} /\ Moves(g, "idle", "none")
               /\ held' = [held EXCEPT ![g] = {}]
<1>1. g \in Process
  BY DEF Process
<1>2. mu' = NoCaller /\ saw' = [saw EXCEPT ![g] = Missing]
  BY Zenon DEF Told
<1>3. \/ call[g] = "check" /\ To(g, "identify") /\ UNCHANGED held
      \/ call[g] = "rotate" /\ To(g, "session") /\ UNCHANGED held
      \/ call[g] = "login" /\ v \in Version /\ To(g, "session") /\ UNCHANGED held
      \/ call[g] = "add" /\ v # Missing /\ To(g, "read") /\ UNCHANGED held
      \/ /\ ~(call[g] = "check") /\ ~(call[g] = "rotate")
         /\ ~(call[g] = "login" /\ v \in Version) /\ Ended(g)
  BY Zenon DEF Told
<1>4. Ended(g) => held' = [held EXCEPT ![g] = {}]
  BY DEF Ended
<1> QED BY <1>1, <1>2, <1>3, <1>4, ToMoves

\* What a look reports and remembers is what the file means, and it ends every session
\* when that is another token than was known.
LEMMA LookKeeps ==
  ASSUME AccessInv, NEW g \in Caller, step[g] \in {"stat", "load"}, mu \in {NoCaller, g},
         NEW f, f = Looked(g), NEW v, v = Meaning(f, file[f]), Told(g, v),
         UNCHANGED fileVars,
         value' = [value EXCEPT ![f] = v],
         mtime' = mtime \/ \E at \in 0..writes : mtime' = [mtime EXCEPT ![f] = at] /\ Fresh(f, at),
         loaded' = loaded \/ loaded' = [loaded EXCEPT ![f] = TRUE],
         sessions' = IF f = "auth" /\ v # value[f] THEN {} ELSE sessions
  PROVE  AccessInv'
<1> USE DEF fileVars
<1>1. g \in Process /\ f \in File /\ v \in -1..MaxWrites /\ PlaceWell(g) /\ call[g] # "none"
  BY AccessAssumption DEF Process, AccessInv, AccessTypeOK, Looked, File, Meaning, Locked, Missing, PlaceWell
<1>2. PICK s \in {"identify", "session", "read", "idle"}, c \in {call[g], "none"} : Moves(g, s, c)
  BY <1>1, ToldMoves
<1>3. /\ step'[g] = s /\ call'[g] = c
      /\ \A h \in Process \ {g} : step'[h] = step[h] /\ call'[h] = call[h]
  BY <1>1, <1>2, MovesOne
<1>4. \/ call[g] = "check" /\ s = "identify" /\ c = call[g] /\ UNCHANGED held
      \/ call[g] \in {"rotate", "login"} /\ s = "session" /\ c = call[g] /\ UNCHANGED held
      \/ call[g] = "add" /\ s = "read" /\ c = call[g] /\ UNCHANGED held
      \/ /\ call[g] \notin {"check", "rotate"} /\ s = "idle" /\ c = "none"
         /\ held' = [held EXCEPT ![g] = {}]
  BY <1>1, <1>3, ToldMoves, MovesOne
<1>5. mu' = NoCaller /\ saw' = [saw EXCEPT ![g] = Missing]
  BY <1>1, ToldMoves
<1>6. AccessTypeOK'
  <2>1. step' \in [Process -> Step] /\ call' \in [Process -> Call \cup {"none"}]
    BY <1>1, <1>2, MovesOne DEF Step, AccessInv, AccessTypeOK
  <2>2. held' \in [Caller -> SUBSET (-1..MaxWrites)]
    BY <1>1, <1>4 DEF AccessInv, AccessTypeOK, Version
  <2>3. mtime' \in [File -> 0..MaxWrites]
    BY AccessAssumption DEF AccessInv, AccessTypeOK
  <2>4. sessions' \subseteq -1..MaxWrites
    BY DEF AccessInv, AccessTypeOK
  <2>5. value' \in [File -> -1..MaxWrites]
    BY <1>1 DEF AccessInv, AccessTypeOK
  <2>6. loaded' \in [File -> BOOLEAN]
    BY <1>1 DEF AccessInv, AccessTypeOK
  <2>7. saw' \in [Process -> 0..MaxWrites]
    BY <1>1, <1>5, AccessAssumption DEF AccessInv, AccessTypeOK, Missing
  <2> QED BY <1>5, <2>1, <2>2, <2>3, <2>4, <2>5, <2>6, <2>7 DEF AccessInv, AccessTypeOK
<1>7. \A h \in Process : PlaceWell(h)'
  <2>1. PlaceWell(g)'
    BY <1>1, <1>3, <1>4, <1>5, AccessAssumption DEF PlaceWell, ChangesToken, Process
  <2> QED BY <1>1, <1>2, <1>5, <2>1, PlacesKept
<1>8. VersionsWell'
  <2>1. ASSUME NEW h \in Caller, step'[h] = "load" PROVE saw'[h] \in 1..writes' /\ Fresh(Looked(h), saw[h])'
    <3>1. h # g /\ h \in Process /\ step[h] = "load" /\ call'[h] = call[h]
      BY <1>3, <2>1 DEF Process
    <3>2. saw'[h] = saw[h]
      BY <1>1, <1>5, <3>1 DEF AccessInv, AccessTypeOK
    <3> QED BY <3>1, <3>2 DEF AccessInv, VersionsWell, Fresh, Looked
  <2>2. ASSUME NEW k \in File
        PROVE  /\ {file[k], tmp[k], mtime[k]}' \subseteq 0..writes'
               /\ Fresh(k, file[k])' /\ Fresh(k, mtime[k])' /\ tmp'[k] \notin damaged'
               /\ (loaded[k] /\ mtime[k] = file[k] /\ file[k] # Missing => value[k] = Meaning(k, file[k]))'
    <3>1. CASE k = f
      BY <1>1, <3>1 DEF AccessInv, AccessTypeOK, VersionsWell, Fresh, Meaning
    <3>2. CASE k # f
      BY <1>1, <3>2 DEF AccessInv, AccessTypeOK, VersionsWell, Fresh, Meaning
    <3> QED BY <3>1, <3>2
  <2> QED BY <2>1, <2>2 DEF AccessInv, VersionsWell
<1>9. value'["auth"] = IF f = "auth" THEN v ELSE value["auth"]
  BY <1>1 DEF AccessInv, AccessTypeOK, File
<1>10. \A h \in Caller : call'[h] # "none" => Meaning(Looked(h), file[Looked(h)])' \in held'[h]
  <2>1. ASSUME NEW h \in Caller, call'[h] # "none" PROVE held'[h] = held[h] /\ call'[h] = call[h]
    BY <1>1, <1>3, <1>4, <2>1 DEF Process, AccessInv, AccessTypeOK
  <2> QED BY <2>1 DEF AccessInv, Looked, Meaning
<1>11. sessions' \subseteq {value'["auth"]}
  BY <1>9 DEF AccessInv
<1>12. ASSUME NEW h \in Caller, step'[h] = "identify", ~Anew' PROVE value'["auth"] \in held'[h]
  <2>1. PlaceWell(h)' /\ h \in Process
    BY <1>7 DEF Process
  <2>2. Looked(h)' = "auth" /\ call'[h] # "none"
    BY <1>12, <2>1 DEF PlaceWell, Looked
  <2>3. CASE f = "auth"
    <3>1. Meaning(Looked(h), file[Looked(h)])' = v
      BY <2>2, <2>3 DEF Meaning
    <3> QED BY <1>9, <1>10, <2>2, <2>3, <3>1
  <2>4. CASE f # "auth"
    <3>1. call[g] = "list" /\ h # g
      BY <1>3, <1>4, <1>12, <2>4 DEF Looked
    <3>2. step[h] = "identify" /\ held'[h] = held[h]
      BY <1>3, <1>4, <1>12, <2>1, <3>1 DEF AccessInv, AccessTypeOK
    <3>3. ASSUME NEW k \in Caller, ChangesToken(k), step[k] \in {"stat", "load"}
          PROVE  ChangesToken(k)' /\ step'[k] \in {"stat", "load"}
      BY <1>3, <3>1, <3>3 DEF ChangesToken, Process
    <3> QED BY <1>9, <1>12, <2>4, <3>2, <3>3 DEF AccessInv, Anew
  <2> QED BY <2>3, <2>4
<1>13. SignedOut'
  <2>1. ASSUME NEW h \in Caller, step'[h] = "identify" PROVE sessions' \subseteq held'[h]
    <3>1. CASE h = g
      <4>1. call[g] = "check" /\ held'[g] = held[g] /\ f = "auth"
        BY <1>3, <1>4, <2>1, <3>1 DEF Looked
      <4>2. v \in held[g]
        BY <1>1 DEF AccessInv
      <4> QED BY <1>9, <1>11, <3>1, <4>1, <4>2
    <3>2. CASE h # g
      <4>1. step[h] = "identify" /\ held'[h] = held[h]
        BY <1>3, <1>4, <2>1, <3>2 DEF Process, AccessInv, AccessTypeOK
      <4> QED BY <4>1 DEF AccessInv, SignedOut
    <3> QED BY <3>1, <3>2
  <2> QED BY <2>1 DEF SignedOut
<1> QED BY <1>6, <1>7, <1>8, <1>10, <1>11, <1>12, <1>13 DEF AccessInv

LEMMA StatKeeps ==
  ASSUME AccessInv, NEW g \in Caller, Stat(g)
  PROVE  AccessInv'
<1> DEFINE f == Looked(g)
<1>1. /\ step[g] = "stat" /\ mu \in {NoCaller, g} /\ UNCHANGED fileVars
      /\ \/ file[f] = Missing /\ Remember(f, Missing, mtime[f]) /\ Told(g, Missing)
         \/ file[f] # Missing /\ Current(f) /\ Told(g, value[f]) /\ UNCHANGED cacheVars
         \/ /\ file[f] # Missing /\ To(g, "load") /\ mu' = g
            /\ saw' = [saw EXCEPT ![g] = file[f]]
            /\ UNCHANGED <<cacheVars, held>>
  BY Zenon DEF Stat
<1>2. f \in File /\ g \in Process
  BY DEF Looked, File, Process
<1>3. CASE file[f] = Missing /\ Remember(f, Missing, mtime[f]) /\ Told(g, Missing)
  <2>1. Meaning(f, file[f]) = Missing
    BY <1>3 DEF Meaning, AccessInv, VersionsWell, Missing
  <2>2. mtime' = mtime /\ loaded' = [loaded EXCEPT ![f] = TRUE]
        /\ value' = [value EXCEPT ![f] = Missing]
        /\ sessions' = IF f = "auth" /\ Missing # value[f] THEN {} ELSE sessions
    BY <1>2, <1>3 DEF Remember, AccessInv, AccessTypeOK
  <2> QED BY <1>1, <1>3, <2>1, <2>2, LookKeeps
<1>4. CASE file[f] # Missing /\ Current(f) /\ Told(g, value[f]) /\ UNCHANGED cacheVars
  <2>1. value[f] = Meaning(f, file[f])
    BY <1>2, <1>4 DEF Current, AccessInv, VersionsWell
  <2>2. value' = [value EXCEPT ![f] = value[f]] /\ mtime' = mtime /\ loaded' = loaded
        /\ sessions' = IF f = "auth" /\ value[f] # value[f] THEN {} ELSE sessions
    BY <1>2, <1>4 DEF cacheVars, AccessInv, AccessTypeOK
  <2> QED BY <1>1, <1>4, <2>1, <2>2, LookKeeps
<1>5. CASE /\ file[f] # Missing /\ To(g, "load") /\ mu' = g
           /\ saw' = [saw EXCEPT ![g] = file[f]]
           /\ UNCHANGED <<cacheVars, held>>
  <2>1. Moves(g, "load", call[g])
    BY <1>2, <1>5, ToMoves
  <2>2. step'[g] = "load" /\ call'[g] = call[g] /\ saw'[g] = file[f] /\ mu' = g
    BY <1>2, <1>5, <2>1, MovesOne DEF AccessInv, AccessTypeOK
  <2>3. OwnType /\ OwnOnly(g)
    BY <1>2, <1>5 DEF OwnType, OwnOnly, AccessInv, AccessTypeOK
  <2>4. PlaceWell(g)'
    BY <1>1, <1>2, <2>2, AccessAssumption DEF PlaceWell, ChangesToken, AccessInv, Process
  <2>5. file[f] \in 1..writes /\ Fresh(f, file[f])
    BY <1>2, <1>5 DEF AccessInv, AccessTypeOK, VersionsWell, Missing
  <2>6. RequestWell(g)'
    BY <1>1, <1>5, <2>2, <2>5 DEF RequestWell, AccessInv, Fresh, fileVars, Looked, Meaning
  <2>7. call[g] \in Call \cup {"none"}
    BY <1>2 DEF AccessInv, AccessTypeOK
  <2> QED BY <1>1, <1>2, <1>5, <2>1, <2>3, <2>4, <2>6, <2>7, Quiet DEF Step
<1> QED BY <1>1, <1>3, <1>4, <1>5

LEMMA LoadKeeps ==
  ASSUME AccessInv, NEW g \in Caller, Load(g)
  PROVE  AccessInv'
<1> DEFINE f == Looked(g)
<1>1. /\ step[g] = "load" /\ UNCHANGED fileVars
      /\ Remember(f, Meaning(f, file[f]), saw[g]) /\ Told(g, Meaning(f, file[f]))
  BY DEF Load
<1>2. saw[g] \in 0..writes /\ Fresh(f, saw[g]) /\ mu = g
  BY <1>1 DEF AccessInv, VersionsWell, PlaceWell, Process
<1> QED BY <1>1, <1>2, LookKeeps DEF Remember

-----------------------------------------------------------------------------
(* Changes of a file *)

\* A file gets a version that was in none before, or is removed, and every request
\* under way sees it.
Changed(f, v) ==
    /\ file' = [file EXCEPT ![f] = v]
    /\ held' = [h \in Caller |-> IF call[h] # "none" /\ Looked(h) = f
                                 THEN held[h] \cup {Meaning(f, v)'} ELSE held[h]]
    /\ \/ writes' = writes /\ damaged' = damaged /\ (v = Missing \/ (v = tmp[f] /\ tmp'[f] = Missing))
       \/ writes' = writes + 1 /\ damaged' = damaged \cup {v} /\ v = writes + 1
    /\ tmp' = tmp \/ tmp' = [tmp EXCEPT ![f] = Missing]

LEMMA ChangedFacts ==
  ASSUME AccessInv, NEW f \in File, NEW v, Changed(f, v), writes' \in 0..MaxWrites
  PROVE  /\ v \in 0..writes' /\ damaged' \subseteq 1..writes' /\ writes <= writes'
         /\ \A k \in File : {file'[k], tmp'[k]} \subseteq 0..writes' /\ tmp'[k] \notin damaged'
         /\ \A k \in File : Fresh(k, file[k])'
         /\ \A k \in File : \A x \in 0..writes : Fresh(k, x) => Fresh(k, x)'
         /\ \A x \in 0..writes : Fresh(f, x) /\ x # Missing => file'[f] # x
         /\ \A k \in File : \A x \in 0..writes : Meaning(k, x)' = Meaning(k, x)
         /\ held' \in [Caller -> SUBSET (-1..MaxWrites)]
         /\ \A h \in Caller : held[h] \subseteq held'[h]
         /\ \A h \in Caller : call[h] # "none" => Meaning(Looked(h), file[Looked(h)])' \in held'[h]
                                                  \/ call'[h] # call[h]
<1>1. writes \in Nat /\ MaxWrites \in Nat /\ \A k \in File : tmp[k] \in 0..writes /\ file[k] \in 0..writes
  BY AccessAssumption DEF AccessInv, AccessTypeOK, VersionsWell
<1>2. v \in 0..writes' /\ damaged' \subseteq 1..writes' /\ writes <= writes'
  <2>1. tmp[f] \in 0..writes /\ damaged \subseteq 1..writes
    BY <1>1 DEF AccessInv, VersionsWell
  <2>2. CASE writes' = writes /\ damaged' = damaged /\ (v = Missing \/ v = tmp[f])
    BY <1>1, <2>1, <2>2 DEF Missing
  <2>3. CASE writes' = writes + 1 /\ damaged' = damaged \cup {v} /\ v = writes + 1
    <3>1. v \in 0..writes' /\ writes <= writes' /\ v \in 1..writes'
      BY <1>1, <2>3
    <3>2. 1..writes \subseteq 1..writes'
      BY <1>1, <2>3
    <3> QED BY <2>1, <2>3, <3>1, <3>2
  <2> QED BY <2>2, <2>3 DEF Changed
<1>3. \A k \in File : file'[k] = IF k = f THEN v ELSE file[k]
  BY DEF Changed, AccessInv, AccessTypeOK
<1>4. \A k \in File : tmp'[k] \in {tmp[k], Missing}
  BY DEF Changed, AccessInv, AccessTypeOK
<1>5. \A k \in File : {file'[k], tmp'[k]} \subseteq 0..writes' /\ tmp'[k] \notin damaged'
  BY <1>1, <1>2, <1>3, <1>4 DEF Changed, AccessInv, VersionsWell, Missing
<1>6. \A k \in File : Fresh(k, file[k])'
  <2>1. ASSUME NEW k \in File, k # f PROVE Fresh(k, file[k])'
    BY <1>3, <1>4, <2>1 DEF AccessInv, VersionsWell, Fresh
  <2>2. Fresh(f, file[f])'
    BY <1>1, <1>3, <1>4 DEF Changed, Fresh, Missing
  <2> QED BY <2>1, <2>2
<1>7. \A k \in File : \A x \in 0..writes : Fresh(k, x) => Fresh(k, x)'
  BY <1>4 DEF Fresh
<1>8. \A x \in 0..writes : Fresh(f, x) /\ x # Missing => file'[f] # x
  BY <1>1, <1>3 DEF Changed, Fresh
<1>9. \A k \in File : \A x \in 0..writes : Meaning(k, x)' = Meaning(k, x)
  BY <1>1 DEF Changed, Meaning
<1>10. Meaning(f, v)' \in -1..MaxWrites
  BY <1>1, <1>2 DEF Meaning, Locked, Missing
<1>11. /\ held' \in [Caller -> SUBSET (-1..MaxWrites)]
       /\ \A h \in Caller : held[h] \subseteq held'[h]
  BY <1>10 DEF Changed, AccessInv, AccessTypeOK
<1>12. ASSUME NEW h \in Caller, call[h] # "none", call'[h] = call[h]
       PROVE  Meaning(Looked(h), file[Looked(h)])' \in held'[h]
  <2>1. Looked(h) \in File /\ Looked(h)' = Looked(h)
    BY <1>12 DEF Looked, File
  <2>2. CASE Looked(h) = f
    <3>1. file'[Looked(h)] = v /\ held'[h] = held[h] \cup {Meaning(f, v)'}
      BY <1>3, <1>12, <2>1, <2>2 DEF Changed
    <3> QED BY <2>1, <2>2, <3>1 DEF Meaning
  <2>3. CASE Looked(h) # f
    <3>1. file'[Looked(h)] = file[Looked(h)] /\ held'[h] = held[h]
      BY <1>3, <1>12, <2>1, <2>3 DEF Changed
    <3>2. Meaning(Looked(h), file[Looked(h)])' = Meaning(Looked(h), file[Looked(h)])
      BY <1>1, <1>9, <2>1, <3>1 DEF Meaning
    <3> QED BY <1>12, <3>1, <3>2 DEF AccessInv
  <2> QED BY <2>2, <2>3
<1> QED BY <1>2, <1>5, <1>6, <1>7, <1>8, <1>9, <1>11, <1>12

\* A change of a file by g, or by nobody, keeps the invariant, if the cache is left
\* alone, or forgotten by one that is going to look anew.
LEMMA ChangeKeeps ==
  ASSUME AccessInv, NEW f \in File, NEW v, Changed(f, v), writes' \in 0..MaxWrites, NEW g,
         UNCHANGED saw, mu' \in Caller \cup {NoCaller},
         step' \in [Process -> Step], call' \in [Process -> Call \cup {"none"}],
         \A h \in Process \ {g} : step'[h] = step[h] /\ call'[h] = call[h],
         \A h \in Process : PlaceWell(h)',
         g \in Caller => /\ step[g] \notin {"stat", "load"}
                         /\ step'[g] \notin {"load", "identify"}
                         /\ call'[g] \in {call[g], "none"},
         UNCHANGED cacheVars \/ (Forget /\ Anew')
  PROVE  AccessInv'
<1> USE ChangedFacts
<1>0. UNCHANGED cacheVars \/ Forget
  OBVIOUS
<1>1. /\ mtime' = mtime /\ sessions' \subseteq sessions
      /\ value' = value \/ (value' = [value EXCEPT !["auth"] = Missing] /\ sessions' = {})
      /\ (loaded' = loaded /\ value' = value) \/ loaded' = [k \in File |-> FALSE]
  BY <1>0 DEF cacheVars, Forget
<1>2. AccessTypeOK'
  <2>1. file' \in [File -> 0..MaxWrites] /\ tmp' \in [File -> 0..MaxWrites]
    <3>1. 0..writes' \subseteq 0..MaxWrites /\ v \in 0..MaxWrites
      BY AccessAssumption
    <3> QED BY <3>1, AccessAssumption DEF Changed, AccessInv, AccessTypeOK, Missing
  <2>2. damaged' \subseteq Version
    BY AccessAssumption DEF Version
  <2>3. value' \in [File -> -1..MaxWrites] /\ loaded' \in [File -> BOOLEAN]
    <3>1. value \in [File -> -1..MaxWrites] /\ loaded \in [File -> BOOLEAN] /\ Missing \in -1..MaxWrites
      BY AccessAssumption DEF AccessInv, AccessTypeOK, Missing
    <3>2. [value EXCEPT !["auth"] = Missing] \in [File -> -1..MaxWrites]
      BY <3>1
    <3> QED BY <1>1, <3>1, <3>2
  <2>4. held' \in [Caller -> SUBSET (-1..MaxWrites)]
    OBVIOUS
  <2> QED BY <1>1, <2>1, <2>2, <2>3, <2>4 DEF AccessInv, AccessTypeOK
<1>3. VersionsWell'
  <2>1. ASSUME NEW h \in Caller, step'[h] = "load"
        PROVE  saw'[h] \in 1..writes' /\ Fresh(Looked(h), saw[h])'
    <3>1. h # g /\ h \in Process /\ step[h] = "load" /\ call'[h] = call[h]
      BY <2>1 DEF Process
    <3>2. saw[h] \in 1..writes /\ Fresh(Looked(h), saw[h]) /\ Looked(h) \in File /\ Looked(h)' = Looked(h)
      BY <3>1 DEF AccessInv, VersionsWell, Looked, File
    <3>3. writes \in Nat /\ writes' \in Nat /\ writes <= writes'
      BY DEF AccessInv, AccessTypeOK
    <3> QED BY <3>2, <3>3 DEF Fresh
  <2>2. ASSUME NEW k \in File
        PROVE  /\ mtime'[k] \in 0..writes' /\ Fresh(k, mtime[k])'
               /\ (loaded[k] /\ mtime[k] = file[k] /\ file[k] # Missing => value[k] = Meaning(k, file[k]))'
    <3>1. mtime[k] \in 0..writes /\ Fresh(k, mtime[k]) /\ file[k] \in 0..writes
      BY DEF AccessInv, VersionsWell
    <3>2. mtime'[k] \in 0..writes' /\ Fresh(k, mtime[k])'
      BY <1>1, <3>1 DEF Fresh, AccessInv, AccessTypeOK
    <3>3. CASE k = f
      BY <1>1, <3>1, <3>2, <3>3
    <3>4. CASE k # f
      <4>1. file'[k] = file[k]
        BY <3>4 DEF Changed, AccessInv, AccessTypeOK
      <4>2. Meaning(k, file[k])' = Meaning(k, file[k])
        BY <3>1, <4>1 DEF Meaning
      <4>3. loaded[k] /\ mtime[k] = file[k] /\ file[k] # Missing => value[k] = Meaning(k, file[k])
        BY DEF AccessInv, VersionsWell
      <4> QED BY <1>1, <3>2, <4>1, <4>2, <4>3
    <3> QED BY <3>3, <3>4
  <2> QED BY <2>1, <2>2 DEF VersionsWell
<1>4. \A h \in Caller : call'[h] # "none" => Meaning(Looked(h), file[Looked(h)])' \in held'[h]
  BY DEF Process
<1>5. sessions' \subseteq {value'["auth"]}
  BY <1>1 DEF AccessInv
<1>6. SignedOut'
  BY <1>1 DEF AccessInv, SignedOut, Process
<1>7. ASSUME NEW h \in Caller, step'[h] = "identify", ~Anew' PROVE value'["auth"] \in held'[h]
  <2>1. value' = value /\ h # g /\ step[h] = "identify"
    BY <1>7 DEF cacheVars, Process
  <2>2. ASSUME NEW k \in Caller, ChangesToken(k), step[k] \in {"stat", "load"}
        PROVE  ChangesToken(k)' /\ step'[k] \in {"stat", "load"}
    BY <2>2 DEF ChangesToken, Process
  <2>3. ~Anew
    BY <1>7, <2>2 DEF Anew
  <2> QED BY <2>1, <2>3 DEF AccessInv
<1> QED BY <1>2, <1>3, <1>4, <1>5, <1>6, <1>7 DEF AccessInv

\* What a change of a file leads to: a CLI process is done, a request that holds the
\* lock forgets what was read and looks anew, and any other has the agent tokens read
\* again.
LEMMA SavedKeeps ==
  ASSUME AccessInv, NEW g \in Process, NEW f \in File, NEW v, Changed(f, v), Saved(g),
         UNCHANGED <<writes, saw>>,
         step[g] \in {"rename", "removeAgents", "clear"},
         step[g] = "rename" => f = Target(g) /\ tmp'[f] = Missing
  PROVE  AccessInv'
<1>1. PlaceWell(g) /\ mu' = mu /\ writes' \in 0..MaxWrites /\ UNCHANGED saw
      /\ mu' \in Caller \cup {NoCaller}
  BY DEF AccessInv, AccessTypeOK, Saved
<1>2. \/ g \in Admin /\ Return(g) /\ UNCHANGED cacheVars
      \/ Locks(g) /\ To(g, "stat") /\ Forget
      \/ ~Locks(g) /\ To(g, "invalidate") /\ UNCHANGED cacheVars /\ g \notin Admin
  BY Zenon DEF Saved
<1>3. CASE g \in Admin /\ Return(g) /\ UNCHANGED cacheVars
  <2>1. Moves(g, "idle", "none")
    BY <1>3, ToMoves
  <2>2. PlaceWell(g)' /\ g \notin Caller
    BY <1>3, <2>1, MovesOne, AccessAssumption DEF PlaceWell, ChangesToken
  <2> QED BY <1>1, <1>3, <2>1, <2>2, MovesOne, PlacesKept, ChangeKeeps DEF Step
<1>4. CASE Locks(g) /\ To(g, "stat") /\ Forget
  <2>1. Moves(g, "stat", call[g]) /\ g \in Caller /\ ChangesToken(g) /\ mu = g
    BY <1>1, <1>4, ToMoves DEF Locks, Target, ChangesToken, PlaceWell
  <2>2. step'[g] = "stat" /\ call'[g] = call[g] /\ call[g] \in {"rotate", "revoke"}
        /\ step' \in [Process -> Step] /\ call' \in [Process -> Call \cup {"none"}]
    BY <2>1, MovesOne DEF Step, ChangesToken, Call, Edits
  <2>3. PlaceWell(g)'
    BY <1>1, <2>1, <2>2, AccessAssumption DEF PlaceWell, ChangesToken
  <2>4. Anew'
    BY <2>1, <2>2 DEF Anew, ChangesToken
  <2> QED BY <1>1, <1>4, <2>1, <2>2, <2>3, <2>4, MovesOne, PlacesKept, ChangeKeeps
<1>5. CASE ~Locks(g) /\ To(g, "invalidate") /\ UNCHANGED cacheVars /\ g \notin Admin
  <2>1. Moves(g, "invalidate", call[g]) /\ g \in Caller /\ call[g] \in {"add", "drop"}
    BY <1>1, <1>5, ToMoves DEF Locks, Target, PlaceWell, Process
  <2>2. step'[g] = "invalidate" /\ call'[g] = call[g]
        /\ step' \in [Process -> Step] /\ call' \in [Process -> Call \cup {"none"}]
    BY <2>1, MovesOne DEF Step, Call, Edits
  <2>3. PlaceWell(g)'
    BY <2>1, <2>2, AccessAssumption DEF PlaceWell, ChangesToken
  <2> QED BY <1>1, <1>5, <2>1, <2>2, <2>3, MovesOne, PlacesKept, ChangeKeeps
<1> QED BY <1>2, <1>3, <1>4, <1>5

LEMMA RenameKeeps ==
  ASSUME AccessInv, NEW g \in Process, Rename(g)
  PROVE  AccessInv'
<1>0. PICK f : f = Target(g)
  OBVIOUS
<1>1. step[g] = "rename" /\ UNCHANGED saw /\ f \in File /\ PlaceWell(g)
  BY <1>0 DEF Rename, Target, File, AccessInv
<1>2. CASE tmp[f] = Missing /\ EditFails(g)
  BY <1>1, <1>2, FailingKeeps DEF PlaceWell, Locks, Target, ChangesToken
<1>3. CASE /\ Written(f, tmp[f]) /\ tmp' = [tmp EXCEPT ![f] = Missing]
           /\ Saved(g) /\ UNCHANGED <<writes, damaged>>
  <2>1. PICK v : v = tmp[f]
    OBVIOUS
  <2>2. Meaning(f, v)' = Meaning(f, v)
    BY <1>3 DEF Meaning
  <2>3. tmp'[f] = Missing
    <3>1. tmp \in [File -> 0..MaxWrites]
      BY DEF AccessInv, AccessTypeOK
    <3> QED BY <1>1, <1>3, <3>1
  <2>4. Changed(f, v)
    BY <1>3, <2>1, <2>2, <2>3 DEF Written, Changed
  <2> QED BY <1>0, <1>1, <1>3, <2>3, <2>4, SavedKeeps
<1> QED BY <1>0, <1>2, <1>3 DEF Rename

LEMMA RemovesKeep ==
  ASSUME AccessInv, NEW g \in Process, RemoveAgents(g) \/ Clear(g)
  PROVE  AccessInv'
<1>1. UNCHANGED saw /\ PlaceWell(g) /\ step[g] \in {"removeAgents", "clear"}
  BY DEF RemoveAgents, Clear, AccessInv
<1>2. CASE step[g] = "removeAgents" /\ EditFails(g)
  BY <1>1, <1>2, FailingKeeps DEF PlaceWell, Locks, Target, ChangesToken
<1>3. CASE Written("agents", Missing) /\ Saved(g) /\ UNCHANGED <<tmp, writes, damaged>>
  <2>1. Meaning("agents", Missing)' = Meaning("agents", Missing)
    BY <1>3 DEF Meaning
  <2>2. Changed("agents", Missing) /\ "agents" \in File
    BY <1>3, <2>1 DEF Written, Changed, File
  <2> QED BY <1>1, <1>3, <2>2, SavedKeeps
<1> QED BY <1>2, <1>3 DEF RemoveAgents, Clear

LEMMA RemoveFileKeeps ==
  ASSUME AccessInv, NEW g \in Process, RemoveFile(g)
  PROVE  AccessInv'
<1>1. /\ step[g] = "remove" /\ PlaceWell(g) /\ call[g] = "revoke" /\ Written("auth", Missing)
      /\ Moves(g, "removeAgents", call[g])
      /\ UNCHANGED <<tmp, writes, damaged, cacheVars, saw>>
  BY ToMoves DEF RemoveFile, AccessInv, PlaceWell
<1>2. IF g \in Caller THEN mu = NoCaller /\ mu' = g ELSE mu' = mu
  BY <1>1 DEF RemoveFile, Enter, Locks, Target
<1>3. Meaning("auth", Missing)' = Meaning("auth", Missing)
  BY <1>1 DEF Meaning
<1>4. Changed("auth", Missing) /\ "auth" \in File /\ writes' \in 0..MaxWrites /\ writes' = writes
  BY <1>1, <1>3 DEF Written, Changed, File, AccessInv, AccessTypeOK
<1>5. /\ step'[g] = "removeAgents" /\ call'[g] = call[g]
      /\ step' \in [Process -> Step] /\ call' \in [Process -> Call \cup {"none"}]
      /\ mu' \in Caller \cup {NoCaller}
  BY <1>1, <1>2, MovesOne DEF Step, Call, Edits, AccessInv, AccessTypeOK
<1>6. PlaceWell(g)'
  BY <1>1, <1>2, <1>5, AccessAssumption DEF PlaceWell, ChangesToken, Process
<1>7. \A h \in Process : PlaceWell(h)'
  BY <1>1, <1>2, <1>6, PlacesKept
<1>8. \A h \in Process \ {g} : step'[h] = step[h] /\ call'[h] = call[h]
  BY <1>1, MovesOne
<1> QED BY <1>1, <1>4, <1>5, <1>7, <1>8, ChangeKeeps

LEMMA DamageKeeps ==
  ASSUME AccessInv, NEW f \in File, Damage(f)
  PROVE  AccessInv'
<1>1. PICK v : v = writes + 1
  OBVIOUS
<1>2. /\ writes' = v /\ damaged' = damaged \cup {v} /\ writes' \in 0..MaxWrites
      /\ file' = [file EXCEPT ![f] = v]
      /\ UNCHANGED <<tmp, cacheVars, mu, step, call, saw>>
  BY <1>1, AccessAssumption DEF Damage, AccessInv, AccessTypeOK
<1>3. Meaning(f, v)' = IF f = "auth" THEN Locked ELSE Missing
  BY <1>2 DEF Meaning
<1>4. Changed(f, v)
  BY <1>1, <1>2, <1>3 DEF Damage, Changed
<1>5. \A h \in Process : PlaceWell(h)'
  BY <1>2 DEF AccessInv, PlaceWell, ChangesToken
<1>6. NoCaller \notin Caller /\ mu' \in Caller \cup {NoCaller}
      /\ step' \in [Process -> Step] /\ call' \in [Process -> Call \cup {"none"}]
  BY <1>2, AccessAssumption DEF AccessInv, AccessTypeOK
<1> QED BY <1>2, <1>4, <1>5, <1>6, ChangeKeeps

-----------------------------------------------------------------------------
(* Writes, and what is done to the sessions *)

LEMMA WriteKeeps ==
  ASSUME AccessInv, NEW g \in Process, Write(g)
  PROVE  AccessInv'
<1>1. step[g] = "write" /\ UNCHANGED saw /\ PlaceWell(g) /\ call[g] \in {"rotate", "add", "drop"}
  BY DEF Write, AccessInv, PlaceWell
<1>2. CASE (Locks(g) => mu = NoCaller) /\ EditFails(g)
  BY <1>1, <1>2, FailingKeeps
<1> DEFINE f == Target(g)
<1>3. CASE /\ writes < MaxWrites /\ writes' = writes + 1
           /\ tmp' = [tmp EXCEPT ![f] = writes']
           /\ Enter(g) /\ To(g, "rename")
           /\ UNCHANGED <<file, damaged, held, cacheVars>>
  <2>1. Moves(g, "rename", call[g]) /\ f \in File
    BY <1>3, ToMoves DEF Target, File
  <2>2. /\ step'[g] = "rename" /\ call'[g] = call[g]
        /\ \A h \in Process \ {g} : step'[h] = step[h] /\ call'[h] = call[h]
        /\ step' \in [Process -> Step] /\ call' \in [Process -> Call \cup {"none"}]
    BY <1>1, <2>1, MovesOne DEF Step, Call, Edits
  <2>3. /\ writes \in Nat /\ writes' \in 1..MaxWrites /\ MaxWrites \in Nat
        /\ \A k \in File : tmp'[k] = IF k = f THEN writes + 1 ELSE tmp[k]
        /\ tmp' \in [File -> 0..MaxWrites]
    <3>1. writes \in Nat /\ writes' = writes + 1 /\ writes' \in 1..MaxWrites /\ writes' \in 0..MaxWrites
      BY <1>3, AccessAssumption DEF AccessInv, AccessTypeOK
    <3>2. tmp \in [File -> 0..MaxWrites]
      BY DEF AccessInv, AccessTypeOK
    <3>3. PICK w : w = writes'
      OBVIOUS
    <3>4. tmp' = [tmp EXCEPT ![f] = w] /\ w \in 0..MaxWrites
      BY <1>3, <3>1, <3>3
    <3> QED BY <2>1, <3>1, <3>2, <3>3, <3>4, AccessAssumption
  <2>4. IF Locks(g) THEN mu = NoCaller /\ mu' = g ELSE mu' = mu
    BY <1>3 DEF Enter
  <2>5. AccessTypeOK'
    <3>1. mu' \in Caller \cup {NoCaller}
      BY <1>3, <2>3, <2>4 DEF AccessInv, AccessTypeOK, Locks
    <3> QED BY <1>1, <1>3, <2>2, <2>3, <3>1 DEF AccessInv, AccessTypeOK, cacheVars
  <2>6. \A h \in Process : PlaceWell(h)'
    <3>1. PlaceWell(g)'
      BY <1>1, <2>2, <2>4, AccessAssumption DEF PlaceWell, ChangesToken, Locks, Target
    <3> QED BY <2>1, <2>4, <3>1, PlacesKept
  <2>7. \A k \in File : \A x \in 0..writes : Fresh(k, x) => Fresh(k, x)'
    BY <2>3 DEF Fresh
  <2>8. VersionsWell'
    <3>1. ASSUME NEW k \in File
          PROVE  /\ {file[k], tmp'[k], mtime[k]} \subseteq 0..writes'
                 /\ Fresh(k, file[k])' /\ Fresh(k, mtime[k])' /\ tmp'[k] \notin damaged
      <4>1. {file[k], tmp[k], mtime[k]} \subseteq 0..writes /\ Fresh(k, file[k]) /\ Fresh(k, mtime[k])
            /\ tmp[k] \notin damaged /\ damaged \subseteq 1..writes
        BY DEF AccessInv, VersionsWell
      <4>2. mtime' = mtime /\ file' = file
        BY <1>3 DEF cacheVars
      <4>3. Fresh(k, file[k])' /\ Fresh(k, mtime[k])'
        BY <2>3, <4>1, <4>2 DEF Fresh
      <4> QED BY <1>3, <2>3, <4>1, <4>3
    <3>2. ASSUME NEW h \in Caller, step'[h] = "load"
          PROVE  saw'[h] \in 1..writes' /\ Fresh(Looked(h), saw[h])'
      <4>1. step[h] = "load" /\ call'[h] = call[h]
        BY <2>2, <3>2 DEF Process
      <4>2. saw[h] \in 1..writes /\ Fresh(Looked(h), saw[h]) /\ Looked(h) \in File /\ Looked(h)' = Looked(h)
        BY <4>1 DEF AccessInv, VersionsWell, Looked, File
      <4> QED BY <1>1, <1>3, <2>3, <4>2 DEF Fresh
    <3>3. damaged' \subseteq 1..writes'
      <4>1. damaged \subseteq 1..writes
        BY DEF AccessInv, VersionsWell
      <4> QED BY <1>3, <2>3, <4>1
    <3>4. \A k \in File : (loaded[k] /\ mtime[k] = file[k] /\ file[k] # Missing => value[k] = Meaning(k, file[k]))'
      BY <1>3 DEF AccessInv, VersionsWell, cacheVars, Meaning
    <3>5. file' = file /\ mtime' = mtime /\ damaged' = damaged
      BY <1>3 DEF cacheVars
    <3> QED BY <3>1, <3>2, <3>3, <3>4, <3>5 DEF VersionsWell
  <2>9. \A h \in Caller : call'[h] = call[h] /\ Looked(h)' = Looked(h)
    BY <2>2 DEF Process, Looked
  <2>10. \A h \in Caller : call'[h] # "none" => Meaning(Looked(h), file[Looked(h)])' \in held'[h]
    BY <1>3, <2>9 DEF AccessInv, Meaning
  <2>11. sessions' \subseteq {value'["auth"]} /\ SignedOut'
    BY <1>3, <2>2 DEF AccessInv, SignedOut, cacheVars, Process
  <2>12. Anew => Anew'
    BY <1>1, <2>1, AnewKept
  <2>13. \A h \in Caller : step'[h] = "identify" /\ ~Anew' => value'["auth"] \in held'[h]
    BY <1>3, <2>2, <2>12 DEF AccessInv, cacheVars, Process
  <2> QED BY <2>5, <2>6, <2>8, <2>10, <2>11, <2>13 DEF AccessInv
<1> QED BY <1>1, <1>2, <1>3 DEF Write

LEMMA NewSessionKeeps ==
  ASSUME AccessInv, NEW g \in Caller, NewSession(g)
  PROVE  AccessInv'
<1>1. /\ g \in Process /\ step[g] = "session" /\ mu = NoCaller /\ Moves(g, "idle", "none")
      /\ sessions' = sessions \cup {value["auth"]} /\ held' = [held EXCEPT ![g] = {}]
      /\ UNCHANGED <<fileVars, value, mtime, loaded, mu, saw>>
  BY ToMoves DEF NewSession, Process, Ended
<1>2. ~Anew
  <2>1. ASSUME NEW h \in Caller, ChangesToken(h), step[h] \in {"stat", "load"} PROVE FALSE
    <3>1. PlaceWell(h) /\ h # NoCaller
      BY <2>1, AccessAssumption DEF AccessInv, Process
    <3> QED BY <1>1, <2>1, <3>1 DEF PlaceWell
  <2> QED BY <2>1 DEF Anew
<1>3. OwnType /\ OwnOnly(g)
  BY <1>1 DEF OwnType, OwnOnly, AccessInv, AccessTypeOK
<1>4. step'[g] = "idle" /\ call'[g] = "none"
  BY <1>1, MovesOne
<1>5. PlaceWell(g)' /\ RequestWell(g)'
  BY <1>4 DEF PlaceWell, ChangesToken, RequestWell
<1>6. loaded' \in [File -> BOOLEAN] /\ \A f \in File : loaded'[f] => loaded[f]
  BY <1>1 DEF AccessInv, AccessTypeOK
<1> QED BY <1>1, <1>2, <1>3, <1>5, <1>6, QuietFiles DEF Step

LEMMA InvalidateKeeps ==
  ASSUME AccessInv, NEW g \in Caller, InvalidateAgentTokens(g)
  PROVE  AccessInv'
<1>1. /\ g \in Process /\ step[g] = "invalidate" /\ Moves(g, "idle", "none")
      /\ loaded' = [loaded EXCEPT !["agents"] = FALSE] /\ held' = [held EXCEPT ![g] = {}]
      /\ UNCHANGED <<fileVars, value, mtime, sessions, mu, saw>>
  BY ToMoves DEF InvalidateAgentTokens, Process, Ended
<1>2. OwnType /\ OwnOnly(g)
  BY <1>1 DEF OwnType, OwnOnly, AccessInv, AccessTypeOK
<1>3. step'[g] = "idle" /\ call'[g] = "none"
  BY <1>1, MovesOne
<1>4. PlaceWell(g)'
  BY <1>3 DEF PlaceWell, ChangesToken
<1>5. RequestWell(g)'
  BY <1>3 DEF RequestWell
<1>6. loaded' \in [File -> BOOLEAN] /\ \A f \in File : loaded'[f] => loaded[f]
  BY <1>1 DEF AccessInv, AccessTypeOK
<1>7. UNCHANGED <<fileVars, value, mtime>> /\ mu' = mu /\ sessions' \subseteq sessions
  BY <1>1
<1> QED BY <1>1, <1>2, <1>4, <1>5, <1>6, <1>7, QuietFiles DEF Step

LEMMA EndSessionKeeps ==
  ASSUME AccessInv, sessions' \subseteq sessions,
         UNCHANGED <<fileVars, value, mtime, loaded, mu, step, localVars>>
  PROVE  AccessInv'
<1> USE DEF fileVars, localVars
<1>1. AccessTypeOK'
  BY DEF AccessInv, AccessTypeOK
<1>2. SignedOut' /\ sessions' \subseteq {value'["auth"]}
  BY DEF AccessInv, SignedOut
<1>3. \A g \in Process : PlaceWell(g)'
  BY DEF AccessInv, PlaceWell, ChangesToken
<1>4. VersionsWell'
  BY DEF AccessInv, VersionsWell, Fresh, Meaning, Looked
<1>5. \A g \in Caller : call'[g] # "none" => Meaning(Looked(g), file[Looked(g)])' \in held'[g]
  BY DEF AccessInv, Looked, Meaning
<1>6. \A g \in Caller : step'[g] = "identify" /\ ~Anew' => value'["auth"] \in held'[g]
  BY DEF AccessInv, Anew, ChangesToken
<1> QED BY <1>1, <1>2, <1>3, <1>4, <1>5, <1>6 DEF AccessInv

-----------------------------------------------------------------------------
LEMMA AccessInitWell == AccessInit => AccessInv
<1> SUFFICES ASSUME AccessInit PROVE AccessInv
  OBVIOUS
<1> USE AccessAssumption DEF AccessInit, Missing
<1>1. AccessTypeOK
  BY DEF AccessTypeOK, Step
<1>2. SignedOut /\ \A g \in Process : PlaceWell(g)
  BY DEF SignedOut, PlaceWell, ChangesToken, Process
<1>3. VersionsWell
  BY DEF VersionsWell, Fresh, Process
<1> QED BY <1>1, <1>2, <1>3 DEF AccessInv, Process

LEMMA AccessInvKept == AccessInv /\ [AccessNext]_accessVars => AccessInv'
<1> SUFFICES ASSUME AccessInv, [AccessNext]_accessVars PROVE AccessInv'
  OBVIOUS
<1>1. ASSUME NEW g \in Process, Edit(g) PROVE AccessInv'
  BY <1>1, WriteKeeps, RenameKeeps, RemoveFileKeeps, RemovesKeep, ReadAgentsKeeps DEF Edit
<1>2. ASSUME NEW g \in Process, Asks(g) PROVE AccessInv'
  BY <1>2, AsksKeeps
<1>3. ASSUME NEW g \in Caller, Handle(g) PROVE AccessInv'
  BY <1>3, StatKeeps, LoadKeeps, IdentifyKeeps, NewSessionKeeps, InvalidateKeeps DEF Handle
<1>4. ASSUME NEW s \in sessions, EndSession(s) PROVE AccessInv'
  BY <1>4, EndSessionKeeps DEF EndSession
<1>5. ASSUME NEW f \in File, Damage(f) PROVE AccessInv'
  BY <1>5, DamageKeeps
<1>6. CASE UNCHANGED accessVars
  BY <1>6, EndSessionKeeps DEF accessVars, fileVars, localVars
<1> QED BY <1>1, <1>2, <1>3, <1>4, <1>5, <1>6 DEF AccessNext

\* The invariant that the theorems below follow from.
LEMMA AccessInvAlways == AccessSpec => []AccessInv
<1> QED BY AccessInitWell, AccessInvKept, PTL DEF AccessSpec

\* A browser that was signed in when the token was replaced, by a change made before its
\* request came, is not let in (auth.go, the guard and the sessions it looks up): whoever
\* notices the change first ends every session there is, and one started later is started
\* under what was read then.
THEOREM SignedOutAlways == AccessSpec => []SignedOut
<1>1. AccessInv => SignedOut
  BY DEF AccessInv
<1> QED BY <1>1, AccessInvAlways, PTL

\* The type invariant of the files, what is known of them, the sessions and the places
\* of all requests and CLI processes.
THEOREM TypeCorrect == AccessSpec => []AccessTypeOK
<1>1. AccessInv => AccessTypeOK
  BY DEF AccessInv
<1> QED BY <1>1, AccessInvAlways, PTL

\* A request that looked a file up goes by what that file held at some time since the
\* request came (auth.go, current and agentTokens: what was read last is only used while
\* the modification time is the same).
THEOREM TakesEffectAlways == AccessSpec => TakesEffect
<1>1. ASSUME AccessInv, [AccessNext]_accessVars, NEW g \in Caller PROVE Answered(g)
  <2> USE <1>1
  <2> SUFFICES ASSUME step[g] \in {"stat", "load"}, step'[g] \notin {"stat", "load"}
               PROVE  value'[Looked(g)] \in held[g]
    BY DEF Answered
  <2> DEFINE f == Looked(g)
  <2>1. Stat(g) \/ Load(g)
    <3>1. ASSUME NEW h \in Process, NEW s, NEW c, Moves(h, s, c), step[h] \notin {"stat", "load"}
          PROVE  FALSE
      <4>1. g \in Process \ {h}
        BY <3>1 DEF Process
      <4> QED BY <3>1, <4>1, MovesOne
    <3>2. ASSUME NEW h \in Process, Asks(h) PROVE FALSE
      <4>1. PICK s, c : Moves(h, s, c)
        BY <3>2 DEF Asks, Moves
      <4> QED BY <3>1, <3>2, <4>1 DEF Asks
    <3>3. ASSUME NEW h \in Process, Edit(h) PROVE FALSE
      <4>1. step[h] \notin {"stat", "load"}
        BY <3>3 DEF Edit, Write, Rename, RemoveFile, RemoveAgents, ReadAgents, Clear
      <4>2. ASSUME Saved(h) PROVE \E s, c : Moves(h, s, c)
        <5>1. Return(h) \/ To(h, "stat") \/ To(h, "invalidate")
          BY <4>2, Zenon DEF Saved
        <5> QED BY <5>1, ToMoves
      <4>3. EditFails(h) => Moves(h, "idle", "none")
        BY ToMoves DEF EditFails
      <4>4. \E s, c : Moves(h, s, c)
        BY <3>3, <4>2, <4>3, ToMoves DEF Edit, Write, Rename, RemoveFile, RemoveAgents, ReadAgents, Clear
      <4> QED BY <3>1, <4>1, <4>4
    <3>4. ASSUME NEW h \in Caller, h # g, Handle(h) PROVE FALSE
      <4>1. h \in Process /\ g \in Process \ {h}
        BY <3>4 DEF Process
      <4>2. \E s, c : Moves(h, s, c)
        <5>1. ASSUME Identify(h) \/ NewSession(h) \/ InvalidateAgentTokens(h) PROVE Moves(h, "idle", "none")
          BY <4>1, <5>1, ToMoves DEF Identify, NewSession, InvalidateAgentTokens
        <5>2. ASSUME Load(h) PROVE \E s, c : Moves(h, s, c)
          BY <5>2, ToldMoves DEF Load
        <5>3. ASSUME Stat(h) PROVE \E s, c : Moves(h, s, c)
          <6>1. step[h] = "stat" /\ (Told(h, Missing) \/ Told(h, value[Looked(h)]) \/ To(h, "load"))
            BY <5>3, Zenon DEF Stat
          <6> QED BY <4>1, <6>1, ToldMoves, ToMoves
        <5> QED BY <3>4, <5>1, <5>2, <5>3 DEF Handle
      <4> QED BY <4>1, <4>2, MovesOne
    <3>5. ASSUME Handle(g) PROVE Stat(g) \/ Load(g)
      BY <3>5 DEF Handle, Identify, NewSession, InvalidateAgentTokens
    <3>6. ASSUME UNCHANGED step PROVE FALSE
      BY <3>6
    <3>7. (\E s \in sessions : EndSession(s)) \/ (\E k \in File : Damage(k)) => UNCHANGED step
      BY DEF EndSession, Damage
    <3> QED BY <3>2, <3>3, <3>4, <3>5, <3>6, <3>7 DEF AccessNext, accessVars
  <2>2. f \in File /\ g \in Process /\ call[g] # "none"
    BY <1>1 DEF Looked, File, Process, AccessInv, PlaceWell
  <2>3. Meaning(f, file[f]) \in held[g]
    BY <1>1, <2>2 DEF AccessInv
  <2>4. value \in [File -> -1..MaxWrites]
    BY <1>1 DEF AccessInv, AccessTypeOK
  <2>5. CASE Load(g)
    BY <2>2, <2>3, <2>4, <2>5 DEF Load, Remember
  <2>6. CASE Stat(g)
    <3>1. \/ file[f] = Missing /\ Remember(f, Missing, mtime[f])
          \/ file[f] # Missing /\ Current(f) /\ UNCHANGED cacheVars
          \/ To(g, "load")
      BY <2>6, Zenon DEF Stat
    <3>2. CASE file[f] = Missing /\ Remember(f, Missing, mtime[f])
      <4>1. Meaning(f, file[f]) = Missing
        BY <3>2 DEF Meaning, AccessInv, VersionsWell, Missing
      <4> QED BY <2>2, <2>3, <2>4, <3>2, <4>1 DEF Remember
    <3>3. CASE file[f] # Missing /\ Current(f) /\ UNCHANGED cacheVars
      <4>1. value[f] = Meaning(f, file[f])
        BY <1>1, <2>2, <3>3 DEF Current, AccessInv, VersionsWell
      <4> QED BY <2>3, <3>3, <4>1 DEF cacheVars
    <3>4. CASE To(g, "load")
      <4>1. step'[g] = "load"
        BY <1>1, <2>2, <3>4, ToMoves, MovesOne
      <4> QED BY <4>1
    <3> QED BY <3>1, <3>2, <3>3, <3>4
  <2> QED BY <2>1, <2>5, <2>6
<1>2. AccessInv /\ [AccessNext]_accessVars => [\A g \in Caller : Answered(g)]_accessVars
  BY <1>1
<1> QED BY <1>2, AccessInvAlways, PTL DEF AccessSpec, TakesEffect
=============================================================================

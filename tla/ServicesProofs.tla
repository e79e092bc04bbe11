----------------------------- MODULE ServicesProofs -----------------------------
(***************************************************************************)
(* Theorems about the restore images, the dashboard's events, the run      *)
(* history, the settings and the commands in a guest, each part by itself, *)
(* and about Services, which has one of them move.                         *)
(***************************************************************************)
EXTENDS Services, AccessProofs, FiniteSetTheorems, SequenceTheorems

-----------------------------------------------------------------------------
(* The restore images *)

\* What the steps of a request and of a download have in common: the downloads that
\* were begun stay begun, and what a request knows of them stays true.
LEMMA UsedFacts ==
  ASSUME ImagesInv
  PROVE  /\ Used \subseteq Flight
         /\ flight # NoFlight => flight \in Used /\ result[flight] = "none"
         /\ list \in Used \cup {Empty} /\ cacheFile \in Used \cup {Empty}
         /\ \A f \in Flight \ Used : /\ result[f] = "none" /\ f \notin ended
                                     /\ \A k \in Used : k < f
<1>1. Used \subseteq Flight
  BY DEF ImagesInv, ImagesTypeOK, Used
<1>2. flight # NoFlight => flight \in Used /\ result[flight] = "none"
  BY DEF ImagesInv, OneDownload, Used
<1>3. list \in Used \cup {Empty} /\ cacheFile \in Used \cup {Empty}
  BY ImagesAssumption DEF ImagesInv, ImagesTypeOK, Used, Empty, Flight
<1>4. ASSUME NEW f \in Flight \ Used
      PROVE  result[f] = "none" /\ f \notin ended /\ \A k \in Used : k < f
  <2>1. result[f] = "none" /\ f \notin ended
    BY <1>4 DEF Used, ImagesInv
  <2>2. ASSUME NEW k \in Used PROVE k < f
    <3>1. k \in Int /\ f \in Int /\ k # f
      BY <1>1, <1>4 DEF Flight
    <3>2. ~(f < k)
      BY <1>4 DEF ImagesInv
    <3> QED BY <3>1, <3>2
  <2> QED BY <2>1, <2>2
<1> QED BY <1>1, <1>2, <1>3, <1>4

LEMMA JoinKeeps ==
  ASSUME ImagesInv, NEW r \in Reader, Join(r)
  PROVE  ImagesInv'
<1> USE DEF listVars
<1>1. /\ asked[r] = "idle" /\ asked' = [asked EXCEPT ![r] = "waits"]
      /\ UNCHANGED <<list, stale, cacheFile, ended, result, gaveUp, starts>>
      /\ flight' \in Flight /\ result[flight'] = "none" /\ flight' \notin ended
      /\ Used' = Used \cup {flight'} /\ fetching' = {flight'}
      /\ \A k \in Used : k <= flight'
      /\ \A k \in Flight : k < flight' => k \in Used
  <2>1. CASE flight = NoFlight
    <3>1. PICK f \in Flight \ Used : (\A k \in Flight \ Used : f <= k) /\ flight' = f
                                     /\ fetching' = fetching \cup {f}
      BY <2>1 DEF Join, MayStart
    <3>2. fetching = {}
      BY <2>1 DEF ImagesInv, OneDownload
    <3>3. \A k \in Flight : k < f => k \in Used
      BY <3>1 DEF Flight
    <3>4. \A k \in Used : k <= f
      BY <3>1, UsedFacts DEF Flight
    <3> QED BY <3>1, <3>2, <3>3, <3>4, UsedFacts DEF Join, Used
  <2>2. CASE flight # NoFlight
    <3>1. flight' = flight /\ fetching' = fetching
      BY <2>2 DEF Join, MayStart
    <3> QED BY <2>2, <3>1, UsedFacts DEF Join, Used, ImagesInv, OneDownload
  <2> QED BY <2>1, <2>2
<1>2. list < flight' /\ flight' \in 1..MaxFetches /\ list \in 0..MaxFetches /\ flight' # NoFlight
  <2>1. list = Empty \/ (list \in Used /\ list # flight')
    BY <1>1, UsedFacts DEF ImagesInv
  <2>2. flight' \in 1..MaxFetches /\ list \in 0..MaxFetches
    BY <1>1 DEF Flight, ImagesInv, ImagesTypeOK
  <2> QED BY <1>1, <2>1, <2>2 DEF Empty, NoFlight
<1>3. joined' = [joined EXCEPT ![r] = flight'] /\ had' = [had EXCEPT ![r] = list]
  BY DEF Join
<1>4. ImagesTypeOK'
  <2>1. joined' \in [Reader -> 0..MaxFetches] /\ had' \in [Reader -> 0..MaxFetches]
    <3>1. PICK f : f = flight'
      OBVIOUS
    <3>2. f \in 0..MaxFetches /\ joined' = [joined EXCEPT ![r] = f]
      BY <1>2, <1>3, <3>1
    <3> QED BY <1>2, <1>3, <3>2 DEF ImagesInv, ImagesTypeOK
  <2>2. asked' \in [Reader -> {"idle", "waits", "awake"}]
    BY <1>1 DEF ImagesInv, ImagesTypeOK
  <2>3. flight' \in 0..MaxFetches /\ fetching' \subseteq Flight /\ flight' \notin ended'
    BY <1>1, <1>2
  <2>4. /\ UNCHANGED <<list, stale, cacheFile, ended, result, gaveUp, starts>>
        /\ ImagesTypeOK
    BY <1>1 DEF ImagesInv
  <2> QED BY <2>1, <2>2, <2>3, <2>4 DEF ImagesTypeOK
<1>5. ASSUME NEW q \in Reader PROVE Came(q)'
  <2>1. CASE q = r
    <3>1. asked'[r] = "waits" /\ joined'[r] = flight' /\ had'[r] = list
      BY <1>1, <1>3 DEF ImagesInv, ImagesTypeOK
    <3> QED BY <1>1, <1>2, <2>1, <3>1 DEF Came
  <2>2. CASE q # r
    <3>1. asked'[q] = asked[q] /\ joined'[q] = joined[q] /\ had'[q] = had[q] /\ Came(q)
      BY <1>1, <1>3, <2>2 DEF ImagesInv, ImagesTypeOK
    <3> QED BY <1>1, <3>1 DEF Came
  <2> QED BY <2>1, <2>2
<1>6. OneDownload' /\ (\A f \in fetching' : result'[f] = "none") /\ \A f \in ended' : result'[f] # "none"
  BY <1>1, <1>2 DEF OneDownload, ImagesInv
<1>7. \A f \in Used' : f <= flight' /\ \A k \in Flight : k < f => k \in Used'
  BY <1>1, <1>2 DEF ImagesInv
<1>8. \A l \in {list', cacheFile'} : l # Empty => result'[l] # "none"
  BY <1>1 DEF ImagesInv
<1> QED BY <1>4, <1>5, <1>6, <1>7, <1>8 DEF ImagesInv

LEMMA FetchKeeps ==
  ASSUME ImagesInv, NEW f \in Flight, FetchFails(f) \/ FetchWorks(f)
  PROVE  ImagesInv'
<1> USE DEF listVars, readerVars
<1>1. PICK e \in {"ok", "failed"} :
        /\ result' = [result EXCEPT ![f] = e]
        /\ IF e = "ok" THEN list' = f /\ stale' = FALSE /\ cacheFile' \in {f, cacheFile}
           ELSE UNCHANGED <<list, stale, cacheFile>>
  BY DEF FetchFails, FetchWorks
<1>2. /\ f \in fetching /\ fetching' = fetching \ {f} /\ flight' = NoFlight
      /\ UNCHANGED <<ended, readerVars, starts>>
  BY DEF FetchFails, FetchWorks
<1>3. f = flight /\ fetching = {f} /\ result[f] = "none" /\ fetching' = {} /\ f # NoFlight
  BY <1>2 DEF ImagesInv, OneDownload
<1>4. /\ \A k \in Flight : result'[k] = IF k = f THEN e ELSE result[k]
      /\ result' \in [Flight -> {"none", "ok", "failed"}] /\ Used' = Used
  <2>1. result \in [Flight -> {"none", "ok", "failed"}]
    BY DEF ImagesInv, ImagesTypeOK
  <2> QED BY <1>1, <1>3, <2>1 DEF Used
<1>5. \A k \in Used : k <= f
  BY <1>3 DEF ImagesInv
<1>6. ImagesTypeOK'
  <2>1. f \in 0..MaxFetches /\ NoFlight \in 0..MaxFetches /\ NoFlight \notin ended
    BY ImagesAssumption DEF Flight, NoFlight, ImagesInv, ImagesTypeOK
  <2>2. list' \in 0..MaxFetches /\ cacheFile' \in 0..MaxFetches /\ stale' \in BOOLEAN
    BY <1>1, <2>1 DEF ImagesInv, ImagesTypeOK
  <2>3. ImagesTypeOK /\ UNCHANGED <<ended, asked, joined, gaveUp, had, starts>>
    BY <1>2 DEF ImagesInv
  <2> QED BY <1>2, <1>3, <1>4, <2>1, <2>2, <2>3 DEF ImagesTypeOK
<1>7. ASSUME NEW r \in Reader PROVE Came(r)'
  <2>1. Came(r) /\ joined[r] \in 0..MaxFetches /\ list \in 0..MaxFetches
    BY DEF ImagesInv, ImagesTypeOK
  <2>2. joined[r] \in Used => joined[r] \in Flight /\ joined[r] <= f
    BY <1>5, UsedFacts
  <2>3. CASE e = "ok"
    <3>1. list' = f
      BY <1>1, <2>3
    <3> QED BY <1>2, <1>4, <2>1, <2>2, <2>3, <3>1 DEF Came
  <2>4. CASE e = "failed"
    <3>1. list' = list
      BY <1>1, <2>4
    <3> QED BY <1>2, <1>4, <2>1, <2>2, <2>4, <3>1 DEF Came
  <2> QED BY <2>3, <2>4
<1>8. OneDownload' /\ (\A k \in fetching' : result'[k] = "none") /\ \A k \in ended' : result'[k] # "none"
  BY <1>2, <1>3, <1>4 DEF OneDownload, ImagesInv, ImagesTypeOK
<1>9. \A l \in {list', cacheFile'} : l # Empty => result'[l] # "none"
  <2>1. \A l \in {list, cacheFile} : l # Empty => l \in Flight /\ result[l] # "none"
    BY UsedFacts DEF ImagesInv
  <2>2. {list', cacheFile'} \subseteq {list, cacheFile, f}
    BY <1>1
  <2> QED BY <1>4, <2>1, <2>2
<1>10. (\A k \in Used' : \A j \in Flight : j < k => j \in Used') /\ flight' = NoFlight
  BY <1>2, <1>4 DEF ImagesInv
<1> QED BY <1>6, <1>7, <1>8, <1>9, <1>10 DEF ImagesInv

\* A step that leaves the downloads and the list as they are.
LEMMA ReaderKeeps ==
  ASSUME ImagesInv, UNCHANGED <<list, cacheFile, flight, fetching, result, starts>>,
         ended' = ended \/ \E f \in Flight : result[f] # "none" /\ ended' = ended \cup {f},
         stale' \in BOOLEAN, asked' \in [Reader -> {"idle", "waits", "awake"}],
         joined' \in [Reader -> 0..MaxFetches], had' \in [Reader -> 0..MaxFetches],
         gaveUp' \in [Reader -> BOOLEAN], \A r \in Reader : Came(r)'
  PROVE  ImagesInv'
<1>1. ImagesTypeOK'
  <2>1. ASSUME NEW f \in Flight, result[f] # "none", flight # NoFlight PROVE flight # f
    BY <2>1, UsedFacts
  <2>2. flight \notin ended'
    BY <2>1 DEF ImagesInv, ImagesTypeOK, NoFlight, Flight
  <2> QED BY <2>2 DEF ImagesInv, ImagesTypeOK
<1>2. Used' = Used
  BY DEF Used
<1> QED BY <1>1, <1>2 DEF ImagesInv, OneDownload

LEMMA ServesKeeps ==
  ASSUME ImagesInv, NEW r \in Reader, WakeUp(r) \/ GiveUp(r) \/ Answer(r)
  PROVE  ImagesInv'
<1> USE DEF listVars, flightVars
<1>1. /\ asked' \in [Reader -> {"idle", "waits", "awake"}]
      /\ joined' \in [Reader -> 0..MaxFetches] /\ had' \in [Reader -> 0..MaxFetches]
      /\ gaveUp' \in [Reader -> BOOLEAN] /\ stale' \in BOOLEAN
  <2>1. ImagesTypeOK /\ NoFlight \in 0..MaxFetches /\ Empty \in 0..MaxFetches
    BY ImagesAssumption DEF ImagesInv, NoFlight, Empty
  <2>2. CASE WakeUp(r)
    BY <2>1, <2>2 DEF WakeUp, ImagesTypeOK
  <2>3. CASE GiveUp(r)
    BY <2>1, <2>3 DEF GiveUp, ImagesTypeOK
  <2>4. CASE Answer(r)
    BY <2>1, <2>4 DEF Answer, ImagesTypeOK
  <2> QED BY <2>2, <2>3, <2>4
<1>2. ASSUME NEW q \in Reader PROVE Came(q)'
  <2>1. Used' = Used /\ result' = result /\ list' = list
    BY DEF WakeUp, GiveUp, Answer, Used
  <2>2. CASE q # r
    <3>1. asked'[q] = asked[q] /\ joined'[q] = joined[q] /\ had'[q] = had[q] /\ gaveUp'[q] = gaveUp[q]
      BY <2>2 DEF WakeUp, GiveUp, Answer, ImagesInv, ImagesTypeOK
    <3> QED BY <2>1, <3>1 DEF ImagesInv, Came
  <2>3. CASE q = r /\ (WakeUp(r) \/ GiveUp(r))
    <3>1. /\ joined'[r] = joined[r] /\ had'[r] = had[r] /\ asked[r] = "waits"
          /\ ~gaveUp'[r] => joined[r] \in ended
      BY <2>3 DEF WakeUp, GiveUp, ImagesInv, ImagesTypeOK
    <3> QED BY <2>1, <2>3, <3>1 DEF ImagesInv, Came
  <2>4. CASE q = r /\ Answer(r)
    <3>1. asked'[r] = "idle"
      BY <2>4 DEF Answer, ImagesInv, ImagesTypeOK
    <3> QED BY <2>4, <3>1 DEF Came
  <2> QED BY <2>2, <2>3, <2>4
<1>3. UNCHANGED <<list, cacheFile, flight, fetching, result, starts, ended>>
  BY DEF WakeUp, GiveUp, Answer
<1> QED BY <1>1, <1>2, <1>3, ReaderKeeps

LEMMA OtherImagesKeep ==
  ASSUME ImagesInv,
         DayPasses \/ (\E f \in Flight : CloseDone(f)) \/ UNCHANGED imagesVars
  PROVE  ImagesInv'
<1> USE DEF listVars, flightVars, readerVars, imagesVars, DayPasses, CloseDone
<1>1. /\ UNCHANGED <<list, cacheFile, flight, fetching, result, starts>>
      /\ UNCHANGED <<asked, joined, gaveUp, had>>
  OBVIOUS
<1>2. ended' = ended \/ \E f \in Flight : result[f] # "none" /\ ended' = ended \cup {f}
  OBVIOUS
<1>3. stale' \in BOOLEAN
  BY DEF ImagesInv, ImagesTypeOK
<1>4. \A r \in Reader : Came(r)'
  BY <1>1 DEF ImagesInv, Came, Used
<1> QED BY <1>1, <1>2, <1>3, <1>4, ReaderKeeps DEF ImagesInv, ImagesTypeOK

LEMMA StartKeeps ==
  ASSUME ImagesInv, Start
  PROVE  ImagesInv'
<1>1. result' \in [Flight -> {"none", "ok", "failed"}] /\ Used' = Used
  BY DEF Start, Used, ImagesInv, ImagesTypeOK
<1>2. ImagesTypeOK'
  <2>1. starts' \in 0..MaxStarts /\ stale' \in BOOLEAN
    <3>1. stale' \in IF cacheFile = Empty THEN {FALSE} ELSE BOOLEAN
      BY DEF Start
    <3>2. stale' \in BOOLEAN
      BY <3>1, Zenon
    <3> QED BY <3>2, ImagesAssumption DEF Start, ImagesInv, ImagesTypeOK
  <2>2. NoFlight \in 0..MaxFetches /\ Empty \in 0..MaxFetches /\ NoFlight \notin Flight
    BY ImagesAssumption DEF NoFlight, Empty, Flight
  <2> QED BY <1>1, <2>1, <2>2 DEF Start, ImagesInv, ImagesTypeOK
<1>3. OneDownload' /\ (\A f \in fetching' : result'[f] = "none") /\ \A f \in ended' : result'[f] # "none"
  BY DEF Start, OneDownload
<1>4. \A l \in {list', cacheFile'} : l # Empty => result'[l] # "none"
  <2>1. cacheFile # Empty => cacheFile \in Flight /\ result[cacheFile] # "none"
    BY UsedFacts DEF ImagesInv
  <2> QED BY <2>1 DEF Start
<1>5. (\A f \in Used' : \A k \in Flight : k < f => k \in Used') /\ flight' = NoFlight
  BY <1>1 DEF Start, ImagesInv
<1>6. \A r \in Reader : Came(r)'
  BY DEF Start, Came
<1> QED BY <1>2, <1>3, <1>4, <1>5, <1>6 DEF ImagesInv

LEMMA ImagesInvKept ==
  /\ ImagesInit => ImagesInv
  /\ ImagesInv /\ [ImagesNext]_imagesVars => ImagesInv'
<1>1. ASSUME ImagesInit PROVE ImagesInv
  <2> USE <1>1, ImagesAssumption DEF ImagesInit
  <2>1. 0 \in 0..MaxFetches /\ 0 \in 0..MaxStarts
    OBVIOUS
  <2>2. ImagesTypeOK
    BY <2>1 DEF ImagesTypeOK, NoFlight, Empty
  <2>3. Used = {} /\ OneDownload /\ \A r \in Reader : Came(r)
    BY DEF Used, OneDownload, Came, NoFlight
  <2> QED BY <2>2, <2>3 DEF ImagesInv
<1>2. ASSUME ImagesInv, [ImagesNext]_imagesVars PROVE ImagesInv'
  BY <1>2, JoinKeeps, FetchKeeps, ServesKeeps, OtherImagesKeep, StartKeeps
     DEF ImagesNext, Serves, Download
<1> QED BY <1>1, <1>2

\* Every download that requests join is the one under way (ipsw.go, ipswFlight).
THEOREM OneDownloadAlways == ImagesSpec => []OneDownload
<1>1. ImagesInv => OneDownload
  BY DEF ImagesInv
<1> QED BY <1>1, ImagesInvKept, PTL DEF ImagesSpec

LEMMA ImagesInvNewer == ImagesInv => NewerList
<1> SUFFICES ASSUME ImagesInv, NEW r \in Reader, asked[r] = "awake", ~Failed(r)
             PROVE  list > had[r]
  BY DEF NewerList
<1>1. Came(r) /\ joined[r] \in Flight /\ result[joined[r]] = "ok"
  BY UsedFacts DEF ImagesInv, ImagesTypeOK, Came, Failed
<1>2. list \in Int /\ had[r] \in Int /\ joined[r] \in Int
  BY <1>1 DEF ImagesInv, ImagesTypeOK, Flight
<1> QED BY <1>1, <1>2 DEF Came

\* Whoever had to wait and is told of no error gets a list newer than the one it found
\* (ipsw.go, listIPSW and runIPSWFetch).
THEOREM NewerListAlways == ImagesSpec => []NewerList
<1> QED BY ImagesInvNewer, ImagesInvKept, PTL DEF ImagesSpec

-----------------------------------------------------------------------------
(* The commands in a guest *)

\* The places, the channels heard and the names are of their types.
GuestPlain ==
    /\ session \in 0..MaxGuestBoots /\ answers \subseteq Channel
    /\ gone \in {"unknown", "no", "yes"}
    /\ {wanted, applied, guestName} \subseteq HostName \cup {Unmanaged}
    /\ place \in [Goroutine -> Place]
    /\ okay \in [Goroutine -> SUBSET Channel] /\ outcome \in [Goroutine -> Outcomes \cup {"none"}]
    /\ naming \in [Goroutine -> HostName \cup {Unmanaged}] /\ news \in [Goroutine -> BOOLEAN]
    /\ {up, setting, fallback, astray} \subseteq BOOLEAN /\ missed \subseteq 0..MaxGuestBoots

\* One goroutine at most sets the name, and what is noted is what the guest is called.
NamesWell ==
    /\ \A p, q \in Goroutine : Sets(p) /\ Sets(q) => p = q
    /\ setting <=> \E p \in Goroutine : Sets(p)
    /\ \A p \in Goroutine :
          /\ ~Sets(p) \/ place[p] = "call agent" => outcome[p] = "none"
          /\ place[p] = "call ssh" => outcome[p] # "worked"
          /\ Worked(p) => guestName = naming[p]
    /\ ~astray /\ applied # Unmanaged /\ guestName # applied => \E p \in Goroutine : Worked(p)

\* The goroutines of every boot follow each other.
BootsWell == \A b \in Session : BootWell(b) /\ WatchWell(b)

LEMMA GuestParts == GuestInv <=> GuestPlain /\ NamesWell /\ BootsWell
BY DEF GuestInv, GuestTypeOK, GuestPlain, NamesWell, BootsWell

LEMMA GuestPartsNext == GuestPlain' /\ NamesWell' /\ BootsWell' => GuestInv'
BY DEF GuestInv, GuestTypeOK, GuestPlain, NamesWell, BootsWell

Kinds == {"start", "watch", "later", "later again"}

LEMMA GoroutineFacts ==
  /\ \A x \in Kinds : \A b \in Session : <<x, b>> \in Goroutine
  /\ \A e \in Editor : <<"edit", e>> \in Goroutine
  /\ \A x, y, b, c : <<x, b>> = <<y, c>> <=> x = y /\ b = c
  /\ Session \subseteq Nat
<1>1. \A x \in Kinds : \A b \in Session : <<x, b>> \in Goroutine
  BY DEF Goroutine, Kinds
<1>2. \A e \in Editor : <<"edit", e>> \in Goroutine
  BY DEF Goroutine
<1>3. ASSUME NEW x, NEW y, NEW b, NEW c PROVE <<x, b>> = <<y, c>> <=> x = y /\ b = c
  OBVIOUS
<1>4. Session \subseteq Nat
  BY DEF Session
<1> QED BY <1>1, <1>2, <1>3, <1>4

\* What a boot's goroutines do is kept by a step that leaves them alone.
LEMMA BootKept ==
  ASSUME NEW b \in Session, BootWell(b), WatchWell(b),
         session \in Nat, session' = session \/ session' = session + 1,
         \A x \in Kinds : place'[<<x, b>>] = place[<<x, b>>],
         okay'[<<"watch", b>>] = okay[<<"watch", b>>], news'[<<"watch", b>>] = news[<<"watch", b>>]
  PROVE  BootWell(b)' /\ WatchWell(b)'
<1>1. /\ place'[<<"start", b>>] = place[<<"start", b>>] /\ place'[<<"watch", b>>] = place[<<"watch", b>>]
      /\ place'[<<"later", b>>] = place[<<"later", b>>]
      /\ place'[<<"later again", b>>] = place[<<"later again", b>>]
  BY DEF Kinds
<1>2. WatchWell(b)'
  BY <1>1 DEF WatchWell, Reports, Begun
<1>3. b > session' => b > session
  BY DEF Session
<1> QED BY <1>1, <1>2, <1>3 DEF BootWell, Begun

\* A goroutine that sets the name, or was refused, goes on within these.
NamePlaces == {"apply", "call agent", "called", "call ssh", "back", "end", "done"}

LEMMA NameMoveKeepsBoots ==
  ASSUME GuestPlain, BootsWell, NEW p \in Goroutine, NEW s \in NamePlaces, place[p] \in NamePlaces \ {"done"},
         place' = [place EXCEPT ![p] = s], UNCHANGED <<session, okay, news>>
  PROVE  BootsWell'
<1> SUFFICES ASSUME NEW b \in Session PROVE BootWell(b)' /\ WatchWell(b)'
  BY DEF BootsWell
<1>1. p # <<"watch", b>>
  BY DEF BootsWell, WatchWell, NamePlaces, Probing
<1>2. \A q \in Goroutine : place'[q] = IF q = p THEN s ELSE place[q]
  BY DEF GuestPlain
<1>3. \A q \in Goroutine : Begun(q)' <=> Begun(q)
  BY <1>2 DEF Begun, NamePlaces
<1>4. WatchWell(b)'
  BY <1>1, <1>2, <1>3, GoroutineFacts DEF BootsWell, WatchWell, Reports, Kinds
<1>5. BootWell(b)'
  BY <1>2, <1>3, GoroutineFacts DEF BootsWell, BootWell, Kinds, Probing, NamePlaces
<1> QED BY <1>4, <1>5

\* Steps that start, refuse or probe leave alone who sets the name.
LEMMA OutsideKeepsNames ==
  ASSUME GuestPlain, NamesWell, UNCHANGED <<applied, setting, guestName, astray, naming, outcome>>,
         \A q \in Goroutine : place'[q] = place[q] \/ (~Sets(q) /\ ~Sets(q)')
  PROVE  NamesWell'
<1>1. \A q \in Goroutine : Sets(q)' <=> Sets(q)
  BY DEF Sets
<1>2. \A q \in Goroutine : Sets(q) => place'[q] = place[q]
  OBVIOUS
<1>3. \A q \in Goroutine : Worked(q)' <=> Worked(q)
  BY <1>1, <1>2 DEF Worked, Sets
<1> QED BY <1>1, <1>2, <1>3 DEF NamesWell, Sets

LEMMA VmStepsKeep ==
  ASSUME GuestInv, BootUp \/ GoDown \/ ChannelUp \/ UNCHANGED guestVars
  PROVE  GuestInv'
<1> USE GuestParts DEF hostVars, execVars, probeVars, guestVars
<1>1. CASE BootUp
  <2>a. PICK b : b = session + 1
    OBVIOUS
  <2>b. session \in 0..MaxGuestBoots /\ session < MaxGuestBoots
    BY <1>1 DEF BootUp, GuestPlain
  <2>0. b \in Session /\ session \in Nat /\ b \in 0..MaxGuestBoots /\ b > session
    BY <2>a, <2>b, GuestAssumption DEF Session
  <2>1. /\ place' = [place EXCEPT ![<<"start", b>>] = "ask agent"]
        /\ session' = b /\ up' = TRUE /\ gone' = "unknown"
        /\ UNCHANGED <<answers, fallback, wanted, applied, setting, guestName, astray,
                       naming, outcome, okay, news, missed>>
    BY <1>1, <2>a DEF BootUp, Go
  <2>2. place[<<"start", b>>] = "idle"
    BY <2>0 DEF BootsWell, BootWell, Begun
  <2>3. GuestPlain'
    BY <2>0, <2>1, GoroutineFacts DEF GuestPlain, Place, Kinds
  <2>4. NamesWell'
    <3>1. \A q \in Goroutine : place'[q] = place[q] \/ (~Sets(q) /\ ~Sets(q)')
      BY <2>1, <2>2 DEF GuestPlain, Sets
    <3> QED BY <2>1, <3>1, OutsideKeepsNames
  <2>5. ASSUME NEW c \in Session PROVE BootWell(c)' /\ WatchWell(c)'
    <3>1. CASE c = b
      <4>1. \A x \in {"watch", "later", "later again"} :
              place'[<<x, b>>] = "idle" /\ place[<<x, b>>] = "idle"
        <5>1. BootWell(b)
          BY <2>0 DEF BootsWell
        <5>2. \A x \in {"watch", "later", "later again"} : place[<<x, b>>] = "idle"
          BY <2>2, <5>1 DEF BootWell, Begun
        <5>3. \A x \in {"watch", "later", "later again"} : <<x, b>> \in Goroutine /\ <<x, b>> # <<"start", b>>
          BY <2>0, GoroutineFacts DEF Kinds
        <5> QED BY <2>1, <5>2, <5>3 DEF GuestPlain
      <4>2. place'[<<"start", b>>] = "ask agent"
        BY <2>0, <2>1, GoroutineFacts DEF GuestPlain, Kinds
      <4>3. BootWell(c)'
        <5>1. session' = c /\ c \in Nat
          BY <2>0, <2>1, <3>1, GoroutineFacts
        <5>2. ~(c > session')
          BY <5>1
        <5> QED BY <3>1, <4>1, <5>2 DEF BootWell, Begun
      <4>4. WatchWell(c)'
        BY <2>0, <2>1, <3>1, <4>1 DEF BootsWell, WatchWell, Reports, Begun, Probing
      <4> QED BY <4>3, <4>4
    <3>2. CASE c # b
      <4>1. \A x \in Kinds : place'[<<x, c>>] = place[<<x, c>>]
        BY <2>0, <2>1, <3>2, GoroutineFacts DEF GuestPlain, Kinds
      <4>2. session' = session + 1 /\ okay' = okay /\ news' = news /\ BootWell(c) /\ WatchWell(c)
        BY <2>1, <2>a DEF BootsWell
      <4> QED BY <2>0, <4>1, <4>2, BootKept
    <3> QED BY <3>1, <3>2
  <2> QED BY <2>3, <2>4, <2>5, GuestPartsNext DEF BootsWell
<1>2. CASE GoDown \/ ChannelUp \/ UNCHANGED guestVars
  <2>1. UNCHANGED <<session, place, applied, setting, guestName, astray, naming, outcome, okay,
                    news, missed, wanted, fallback>> /\ (gone' = gone)
    BY <1>2 DEF GoDown, ChannelUp
  <2>2. answers' \subseteq Channel /\ up' \in BOOLEAN
    BY <1>2 DEF GoDown, ChannelUp, GuestPlain
  <2>3. GuestPlain'
    BY <2>1, <2>2 DEF GuestPlain
  <2>4. NamesWell'
    BY <2>1, OutsideKeepsNames
  <2>5. BootsWell'
    <3>1. session \in Nat
      BY GuestAssumption DEF GuestPlain
    <3>2. ASSUME NEW b \in Session PROVE BootWell(b)' /\ WatchWell(b)'
      <4>1. session' = session /\ place' = place /\ okay' = okay /\ news' = news /\ BootWell(b) /\ WatchWell(b)
        BY <2>1 DEF BootsWell
      <4> QED BY <3>1, <4>1, BootKept
    <3> QED BY <3>2 DEF BootsWell
  <2> QED BY <2>3, <2>4, <2>5, GuestPartsNext
<1> QED BY <1>1, <1>2

\* A probe answers, for a boot or its watch.
LEMMA ProbeKeeps ==
  ASSUME GuestInv, NEW p \in Goroutine, place[p] \in Probing, place'[p] \in Probing,
         \A q \in Goroutine \ {p} : place'[q] = place[q] /\ okay'[q] = okay[q] /\ news'[q] = news[q],
         place' \in [Goroutine -> Place], okay' \in [Goroutine -> SUBSET Channel],
         news' \in [Goroutine -> BOOLEAN], gone' \in {"unknown", "no", "yes"},
         UNCHANGED <<vmVars, hostVars, execVars, missed>>,
         \A b \in Session : p = <<"watch", b>> => WatchWell(b)'
  PROVE  GuestInv'
<1> USE DEF vmVars, hostVars, execVars
<1>1. GuestPlain /\ NamesWell /\ BootsWell
  BY GuestParts
<1>2. GuestPlain'
  BY <1>1 DEF GuestPlain
<1>3. NamesWell'
  <2>1. ~Sets(p) /\ ~Sets(p)'
    BY DEF Sets, Probing
  <2>2. \A q \in Goroutine : place'[q] = place[q] \/ (~Sets(q) /\ ~Sets(q)')
    BY <2>1
  <2> QED BY <1>1, <2>2, OutsideKeepsNames
<1>4. ASSUME NEW b \in Session PROVE BootWell(b)' /\ WatchWell(b)'
  <2>1. \A q \in Goroutine : Begun(q)' <=> Begun(q)
    BY DEF Begun, Probing
  <2>2. <<"start", b>> \in Goroutine /\ <<"watch", b>> \in Goroutine
        /\ <<"later", b>> \in Goroutine /\ <<"later again", b>> \in Goroutine
    BY GoroutineFacts DEF Kinds
  <2>3. place'[<<"start", b>>] \in Probing \cup {"idle"} => place[<<"start", b>>] \in Probing \cup {"idle"}
    BY <2>2
  <2>4. BootWell(b)'
    BY <1>1, <2>1, <2>2, <2>3 DEF BootsWell, BootWell
  <2>5. CASE p # <<"watch", b>>
    <3>1. place'[<<"watch", b>>] = place[<<"watch", b>>] /\ okay'[<<"watch", b>>] = okay[<<"watch", b>>]
          /\ news'[<<"watch", b>>] = news[<<"watch", b>>]
      BY <2>2, <2>5
    <3> QED BY <1>1, <2>1, <2>2, <2>4, <3>1 DEF BootsWell, WatchWell, Reports
  <2> QED BY <2>4, <2>5
<1> QED BY <1>2, <1>3, <1>4, GuestPartsNext DEF BootsWell

LEMMA ProbesKeep ==
  ASSUME GuestInv, NEW p \in Goroutine, Probe(p)
  PROVE  GuestInv'
<1>1. GuestPlain /\ BootsWell
  BY GuestParts
<1>2. CASE AskAgent(p)
  <2>1. /\ place[p] = "ask agent" /\ place' = [place EXCEPT ![p] = "note agent"]
        /\ news' = news /\ gone' = gone /\ UNCHANGED <<vmVars, hostVars, execVars, missed>>
        /\ \/ okay' = [okay EXCEPT ![p] = @ \cup {"agent"}]
           \/ okay' = [okay EXCEPT ![p] = @ \ {"agent"}]
    BY <1>2 DEF AskAgent, Hears, Go
  <2>2. /\ place'[p] = "note agent" /\ okay'[p] \in {okay[p] \cup {"agent"}, okay[p] \ {"agent"}}
        /\ \A q \in Goroutine \ {p} : place'[q] = place[q] /\ okay'[q] = okay[q] /\ news'[q] = news[q]
        /\ place' \in [Goroutine -> Place] /\ okay' \in [Goroutine -> SUBSET Channel]
    <3>1. place' \in [Goroutine -> Place] /\ place'[p] = "note agent"
          /\ \A q \in Goroutine \ {p} : place'[q] = place[q]
      BY <1>1, <2>1 DEF GuestPlain, Place
    <3>2. okay \in [Goroutine -> SUBSET Channel] /\ "agent" \in Channel
      BY <1>1 DEF GuestPlain, Channel
    <3>3. okay' \in [Goroutine -> SUBSET Channel]
          /\ okay'[p] \in {okay[p] \cup {"agent"}, okay[p] \ {"agent"}}
          /\ \A q \in Goroutine \ {p} : okay'[q] = okay[q]
      BY <2>1, <3>2
    <3> QED BY <2>1, <3>1, <3>3
  <2>3. ASSUME NEW b \in Session, p = <<"watch", b>> PROVE WatchWell(b)'
    <3>1. WatchWell(b) /\ "agent" \notin okay[p] /\ ~news[p] /\ okay[p] \subseteq Channel
      BY <1>1, <2>1, <2>3 DEF BootsWell, WatchWell, GuestPlain
    <3>2. okay'[p] \ {"agent"} = okay[p]
      BY <2>2, <3>1
    <3>3. \A x \in {"later", "later again"} : place'[<<x, b>>] = place[<<x, b>>]
      BY <2>2, <2>3, GoroutineFacts DEF Kinds
    <3> QED BY <2>1, <2>2, <2>3, <3>1, <3>2, <3>3 DEF WatchWell, Reports, Begun, Probing
  <2> QED BY <1>1, <2>1, <2>2, <2>3, ProbeKeeps DEF Probing, GuestPlain
<1>3. CASE NoteAgent(p)
  <2>1. /\ place[p] = "note agent"
        /\ place' = [place EXCEPT ![p] = IF "ssh" \in okay[p] THEN "settle" ELSE "ask ssh"]
        /\ news' = [news EXCEPT ![p] = "agent" \in okay[p]]
        /\ gone' \in {"no", "yes"} /\ okay' = okay /\ UNCHANGED <<vmVars, hostVars, execVars, missed>>
    BY <1>3 DEF NoteAgent, Go
  <2>2. /\ place'[p] = (IF "ssh" \in okay[p] THEN "settle" ELSE "ask ssh")
        /\ news'[p] = ("agent" \in okay[p])
        /\ \A q \in Goroutine \ {p} : place'[q] = place[q] /\ okay'[q] = okay[q] /\ news'[q] = news[q]
        /\ place' \in [Goroutine -> Place] /\ news' \in [Goroutine -> BOOLEAN]
    <3>1. /\ place' \in [Goroutine -> Place] /\ \A q \in Goroutine \ {p} : place'[q] = place[q]
          /\ place'[p] = (IF "ssh" \in okay[p] THEN "settle" ELSE "ask ssh")
      BY <1>1, <2>1 DEF GuestPlain, Place
    <3>2. news \in [Goroutine -> BOOLEAN] /\ ("agent" \in okay[p]) \in BOOLEAN
      BY <1>1 DEF GuestPlain
    <3>3. /\ news' \in [Goroutine -> BOOLEAN] /\ news'[p] = ("agent" \in okay[p])
          /\ \A q \in Goroutine \ {p} : news'[q] = news[q]
      BY <2>1, <3>2
    <3> QED BY <2>1, <3>1, <3>3
  <2>3. ASSUME NEW b \in Session, p = <<"watch", b>> PROVE WatchWell(b)'
    <3>1. WatchWell(b) /\ okay[p] \subseteq Channel
      BY <1>1, <2>3 DEF BootsWell, GuestPlain
    <3>2. \A x \in {"later", "later again"} : place'[<<x, b>>] = place[<<x, b>>]
      BY <2>2, <2>3, GoroutineFacts DEF Kinds
    <3>3. /\ Begun(<<"later", b>>) => "ssh" \in okay[p]
          /\ ~Begun(<<"later again", b>>)
      BY <2>1, <2>3, <3>1 DEF WatchWell, Probing, Channel
    <3>4. place'[p] \in {"settle", "ask ssh"} /\ (place'[p] = "ask ssh" => "ssh" \notin okay[p])
          /\ (news'[p] => "agent" \in okay[p])
      BY <2>2
    <3> QED BY <2>1, <2>3, <3>1, <3>2, <3>3, <3>4 DEF WatchWell, Reports, Begun, Probing, Channel
  <2> QED BY <1>1, <2>1, <2>2, <2>3, ProbeKeeps DEF Probing, GuestPlain
<1>4. CASE AskSSH(p)
  <2>1. /\ place[p] = "ask ssh" /\ place' = [place EXCEPT ![p] = "settle"]
        /\ gone' = gone /\ UNCHANGED <<vmVars, hostVars, execVars, missed>>
    BY <1>4 DEF AskSSH, Go
  <2>2. \/ okay' = [okay EXCEPT ![p] = @ \cup {"ssh"}] /\ news' = [news EXCEPT ![p] = TRUE]
        \/ okay' = [okay EXCEPT ![p] = @ \ {"ssh"}] /\ news' = news
    <3>1. CASE fallback /\ "ssh" \in answers
      BY <1>1, <1>4, <3>1 DEF AskSSH, Hears, GuestPlain
    <3>2. CASE ~(fallback /\ "ssh" \in answers)
      BY <1>1, <1>4, <3>2 DEF AskSSH, Hears, GuestPlain
    <3> QED BY <3>1, <3>2
  <2>3. /\ place'[p] = "settle"
        /\ \A q \in Goroutine \ {p} : place'[q] = place[q] /\ okay'[q] = okay[q] /\ news'[q] = news[q]
        /\ place' \in [Goroutine -> Place] /\ okay' \in [Goroutine -> SUBSET Channel]
        /\ news' \in [Goroutine -> BOOLEAN]
    <3>1. place' \in [Goroutine -> Place] /\ place'[p] = "settle"
          /\ \A q \in Goroutine \ {p} : place'[q] = place[q]
      BY <1>1, <2>1 DEF GuestPlain, Place
    <3>2. okay \in [Goroutine -> SUBSET Channel] /\ "ssh" \in Channel
      BY <1>1 DEF GuestPlain, Channel
    <3>3. okay' \in [Goroutine -> SUBSET Channel] /\ \A q \in Goroutine \ {p} : okay'[q] = okay[q]
      BY <2>2, <3>2
    <3>4. news \in [Goroutine -> BOOLEAN]
      BY <1>1 DEF GuestPlain
    <3>5. news' \in [Goroutine -> BOOLEAN] /\ \A q \in Goroutine \ {p} : news'[q] = news[q]
      BY <2>2, <3>4
    <3> QED BY <3>1, <3>3, <3>5
  <2>4. \/ okay'[p] = okay[p] \cup {"ssh"}
        \/ okay'[p] = okay[p] \ {"ssh"} /\ (news'[p] <=> news[p])
    BY <1>1, <2>2 DEF GuestPlain
  <2>5. ASSUME NEW b \in Session, p = <<"watch", b>> PROVE WatchWell(b)'
    <3>1. WatchWell(b) /\ okay[p] \subseteq Channel
      BY <1>1, <2>5 DEF BootsWell, GuestPlain
    <3>2. \A x \in {"later", "later again"} : place'[<<x, b>>] = place[<<x, b>>]
      BY <2>3, <2>5, GoroutineFacts DEF Kinds
    <3>3. /\ "ssh" \notin okay[p] /\ ~Begun(<<"later again", b>>)
          /\ Begun(<<"later", b>>) => "agent" \in okay[p] /\ ~news[p]
          /\ news[p] => "agent" \in okay[p]
      BY <2>1, <2>5, <3>1 DEF WatchWell, Reports, Probing, Channel
    <3>4. ~Begun(<<"later again", b>>)' /\ (Begun(<<"later", b>>)' <=> Begun(<<"later", b>>))
      BY <3>2, <3>3 DEF Begun
    <3>5. /\ Begun(<<"later", b>>) \/ news'[p] => okay'[p] # {}
          /\ Begun(<<"later", b>>) /\ news'[p] => okay'[p] = Channel
      BY <2>4, <3>1, <3>3 DEF Channel
    <3> QED BY <2>3, <2>5, <3>4, <3>5 DEF WatchWell, Reports, Probing
  <2> QED BY <1>1, <2>1, <2>3, <2>5, ProbeKeeps DEF Probing, GuestPlain
<1> QED BY <1>2, <1>3, <1>4 DEF Probe

\* A boot or its watch goes on, and may start another goroutine.
LEMMA BootStepKeeps ==
  ASSUME GuestInv, NEW b \in Session,
         UNCHANGED <<vmVars, gone, hostVars, execVars>>, missed' \subseteq 0..MaxGuestBoots,
         place' \in [Goroutine -> Place], okay' \in [Goroutine -> SUBSET Channel],
         news' \in [Goroutine -> BOOLEAN],
         \A q \in Goroutine : place'[q] = place[q] \/ (~Sets(q) /\ ~Sets(q)'),
         \A c \in Session \ {b} : \A x \in Kinds :
            /\ place'[<<x, c>>] = place[<<x, c>>] /\ okay'[<<x, c>>] = okay[<<x, c>>]
            /\ news'[<<x, c>>] = news[<<x, c>>],
         BootWell(b)', WatchWell(b)'
  PROVE  GuestInv'
<1> USE DEF vmVars, hostVars, execVars
<1>1. GuestPlain /\ NamesWell /\ BootsWell
  BY GuestParts
<1>2. GuestPlain'
  BY <1>1 DEF GuestPlain
<1>3. NamesWell'
  BY <1>1, OutsideKeepsNames
<1>4. ASSUME NEW c \in Session \ {b} PROVE BootWell(c)' /\ WatchWell(c)'
  <2>1. session \in Nat /\ session' = session
    BY <1>1, GuestAssumption DEF GuestPlain
  <2>2. BootWell(c) /\ WatchWell(c)
    BY <1>1 DEF BootsWell
  <2>3. "watch" \in Kinds
    BY DEF Kinds
  <2> QED BY <2>1, <2>2, <2>3, BootKept
<1>5. BootsWell'
  BY <1>4 DEF BootsWell
<1> QED BY <1>2, <1>3, <1>5, GuestPartsNext

\* The goroutines of a boot are different ones.
LEMMA FourGoroutines ==
  ASSUME NEW b \in Session
  PROVE  /\ <<"start", b>> \in Goroutine /\ <<"watch", b>> \in Goroutine
         /\ <<"later", b>> \in Goroutine /\ <<"later again", b>> \in Goroutine
         /\ \A x, y \in Kinds : x # y => <<x, b>> # <<y, b>>
         /\ \A x, y \in Kinds : \A c \in Session \ {b} : <<x, c>> # <<y, b>> /\ <<x, c>> \in Goroutine
BY GoroutineFacts DEF Kinds

LEMMA SettleKeeps ==
  ASSUME GuestInv, NEW b \in Session, Settle(b)
  PROVE  GuestInv'
<1>0. PICK p, w : p = <<"start", b>> /\ w = <<"watch", b>>
  OBVIOUS
<1>1. PICK s \in {"apply", "done"} :
        /\ place[p] = "settle" /\ place' = [place EXCEPT ![w] = "sleep", ![p] = s]
        /\ okay' = [okay EXCEPT ![w] = okay[p], ![p] = {}]
        /\ news' = [news EXCEPT ![p] = FALSE]
        /\ UNCHANGED <<vmVars, gone, hostVars, execVars, missed>>
  BY <1>0 DEF Settle
<1>2. GuestPlain /\ BootsWell /\ p # w /\ p \in Goroutine /\ w \in Goroutine
  BY <1>0, GuestParts, FourGoroutines DEF Kinds
<1>3. /\ place' \in [Goroutine -> Place] /\ place'[p] = s /\ place'[w] = "sleep"
      /\ \A q \in Goroutine \ {p, w} : place'[q] = place[q]
  BY <1>1, <1>2 DEF GuestPlain, Place
<1>4. okay' \in [Goroutine -> SUBSET Channel] /\ \A q \in Goroutine \ {p, w} : okay'[q] = okay[q]
  BY <1>1, <1>2 DEF GuestPlain
<1>5. news' \in [Goroutine -> BOOLEAN] /\ \A q \in Goroutine \ {p} : news'[q] = news[q]
  <2>1. news \in [Goroutine -> BOOLEAN]
    BY <1>2 DEF GuestPlain
  <2> QED BY <1>1, <2>1
<1>6. \A x \in {"watch", "later", "later again"} : place[<<x, b>>] = "idle"
  BY <1>0, <1>1, <1>2 DEF BootsWell, BootWell, Begun, Probing
<1>7. BootWell(b)'
  <2>1. ~(b > session') /\ place'[<<"start", b>>] \notin Probing \cup {"idle"}
    <3>1. b \in Int /\ session \in Int /\ session' = session
      BY <1>1, <1>2 DEF Session, GuestPlain, vmVars
    <3>2. ~(b > session)
      BY <1>0, <1>1, <1>2 DEF BootsWell, BootWell, Begun
    <3> QED BY <1>0, <1>3, <3>1, <3>2 DEF Probing
  <2> QED BY <2>1 DEF BootWell
<1>8. WatchWell(b)'
  <2>1. place'[<<"later", b>>] = "idle" /\ place'[<<"later again", b>>] = "idle"
    BY <1>0, <1>3, <1>6, FourGoroutines DEF Kinds
  <2>2. ~news'[w]
    BY <1>0, <1>2, <1>5, <1>6 DEF BootsWell, WatchWell
  <2> QED BY <1>0, <1>3, <2>1, <2>2 DEF WatchWell, Reports, Begun
<1>9. \A q \in Goroutine : place'[q] = place[q] \/ (~Sets(q) /\ ~Sets(q)')
  BY <1>0, <1>1, <1>3, <1>6 DEF Sets
<1>10. ASSUME NEW c \in Session \ {b}, NEW x \in Kinds
       PROVE  /\ place'[<<x, c>>] = place[<<x, c>>] /\ okay'[<<x, c>>] = okay[<<x, c>>]
              /\ news'[<<x, c>>] = news[<<x, c>>]
  BY <1>0, <1>3, <1>4, <1>5, FourGoroutines DEF Kinds
<1>11. missed' \subseteq 0..MaxGuestBoots
  BY <1>1, <1>2 DEF GuestPlain
<1> QED BY <1>1, <1>3, <1>4, <1>5, <1>7, <1>8, <1>9, <1>10, <1>11, BootStepKeeps

\* A step of the watch, which may start another goroutine.
LEMMA WatchStepKeeps ==
  ASSUME GuestInv, NEW b \in Session, NEW w, w = <<"watch", b>>, place[w] \in Probing \cup {"sleep"},
         NEW s, s \in Probing \cup {"sleep", "done"}, NEW o \in SUBSET Channel,
         okay' = [okay EXCEPT ![w] = o], news' = [news EXCEPT ![w] = FALSE],
         \/ place' = [place EXCEPT ![w] = s]
         \/ \E h \in {<<"later", b>>, <<"later again", b>>} :
               place' = [place EXCEPT ![w] = s, ![h] = "apply"] /\ place[h] = "idle",
         UNCHANGED <<vmVars, gone, hostVars, execVars>>, missed' \subseteq 0..MaxGuestBoots,
         WatchWell(b)'
  PROVE  GuestInv'
<1>1. PICK h \in {<<"later", b>>, <<"later again", b>>} :
        \/ place' = [place EXCEPT ![w] = s]
        \/ place' = [place EXCEPT ![w] = s, ![h] = "apply"] /\ place[h] = "idle"
  OBVIOUS
<1>2. GuestPlain /\ BootsWell /\ w \in Goroutine /\ h \in Goroutine /\ w # h
  BY GuestParts, FourGoroutines DEF Kinds
<1>3. /\ place' \in [Goroutine -> Place] /\ place'[w] = s
      /\ \A q \in Goroutine \ {w, h} : place'[q] = place[q]
      /\ place'[h] = place[h] \/ (place[h] = "idle" /\ place'[h] = "apply")
  <2>1. place \in [Goroutine -> Place] /\ s \in Place /\ "apply" \in Place
    BY <1>2 DEF GuestPlain, Place, Probing
  <2>2. CASE place' = [place EXCEPT ![w] = s]
    BY <1>2, <2>1, <2>2
  <2>3. CASE place' = [place EXCEPT ![w] = s, ![h] = "apply"] /\ place[h] = "idle"
    BY <1>2, <2>1, <2>3
  <2> QED BY <1>1, <2>2, <2>3
<1>4. okay' \in [Goroutine -> SUBSET Channel] /\ \A q \in Goroutine \ {w} : okay'[q] = okay[q]
  BY <1>2 DEF GuestPlain
<1>5. news' \in [Goroutine -> BOOLEAN] /\ \A q \in Goroutine \ {w} : news'[q] = news[q]
  <2>1. news \in [Goroutine -> BOOLEAN]
    BY <1>2 DEF GuestPlain
  <2> QED BY <2>1
<1>6. BootWell(b)'
  <2>1. place'[<<"start", b>>] = place[<<"start", b>>]
    BY <1>3, FourGoroutines DEF Kinds
  <2>2. Begun(w) /\ BootWell(b)
    BY <1>2 DEF Begun, Probing, BootsWell
  <2>3. place[<<"start", b>>] \notin Probing \cup {"idle"}
    BY <2>2 DEF BootWell
  <2>4. session' = session
    BY DEF vmVars
  <2> QED BY <2>1, <2>2, <2>3, <2>4 DEF BootWell, Begun
<1>7. \A q \in Goroutine : place'[q] = place[q] \/ (~Sets(q) /\ ~Sets(q)')
  BY <1>3 DEF Sets, Probing
<1>8. ASSUME NEW c \in Session \ {b}, NEW x \in Kinds
      PROVE  /\ place'[<<x, c>>] = place[<<x, c>>] /\ okay'[<<x, c>>] = okay[<<x, c>>]
             /\ news'[<<x, c>>] = news[<<x, c>>]
  <2>1. <<x, c>> \in Goroutine /\ <<x, c>> # w /\ <<x, c>> # h
    BY FourGoroutines DEF Kinds
  <2> QED BY <1>3, <1>4, <1>5, <2>1
<1> QED BY <1>3, <1>4, <1>5, <1>6, <1>7, <1>8, BootStepKeeps

LEMMA WatchKeeps ==
  ASSUME GuestInv, NEW b \in Session, WatchWakes(b) \/ WatchEnds(b) \/ WatchSettles(b)
  PROVE  GuestInv'
<1>0. PICK w : w = <<"watch", b>>
  OBVIOUS
<1>1. /\ GuestPlain /\ BootsWell /\ WatchWell(b) /\ w \in Goroutine /\ okay[w] \subseteq Channel
      /\ place[w] \in {"sleep", "settle"}
  BY <1>0, GuestParts, FourGoroutines DEF GuestPlain, BootsWell, WatchWakes, WatchEnds, WatchSettles
<1>2. PICK first, again : first = <<"later", b>> /\ again = <<"later again", b>>
  OBVIOUS
<1>3. first \in Goroutine /\ again \in Goroutine /\ first # again /\ first # w /\ again # w
  BY <1>0, <1>2, FourGoroutines DEF Kinds
<1>4. /\ Begun(again) => Begun(first)
      /\ Begun(first) \/ news[w] => okay[w] # {}
      /\ Begun(again) \/ (Begun(first) /\ news[w]) => okay[w] = Channel
      /\ ~(Begun(again) /\ news[w])
  BY <1>0, <1>1, <1>2 DEF WatchWell, Reports, Probing
\* The watch by itself: what it knows of the channels is no less than it was, or it ends.
<1>5. ASSUME NEW s \in Probing \cup {"sleep", "done"}, NEW o \in SUBSET Channel,
             place' = [place EXCEPT ![w] = s], okay' = [okay EXCEPT ![w] = o],
             news' = [news EXCEPT ![w] = FALSE],
             s # "done" => okay[w] \subseteq o /\ s # "note agent",
             s = "ask agent" => "agent" \notin o, s = "ask ssh" => "ssh" \notin o
      PROVE  WatchWell(b)'
  <2>1. /\ place'[w] = s /\ place'[first] = place[first] /\ place'[again] = place[again]
        /\ okay'[w] = o
    BY <1>1, <1>3, <1>5 DEF GuestPlain
  <2>2. ~news'[w]
    <3>1. news \in [Goroutine -> BOOLEAN]
      BY <1>1 DEF GuestPlain
    <3> QED BY <1>1, <1>5, <3>1
  <2>3. (Begun(first)' <=> Begun(first)) /\ (Begun(again)' <=> Begun(again))
    BY <2>1 DEF Begun
  <2>4. s # "done" => /\ Begun(first) => o # {}
                      /\ Begun(again) => o = Channel
    BY <1>4, <1>5
  <2> QED BY <1>0, <1>2, <1>4, <1>5, <2>1, <2>2, <2>3, <2>4 DEF WatchWell, Reports, Probing
<1>6. CASE WatchWakes(b)
  <2>1. PICK s \in Probing \cup {"sleep", "done"}, o \in SUBSET Channel :
          /\ place' = [place EXCEPT ![w] = s] /\ okay' = [okay EXCEPT ![w] = o]
          /\ news' = [news EXCEPT ![w] = FALSE]
          /\ s # "done" => okay[w] \subseteq o /\ s # "note agent"
          /\ s = "ask agent" => "agent" \notin o
          /\ s = "ask ssh" => "ssh" \notin o
    <3>1. CASE okay[w] = Channel \/ ~(up /\ session = b)
      <4>1. place' = [place EXCEPT ![w] = "done"] /\ okay' = [okay EXCEPT ![w] = {}]
            /\ news' = [news EXCEPT ![w] = FALSE]
        BY <1>0, <1>6, <3>1 DEF WatchWakes, Go
      <4>2. "done" \in Probing \cup {"sleep", "done"} /\ {} \in SUBSET Channel
            /\ "done" # "ask agent" /\ "done" # "ask ssh"
        OBVIOUS
      <4> QED BY <4>1, <4>2
    <3>2. CASE ~(okay[w] = Channel \/ ~(up /\ session = b))
      <4>1. PICK o : o = IF fallback THEN okay[w] ELSE okay[w] \cup {"ssh"}
        OBVIOUS
      <4>2. okay' = [okay EXCEPT ![w] = o] /\ news' = [news EXCEPT ![w] = FALSE]
        BY <1>0, <1>6, <3>2, <4>1 DEF WatchWakes
      <4>3. PICK s : s = IF "agent" \notin okay[w] THEN "ask agent"
                         ELSE IF fallback THEN "ask ssh" ELSE "settle"
        OBVIOUS
      <4>4. place' = [place EXCEPT ![w] = s]
        BY <1>0, <1>6, <3>2, <4>3 DEF WatchWakes, Go
      <4>5. s \in Probing /\ s # "note agent" /\ o \in SUBSET Channel /\ okay[w] \subseteq o
        BY <1>1, <4>1, <4>3 DEF Probing, Channel
      <4>6. (s = "ask agent" => "agent" \notin o) /\ (s = "ask ssh" => "ssh" \notin o)
        BY <1>1, <3>2, <4>1, <4>3 DEF Channel
      <4> QED BY <4>2, <4>4, <4>5, <4>6
    <3> QED BY <3>1, <3>2
  <2>2. WatchWell(b)'
    BY <1>5, <2>1
  <2>3. UNCHANGED <<vmVars, gone, hostVars, execVars>> /\ missed' \subseteq 0..MaxGuestBoots
    BY <1>1, <1>6 DEF WatchWakes, GuestPlain
  <2> QED BY <1>0, <1>1, <2>1, <2>2, <2>3, WatchStepKeeps DEF Probing
<1>7. CASE WatchEnds(b)
  <2>1. place' = [place EXCEPT ![w] = "done"] /\ okay' = [okay EXCEPT ![w] = {}]
        /\ missed' = missed \cup {b} /\ place[w] = "sleep" /\ news' = news
        /\ UNCHANGED <<vmVars, gone, hostVars, execVars>>
    BY <1>0, <1>7 DEF WatchEnds, Go
  <2>2. news' = [news EXCEPT ![w] = FALSE]
    <3>1. news \in [Goroutine -> BOOLEAN]
      BY <1>1 DEF GuestPlain
    <3>2. news[w] = FALSE
      BY <1>0, <1>1, <2>1, <3>1 DEF WatchWell
    <3>3. news = [news EXCEPT ![w] = FALSE]
      BY <1>1, <3>1, <3>2, Zenon
    <3> QED BY <2>1, <3>3
  <2>3. "done" \in Probing \cup {"sleep", "done"} /\ {} \in SUBSET Channel
        /\ "done" # "ask agent" /\ "done" # "ask ssh"
    OBVIOUS
  <2>5. WatchWell(b)'
    BY <1>5, <2>1, <2>2, <2>3
  <2>4. missed' \subseteq 0..MaxGuestBoots
    <3>1. missed' = missed \cup {b} /\ missed \subseteq 0..MaxGuestBoots
      BY <1>1, <2>1 DEF GuestPlain
    <3>2. b \in 0..MaxGuestBoots
      BY GuestAssumption DEF Session
    <3> QED BY <3>1, <3>2
  <2> QED BY <1>0, <1>1, <2>1, <2>2, <2>3, <2>4, <2>5, WatchStepKeeps DEF Probing
<1>8. CASE WatchSettles(b)
  <2>1. /\ place[w] = "settle" /\ news' = [news EXCEPT ![w] = FALSE] /\ okay' = okay
        /\ place' = [place EXCEPT ![w] = "sleep", ![Helper(b)] = IF news[w] THEN "apply" ELSE @]
        /\ UNCHANGED <<vmVars, gone, hostVars, execVars, missed>>
    BY <1>0, <1>8 DEF WatchSettles
  <2>2. PICK h \in {first, again} : h = Helper(b) /\ (place[first] = "idle" <=> h = first)
    BY <1>2, <1>3 DEF Helper
  <2>3. okay' = [okay EXCEPT ![w] = okay[w]] /\ okay[w] \in SUBSET Channel
    BY <1>1, <2>1 DEF GuestPlain
  <2>4. missed' \subseteq 0..MaxGuestBoots
    BY <1>1, <2>1 DEF GuestPlain
  <2>5. CASE ~news[w]
    <3>1. place' = [place EXCEPT ![w] = "sleep"]
      BY <1>1, <1>3, <2>1, <2>2, <2>5 DEF GuestPlain
    <3>2. WatchWell(b)'
      <4>1. PICK o : o = okay[w]
        OBVIOUS
      <4> QED BY <1>5, <2>1, <2>3, <3>1, <4>1
    <3>3. PICK o \in SUBSET Channel : okay' = [okay EXCEPT ![w] = o]
      BY <2>3
    <3> QED BY <1>0, <1>1, <1>2, <2>1, <2>4, <3>1, <3>2, <3>3, WatchStepKeeps DEF Probing
  <2>6. CASE news[w]
    <3>1. place' = [place EXCEPT ![w] = "sleep", ![h] = "apply"]
      BY <2>1, <2>2, <2>6
    <3>2. place[h] = "idle"
      BY <1>4, <2>2, <2>6 DEF Begun
    <3>3. /\ place'[w] = "sleep" /\ place'[h] = "apply" /\ okay'[w] = okay[w]
          /\ \A q \in {first, again} \ {h} : place'[q] = place[q]
      BY <1>1, <1>3, <2>1, <2>2, <3>1 DEF GuestPlain
    <3>4. ~news'[w]
      <4>1. news \in [Goroutine -> BOOLEAN]
        BY <1>1 DEF GuestPlain
      <4> QED BY <1>1, <2>1, <4>1
    <3>5. WatchWell(b)'
      BY <1>0, <1>2, <1>3, <1>4, <2>2, <2>6, <3>2, <3>3, <3>4 DEF WatchWell, Reports, Begun, Probing
    <3>6. PICK o \in SUBSET Channel : okay' = [okay EXCEPT ![w] = o]
      BY <2>3
    <3> QED BY <1>0, <1>1, <1>2, <2>1, <2>2, <2>4, <3>1, <3>2, <3>5, <3>6, WatchStepKeeps DEF Probing
  <2> QED BY <2>5, <2>6
<1> QED BY <1>6, <1>7, <1>8

\* What a goroutine that sets the name, or was refused, has to get right itself.
LEMMA NameStepKeeps ==
  ASSUME GuestInv, NEW p \in Goroutine, place[p] \in NamePlaces \ {"done"},
         NEW s \in NamePlaces, place' = [place EXCEPT ![p] = s],
         UNCHANGED <<vmVars, probeVars>>, gone' \in {gone, "yes"},
         missed' \in {missed, missed \cup {session}},
         applied' \in HostName \cup {Unmanaged}, guestName' \in HostName \cup {Unmanaged},
         astray' \in BOOLEAN, setting' \in BOOLEAN,
         NEW n \in HostName \cup {Unmanaged}, naming' = [naming EXCEPT ![p] = n],
         NEW e \in Outcomes \cup {"none"}, outcome' = [outcome EXCEPT ![p] = e],
         Sets(p)' => Sets(p) \/ ~setting, Sets(p) \/ guestName' = guestName,
         IF Sets(p)' THEN setting' = TRUE ELSE IF Sets(p) THEN setting' = FALSE ELSE setting' = setting,
         ~Sets(p)' \/ s = "call agent" => e = "none",
         s = "call ssh" => e # "worked",
         s \in {"called", "back"} /\ e = "worked" => guestName' = n,
         ~astray' /\ applied' # Unmanaged /\ guestName' # applied' =>
            \/ Worked(p)'
            \/ ~Sets(p) /\ ~Sets(p)' /\ ~astray /\ applied' = applied /\ guestName' = guestName
  PROVE  GuestInv'
<1> USE DEF vmVars, probeVars
<1>1. GuestPlain /\ NamesWell /\ BootsWell
  BY GuestParts
<1>2. /\ place' \in [Goroutine -> Place] /\ place'[p] = s
      /\ \A q \in Goroutine \ {p} : place'[q] = place[q]
  BY <1>1 DEF GuestPlain, Place, NamePlaces
<1>3. /\ naming' \in [Goroutine -> HostName \cup {Unmanaged}] /\ naming'[p] = n
      /\ \A q \in Goroutine \ {p} : naming'[q] = naming[q]
  BY <1>1 DEF GuestPlain
<1>4. /\ outcome' \in [Goroutine -> Outcomes \cup {"none"}] /\ outcome'[p] = e
      /\ \A q \in Goroutine \ {p} : outcome'[q] = outcome[q]
  BY <1>1 DEF GuestPlain
<1>5. GuestPlain'
  <2>1. gone' \in {"unknown", "no", "yes"} /\ missed' \subseteq 0..MaxGuestBoots
    BY <1>1 DEF GuestPlain
  <2> QED BY <1>1, <1>2, <1>3, <1>4, <2>1 DEF GuestPlain
<1>6. BootsWell'
  BY <1>1, NameMoveKeepsBoots
<1>7. \A q \in Goroutine \ {p} : (Sets(q)' <=> Sets(q)) /\ (Worked(q)' <=> Worked(q))
  BY <1>2, <1>4 DEF Sets, Worked
<1>8. \A q, r \in Goroutine : Sets(q)' /\ Sets(r)' => q = r
  BY <1>1, <1>7 DEF NamesWell
<1>9. setting' <=> \E q \in Goroutine : Sets(q)'
  <2>1. CASE Sets(p)'
    BY <2>1
  <2>2. CASE ~Sets(p)' /\ Sets(p)
    BY <1>1, <1>7, <2>2 DEF NamesWell
  <2>3. CASE ~Sets(p)' /\ ~Sets(p)
    <3>1. setting <=> \E q \in Goroutine : Sets(q)
      BY <1>1 DEF NamesWell
    <3>2. (\E q \in Goroutine : Sets(q)') <=> (\E q \in Goroutine : Sets(q))
      BY <1>7, <2>3
    <3> QED BY <2>3, <3>1, <3>2
  <2> QED BY <2>1, <2>2, <2>3
<1>10. ASSUME NEW q \in Goroutine
       PROVE  /\ ~Sets(q)' \/ place'[q] = "call agent" => outcome'[q] = "none"
              /\ place'[q] = "call ssh" => outcome'[q] # "worked"
              /\ Worked(q)' => guestName' = naming'[q]
  <2>1. CASE q = p
    BY <1>2, <1>3, <1>4, <2>1 DEF Worked
  <2>2. CASE q # p
    <3>1. /\ ~Sets(q) \/ place[q] = "call agent" => outcome[q] = "none"
          /\ place[q] = "call ssh" => outcome[q] # "worked"
          /\ Worked(q) => guestName = naming[q]
      BY <1>1 DEF NamesWell
    <3>2. Worked(q) => guestName' = guestName
      BY <1>1, <2>2 DEF Worked, Sets, NamesWell
    <3> QED BY <1>2, <1>3, <1>4, <1>7, <2>2, <3>1, <3>2
  <2> QED BY <2>1, <2>2
<1>11. ~astray' /\ applied' # Unmanaged /\ guestName' # applied' => \E q \in Goroutine : Worked(q)'
  <2> SUFFICES ASSUME ~astray', applied' # Unmanaged, guestName' # applied', ~Worked(p)'
               PROVE  \E q \in Goroutine : Worked(q)'
    OBVIOUS
  <2>1. ~Sets(p) /\ ~astray /\ applied' = applied /\ guestName' = guestName
    OBVIOUS
  <2>2. PICK q \in Goroutine : Worked(q)
    BY <1>1, <2>1 DEF NamesWell
  <2>3. q # p
    BY <2>1, <2>2 DEF Worked, Sets
  <2> QED BY <1>7, <2>2, <2>3
<1>12. NamesWell'
  BY <1>8, <1>9, <1>10, <1>11 DEF NamesWell
<1> QED BY <1>5, <1>6, <1>12, GuestPartsNext

\* What is known of a goroutine that sets the name, from its place.
LEMMA NameFacts ==
  ASSUME GuestInv, NEW p \in Goroutine
  PROVE  /\ naming = [naming EXCEPT ![p] = naming[p]] /\ naming[p] \in HostName \cup {Unmanaged}
         /\ outcome = [outcome EXCEPT ![p] = outcome[p]] /\ outcome[p] \in Outcomes \cup {"none"}
         /\ {wanted, applied, guestName} \subseteq HostName \cup {Unmanaged}
         /\ {setting, astray} \subseteq BOOLEAN
         /\ Sets(p) => setting
         /\ ~Sets(p) \/ place[p] = "call agent" => outcome[p] = "none"
         /\ place[p] = "call ssh" => outcome[p] # "worked"
         /\ Worked(p) => guestName = naming[p]
         /\ Sets(p) /\ ~astray /\ applied # Unmanaged /\ guestName # applied => Worked(p)
         /\ ~setting /\ ~astray /\ applied # Unmanaged => guestName = applied
<1>1. GuestPlain /\ NamesWell
  BY GuestParts
<1>2. ASSUME Sets(p), NEW q \in Goroutine, Worked(q) PROVE q = p
  BY <1>1, <1>2 DEF Worked, Sets, NamesWell
<1>3. ASSUME ~setting, NEW q \in Goroutine, Worked(q) PROVE FALSE
  BY <1>1, <1>3 DEF Worked, Sets, NamesWell
<1>4. naming = [naming EXCEPT ![p] = naming[p]] /\ outcome = [outcome EXCEPT ![p] = outcome[p]]
  BY <1>1 DEF GuestPlain
<1>5. /\ Sets(p) => setting
      /\ ~Sets(p) \/ place[p] = "call agent" => outcome[p] = "none"
      /\ place[p] = "call ssh" => outcome[p] # "worked"
      /\ Worked(p) => guestName = naming[p]
  BY <1>1 DEF NamesWell
<1>6. /\ Sets(p) /\ ~astray /\ applied # Unmanaged /\ guestName # applied => Worked(p)
      /\ ~setting /\ ~astray /\ applied # Unmanaged => guestName = applied
  BY <1>1, <1>2, <1>3 DEF NamesWell
<1> QED BY <1>1, <1>4, <1>5, <1>6 DEF GuestPlain

\* The place a step leads to, as a property of the next state.
LEMMA SetsNext ==
  ASSUME GuestInv, NEW p \in Goroutine, NEW s, place' = [place EXCEPT ![p] = s]
  PROVE  /\ Sets(p)' <=> s \in {"call agent", "called", "call ssh", "back", "end"}
         /\ Worked(p)' <=> s \in {"called", "back"} /\ outcome'[p] = "worked"
BY GuestParts DEF GuestPlain, Sets, Worked

LEMMA RefuseKeeps ==
  ASSUME GuestInv, NEW p \in Goroutine, Refuse(p)
  PROVE  GuestInv'
<1>1. /\ place[p] = "apply" /\ place' = [place EXCEPT ![p] = "done"]
      /\ missed' \in {missed, missed \cup {session}}
      /\ UNCHANGED <<vmVars, gone, hostVars, execVars, probeVars>>
  BY DEF Refuse, Go, Miss
<1>2. ~Sets(p) /\ ~Sets(p)' /\ "done" \in NamePlaces /\ place[p] \in NamePlaces \ {"done"}
  BY <1>1, SetsNext DEF Sets, NamePlaces
<1>3. PICK n, e : n = naming[p] /\ e = outcome[p]
  OBVIOUS
<1>4. naming' = [naming EXCEPT ![p] = n] /\ outcome' = [outcome EXCEPT ![p] = e]
      /\ UNCHANGED <<vmVars, probeVars, gone, applied, setting, guestName, astray>>
  BY <1>1, <1>3, NameFacts DEF execVars, hostVars
<1> QED BY <1>1, <1>2, <1>3, <1>4, NameFacts, NameStepKeeps

LEMMA BeginKeeps ==
  ASSUME GuestInv, NEW p \in Goroutine, Begin(p)
  PROVE  GuestInv'
<1>1. PICK s \in {"call ssh", "call agent"} :
        /\ place[p] = "apply" /\ ~setting /\ setting' = TRUE
        /\ place' = [place EXCEPT ![p] = s]
        /\ naming' = [naming EXCEPT ![p] = wanted]
        /\ UNCHANGED <<vmVars, gone, applied, guestName, astray, outcome, probeVars, missed>>
  BY DEF Begin, Go, MayApply
<1>2. ~Sets(p) /\ Sets(p)' /\ s \in NamePlaces /\ place[p] \in NamePlaces \ {"done"}
  BY <1>1, SetsNext DEF Sets, NamePlaces
<1>3. PICK n, e : n = wanted /\ e = outcome[p]
  OBVIOUS
<1>4. e = "none" /\ outcome' = [outcome EXCEPT ![p] = e] /\ naming' = [naming EXCEPT ![p] = n]
      /\ n \in HostName \cup {Unmanaged} /\ e \in Outcomes \cup {"none"}
  BY <1>1, <1>2, <1>3, NameFacts
<1>5. UNCHANGED <<vmVars, probeVars, gone, missed, applied, guestName, astray>>
      /\ {applied', guestName'} \subseteq HostName \cup {Unmanaged} /\ astray' \in BOOLEAN
  BY <1>1, NameFacts
<1>6. ~(~astray' /\ applied' # Unmanaged /\ guestName' # applied')
  <2>1. ~setting
    BY <1>1
  <2>2. ~(~astray /\ applied # Unmanaged /\ guestName # applied)
    BY <2>1, NameFacts
  <2> QED BY <1>5, <2>2
<1>7. place' = [place EXCEPT ![p] = s] /\ setting' = TRUE /\ setting' \in BOOLEAN /\ ~setting
  BY <1>1
<1>8. missed' \in {missed, missed \cup {session}} /\ gone' \in {gone, "yes"}
  BY <1>5
<1> QED BY <1>2, <1>4, <1>5, <1>6, <1>7, <1>8, NameStepKeeps

\* A command through the agent or over SSH.
LEMMA CallKeeps ==
  ASSUME GuestInv, NEW p \in Goroutine, CallAgent(p) \/ CallSSH(p)
  PROVE  GuestInv'
<1>1. PICK s \in {"called", "back"} :
        /\ place[p] \in {"call agent", "call ssh"} /\ place' = [place EXCEPT ![p] = s]
        /\ \/ \E e \in Outcomes : Runs(p, e)
           \/ UNCHANGED <<outcome, guestName, astray>>
        /\ UNCHANGED <<vmVars, gone, applied, setting, naming, probeVars, missed>>
  BY DEF CallAgent, CallSSH, Go, Outcomes
<1>2. Sets(p) /\ Sets(p)' /\ s \in NamePlaces /\ place[p] \in NamePlaces \ {"done"}
  BY <1>1, SetsNext DEF Sets, NamePlaces
<1>3. outcome[p] # "worked" /\ ~Worked(p)
  BY <1>1, NameFacts DEF Worked
<1>4. PICK n : n = naming[p] /\ naming' = [naming EXCEPT ![p] = n] /\ n \in HostName \cup {Unmanaged}
  BY <1>1, NameFacts
<1>5. setting' = TRUE /\ setting' \in BOOLEAN /\ applied' \in HostName \cup {Unmanaged}
  <2>1. setting /\ setting \in BOOLEAN
    BY <1>2, NameFacts
  <2> QED BY <1>1, <2>1, NameFacts
<1>6. CASE UNCHANGED <<outcome, guestName, astray>>
  <2>1. PICK e : e = outcome[p] /\ outcome' = [outcome EXCEPT ![p] = e] /\ e \in Outcomes \cup {"none"}
    BY <1>6, NameFacts
  <2>2. ~(~astray' /\ applied' # Unmanaged /\ guestName' # applied')
    BY <1>1, <1>2, <1>3, <1>6, NameFacts
  <2>3. guestName' \in HostName \cup {Unmanaged} /\ astray' \in BOOLEAN
    BY <1>6, NameFacts
  <2>4. e # "worked"
    BY <1>3, <2>1
  <2> QED BY <1>1, <1>2, <1>4, <1>5, <2>1, <2>2, <2>3, <2>4, NameStepKeeps
<1>7. ASSUME NEW e \in Outcomes, Runs(p, e) PROVE GuestInv'
  <2>1. /\ outcome' = [outcome EXCEPT ![p] = e]
        /\ guestName' \in {guestName, naming[p]} /\ (e = "worked" => guestName' = naming[p])
        /\ astray' = (e # "worked" /\ (astray \/ guestName' # guestName))
    BY <1>7 DEF Runs
  <2>2. guestName' \in HostName \cup {Unmanaged} /\ astray' \in BOOLEAN
    BY <2>1, NameFacts
  <2>3. outcome'[p] = e
    BY <2>1, GuestParts DEF GuestPlain
  <2>4. ~astray' /\ applied' # Unmanaged /\ guestName' # applied' => Worked(p)'
    <3>1. CASE e = "worked"
      BY <1>1, <2>3, <3>1, SetsNext
    <3>2. CASE e # "worked"
      <4>1. ~astray' => ~astray /\ guestName' = guestName
        BY <2>1, <3>2
      <4> QED BY <1>1, <1>2, <1>3, <4>1, NameFacts
    <3> QED BY <3>1, <3>2
  <2>5. e = "worked" => guestName' = n
    BY <1>4, <2>1
  <2> QED BY <1>1, <1>2, <1>4, <1>5, <2>1, <2>2, <2>4, <2>5, NameStepKeeps
<1> QED BY <1>1, <1>6, <1>7

LEMMA AnsweredKeeps ==
  ASSUME GuestInv, NEW p \in Goroutine, AgentAnswered(p)
  PROVE  GuestInv'
<1>1. PICK s \in {"call ssh", "back"} :
        /\ place[p] = "called" /\ place' = [place EXCEPT ![p] = s]
        /\ s = "call ssh" => outcome[p] # "worked"
        /\ gone' \in {gone, "yes"}
        /\ UNCHANGED <<vmVars, hostVars, execVars, probeVars, missed>>
  BY DEF AgentAnswered, Go, Handled
<1>2. Sets(p) /\ Sets(p)' /\ s \in NamePlaces /\ place[p] \in NamePlaces \ {"done"}
  BY <1>1, SetsNext DEF Sets, NamePlaces
<1>3. PICK n, e : n = naming[p] /\ e = outcome[p]
  OBVIOUS
<1>4. naming' = [naming EXCEPT ![p] = n] /\ outcome' = [outcome EXCEPT ![p] = e]
      /\ n \in HostName \cup {Unmanaged} /\ e \in Outcomes \cup {"none"}
      /\ UNCHANGED <<vmVars, probeVars, applied, setting, guestName, astray, missed, outcome>>
  BY <1>1, <1>3, NameFacts DEF execVars, hostVars
<1>5. setting' = TRUE /\ setting' \in BOOLEAN /\ astray' \in BOOLEAN
      /\ {applied', guestName'} \subseteq HostName \cup {Unmanaged}
  <2>1. setting /\ setting \in BOOLEAN
    BY <1>2, NameFacts
  <2> QED BY <1>4, <2>1, NameFacts
<1>6. Worked(p) => Worked(p)' /\ guestName' = n
  <2>1. Worked(p) => outcome[p] = "worked" /\ guestName = naming[p]
    BY NameFacts DEF Worked
  <2>2. outcome'[p] = outcome[p]
    BY <1>4
  <2> QED BY <1>1, <1>3, <1>4, <2>1, <2>2, SetsNext
<1>7. ~astray' /\ applied' # Unmanaged /\ guestName' # applied' => Worked(p)'
  BY <1>2, <1>4, <1>6, NameFacts
<1>8. e = "worked" => guestName' = n
  BY <1>1, <1>3, <1>6 DEF Worked
<1> QED BY <1>1, <1>2, <1>3, <1>4, <1>5, <1>7, <1>8, NameStepKeeps

LEMMA FinishedKeeps ==
  ASSUME GuestInv, NEW p \in Goroutine, Finished(p) \/ EndApply(p)
  PROVE  GuestInv'
<1>1. CASE Finished(p)
  <2>1. /\ place[p] = "back" /\ place' = [place EXCEPT ![p] = "end"]
        /\ IF outcome[p] = "worked" THEN applied' = naming[p] ELSE applied' = applied
        /\ missed' \in {missed, missed \cup {session}}
        /\ UNCHANGED <<vmVars, gone, setting, guestName, astray, execVars, probeVars>>
    BY <1>1 DEF Finished, Go, Miss
  <2>2. Sets(p) /\ Sets(p)' /\ "end" \in NamePlaces /\ place[p] \in NamePlaces \ {"done"}
    BY <2>1, SetsNext DEF Sets, NamePlaces
  <2>3. PICK n, e : n = naming[p] /\ e = outcome[p]
    OBVIOUS
  <2>4. naming' = [naming EXCEPT ![p] = n] /\ outcome' = [outcome EXCEPT ![p] = e]
        /\ n \in HostName \cup {Unmanaged} /\ e \in Outcomes \cup {"none"}
    BY <2>1, <2>3, NameFacts DEF execVars
  <2>5. setting' = TRUE /\ setting' \in BOOLEAN /\ astray' \in BOOLEAN
        /\ {applied', guestName'} \subseteq HostName \cup {Unmanaged}
    <3>1. setting /\ setting \in BOOLEAN
      BY <2>2, NameFacts
    <3> QED BY <2>1, <3>1, NameFacts
  <2>6. ~(~astray' /\ applied' # Unmanaged /\ guestName' # applied')
    BY <2>1, <2>2, NameFacts DEF Worked
  <2> QED BY <2>1, <2>2, <2>4, <2>5, <2>6, NameStepKeeps
<1>2. CASE EndApply(p)
  <2>1. /\ place[p] = "end" /\ place' = [place EXCEPT ![p] = "done"] /\ setting' = FALSE
        /\ naming' = [naming EXCEPT ![p] = Unmanaged] /\ outcome' = [outcome EXCEPT ![p] = "none"]
        /\ UNCHANGED <<vmVars, gone, applied, guestName, astray, probeVars, missed>>
    BY <1>2 DEF EndApply, Go
  <2>2. Sets(p) /\ ~Sets(p)' /\ "done" \in NamePlaces /\ place[p] \in NamePlaces \ {"done"}
    <3>1. place' = [place EXCEPT ![p] = "done"]
      BY <2>1
    <3>2. Sets(p)' <=> "done" \in {"call agent", "called", "call ssh", "back", "end"}
      BY <3>1, SetsNext
    <3> QED BY <2>1, <3>2 DEF Sets, NamePlaces
  <2>3. astray' \in BOOLEAN /\ {applied', guestName'} \subseteq HostName \cup {Unmanaged}
    BY <2>1, NameFacts
  <2>4. ~(~astray' /\ applied' # Unmanaged /\ guestName' # applied')
    BY <2>1, <2>2, NameFacts DEF Worked
  <2> QED BY <2>1, <2>2, <2>3, <2>4, NameStepKeeps
<1> QED BY <1>1, <1>2

LEMMA EditNameKeeps ==
  ASSUME GuestInv, NEW e \in Editor, EditName(e)
  PROVE  GuestInv'
<1>0. PICK p : p = <<"edit", e>>
  OBVIOUS
<1>1. PICK s \in {"apply", "done"} :
        /\ place[p] = "idle" /\ place' = [place EXCEPT ![p] = s] /\ wanted' \in HostName
        /\ UNCHANGED <<session, up, answers, fallback, gone, hostVars, execVars, probeVars, missed>>
  BY <1>0 DEF EditName, Go
<1>2. GuestPlain /\ NamesWell /\ BootsWell /\ p \in Goroutine
  BY <1>0, GuestParts, GoroutineFacts
<1>3. /\ place' \in [Goroutine -> Place] /\ place'[p] = s
      /\ \A q \in Goroutine \ {p} : place'[q] = place[q]
  BY <1>1, <1>2 DEF GuestPlain, Place
<1>4. GuestPlain'
  BY <1>1, <1>2, <1>3 DEF GuestPlain, hostVars, execVars, probeVars
<1>5. NamesWell'
  <2>1. \A q \in Goroutine : place'[q] = place[q] \/ (~Sets(q) /\ ~Sets(q)')
    BY <1>1, <1>3 DEF Sets
  <2> QED BY <1>1, <1>2, <2>1, OutsideKeepsNames DEF hostVars, execVars
<1>6. ASSUME NEW b \in Session PROVE BootWell(b)' /\ WatchWell(b)'
  <2>1. \A x \in Kinds : place'[<<x, b>>] = place[<<x, b>>]
    BY <1>0, <1>3, GoroutineFacts DEF Kinds
  <2>2. BootWell(b) /\ WatchWell(b) /\ session \in Nat
    BY <1>2, GuestAssumption DEF BootsWell, GuestPlain
  <2>3. session' = session /\ okay' = okay /\ news' = news
    BY <1>1 DEF probeVars
  <2> QED BY <2>1, <2>2, <2>3, BootKept
<1> QED BY <1>4, <1>5, <1>6, GuestPartsNext DEF BootsWell

LEMMA GuestInitWell == GuestInit => GuestInv
<1> SUFFICES ASSUME GuestInit PROVE GuestInv
  OBVIOUS
<1> USE DEF GuestInit
<1>1. GuestPlain
  <2>1. 0 \in 0..MaxGuestBoots
    BY GuestAssumption
  <2>2. {wanted, applied, guestName} \subseteq HostName \cup {Unmanaged}
    <3>1. wanted \in HostName \cup {Unmanaged}
      BY GuestAssumption DEF HostName, Unmanaged
    <3> QED BY <3>1
  <2>3. {up, setting, fallback, astray} \subseteq BOOLEAN
    OBVIOUS
  <2>4. news \in [Goroutine -> BOOLEAN] /\ place \in [Goroutine -> Place]
        /\ okay \in [Goroutine -> SUBSET Channel] /\ outcome \in [Goroutine -> Outcomes \cup {"none"}]
        /\ naming \in [Goroutine -> HostName \cup {Unmanaged}]
    BY DEF Place
  <2> QED BY <2>1, <2>2, <2>3, <2>4 DEF GuestPlain
<1>2. \A p \in Goroutine : place[p] = "idle" /\ outcome[p] = "none" /\ ~news[p]
  OBVIOUS
<1>3. NamesWell
  BY <1>2 DEF NamesWell, Sets, Worked
<1>4. BootsWell
  BY <1>2, GoroutineFacts DEF BootsWell, BootWell, WatchWell, Begun, Reports, Probing, Kinds
<1> QED BY <1>1, <1>3, <1>4, GuestParts

LEMMA GuestInvKept == GuestInv /\ [GuestNext]_guestVars => GuestInv'
BY VmStepsKeep, ProbesKeep, RefuseKeeps, BeginKeeps, CallKeeps, AnsweredKeeps, FinishedKeeps,
   SettleKeeps, WatchKeeps, EditNameKeeps
   DEF GuestNext, SetName, Boots

\* The name noted as applied is the guest's own when nobody is setting it and no command
\* went astray (guestexec.go and hostname.go: hostnameBusy, and the note after the command).
THEOREM AppliedTrueAlways == GuestInit /\ [][GuestNext]_guestVars => []AppliedTrue
<1>1. GuestInv => AppliedTrue
  BY DEF GuestInv, GuestTypeOK, Worked, Sets, AppliedTrue
<1>2. GuestInit /\ [][GuestNext]_guestVars => []GuestInv
  BY GuestInitWell, GuestInvKept, PTL
<1> QED BY <1>1, <1>2, PTL

-----------------------------------------------------------------------------
(* The run history *)

\* HistoryInv in four parts: the types, what the goroutines of the boots and the flags
\* say of each other, the files and the order of the entries, and the enrolments.
HistoryPlain ==
    /\ powered \subseteq Machine /\ enroll \subseteq Machine
    /\ shows \in [Machine -> Active \cup {"stopped", "stopping"}]
    /\ op \in [Machine -> {"none", "run", "stop"}]
    /\ entry \in [Boot -> {"open", "closed", "unknown"}]
    /\ doing \in [Boot -> {"idle", "boots", "up", "enrolls", "over"}]
    /\ ran \in [Boot -> {{}} \cup {{n} : n \in Machine}]
    /\ armed \in [Machine -> Nat] /\ enrolled \in [Machine -> Nat]
RunsWell ==
    /\ \A b \in Boot : doing[b] = "idle" <=> ran[b] = {}
    /\ \A n \in Machine : op[n] = "run" <=> \E b \in Boot : doing[b] = "boots" /\ ran[b] = {n}
    /\ \A b \in Boot : ran[b] # {} => \A k \in 1..(b - 1) : ran[k] # {}
    /\ \A b \in Boot : doing[b] \in {"idle", "boots"} => entry[b] = "open"
    /\ \A b, c \in Boot : doing[b] = "boots" /\ doing[c] = "boots" /\ ran[b] = ran[c] => b = c
FileWell ==
    /\ saved.enroll = enroll /\ saved.entry = entry
    /\ saved.shows \in [Machine -> Active \cup {"stopped", "stopping"}]
    /\ Ascending(history) /\ Ascending(saved.history)
ArmsWell ==
    \A n \in Machine :
        Cardinality(Enrolling(n)) + (IF n \in enroll THEN 1 ELSE 0) + enrolled[n] <= armed[n]

LEMMA HistoryParts == HistoryInv <=> HistoryPlain /\ RunsWell /\ FileWell /\ ArmsWell
BY DEF HistoryInv, HistoryTypeOK, HistoryPlain, RunsWell, FileWell, ArmsWell, Ascending

LEMMA HistoryPartsNext == HistoryPlain' /\ RunsWell' /\ FileWell' /\ ArmsWell' => HistoryInv'
BY DEF HistoryInv, HistoryTypeOK, HistoryPlain, RunsWell, FileWell, ArmsWell, Ascending

\* The boots of a VM that are about to enrol it are finitely many.
LEMMA EnrollingFacts ==
  ASSUME HistoryInv, NEW n \in Machine
  PROVE  /\ IsFiniteSet(Boot)
         /\ Enrolling(n) \subseteq Boot /\ IsFiniteSet(Enrolling(n))
         /\ Cardinality(Enrolling(n)) \in Nat
         /\ armed[n] \in Nat /\ enrolled[n] \in Nat
         /\ Cardinality(Enrolling(n)) + (IF n \in enroll THEN 1 ELSE 0) + enrolled[n] <= armed[n]
<1>1. IsFiniteSet(Boot)
  BY FS_Interval, HistoryAssumption DEF Boot
<1>2. Enrolling(n) \subseteq Boot
  BY DEF Enrolling
<1>3. IsFiniteSet(Enrolling(n)) /\ Cardinality(Enrolling(n)) \in Nat
  BY <1>1, <1>2, FS_Subset, FS_CardinalityType
<1> QED BY <1>1, <1>2, <1>3, HistoryParts DEF HistoryPlain, ArmsWell

\* Pruning a history of boots that were made, in the order of their starts, leaves one.
LEMMA PrunedFacts ==
  ASSUME NEW h, h \in Seq(Boot), \A i, j \in DOMAIN h : i < j => h[i] < h[j],
         NEW g \in Pruned(h)
  PROVE  /\ g \in Seq(Boot)
         /\ \A i \in DOMAIN g : \E j \in DOMAIN h : g[i] = h[j]
         /\ \A i, j \in DOMAIN g : i < j => g[i] < g[j]
<1>1. PICK k \in 1..(Len(h) + 1) : g = SubSeq(h, k, Len(h))
  BY DEF Pruned
<1>2. Len(h) \in Nat /\ DOMAIN h = 1..Len(h) /\ \A i \in k..Len(h) : h[i] \in Boot
  BY LenProperties, ElementOfSeq
<1>3. /\ g \in Seq(Boot)
      /\ Len(g) = (IF k <= Len(h) THEN Len(h) - k + 1 ELSE 0)
      /\ \A i \in 1..(Len(h) - k + 1) : g[i] = h[k + i - 1]
  BY <1>1, <1>2, SubSeqProperties
<1>4. DOMAIN g = 1..(Len(h) - k + 1)
  BY <1>2, <1>3, LenProperties
<1>5. ASSUME NEW i \in DOMAIN g
      PROVE  k + i - 1 \in DOMAIN h /\ g[i] = h[k + i - 1] /\ i \in Int
  BY <1>1, <1>2, <1>3, <1>4, <1>5
<1>6. \A i, j \in DOMAIN g : i < j => g[i] < g[j]
  <2> SUFFICES ASSUME NEW i \in DOMAIN g, NEW j \in DOMAIN g, i < j
               PROVE  g[i] < g[j]
    OBVIOUS
  <2>1. k + i - 1 < k + j - 1
    BY <1>5
  <2> QED BY <1>5, <2>1
<1> QED BY <1>3, <1>5, <1>6

\* A step that makes no boot leaves an ascending history so.
LEMMA AscendingKept ==
  ASSUME NEW h, Ascending(h), NEW g \in Pruned(h), UNCHANGED ran
  PROVE  /\ g \in Seq(Boot)
         /\ \A i \in DOMAIN g : ran'[g[i]] # {}
         /\ \A i, j \in DOMAIN g : i < j => g[i] < g[j]
BY PrunedFacts DEF Ascending

\* A step that leaves the boots and the flags of the VMs alone keeps the count of arms.
LEMMA ArmsKept ==
  ASSUME HistoryInv, UNCHANGED <<ran, armed, enrolled>>, enroll' \subseteq enroll,
         \A b \in Boot : (doing[b] = "enrolls") <=> (doing'[b] = "enrolls")
  PROVE  ArmsWell'
<1>1. ASSUME NEW n \in Machine PROVE Enrolling(n)' = Enrolling(n)
  BY DEF Enrolling
<1> QED BY <1>1, EnrollingFacts DEF ArmsWell

LEMMA RunKeeps ==
  ASSUME HistoryInv, NEW b \in Boot, NEW n \in Machine, Run(b, n)
  PROVE  HistoryInv'
<1>0. HistoryPlain /\ RunsWell /\ FileWell
  BY HistoryParts
<1>1. /\ ran[b] = {} /\ (\A k \in 1..(b - 1) : ran[k] # {}) /\ op[n] = "none"
      /\ shows' = [shows EXCEPT ![n] = "starting"] /\ op' = [op EXCEPT ![n] = "run"]
      /\ doing' = [doing EXCEPT ![b] = "boots"] /\ ran' = [ran EXCEPT ![b] = {n}]
      /\ entry' = [entry EXCEPT ![b] = "open"]
      /\ UNCHANGED <<powered, enroll, armed, enrolled>>
  BY DEF Run, Holds, Shows, Goes, auxVars
<1>2. /\ history' \in Pruned(Append(history, b))
      /\ saved'.history = history' /\ saved'.enroll = enroll' /\ saved'.entry = entry'
      /\ saved'.shows = shows'
  BY DEF Run, Save, State
<1>3. HistoryPlain'
  <2>1. shows' \in [Machine -> Active \cup {"stopped", "stopping"}]
    BY <1>0, <1>1 DEF HistoryPlain, Active
  <2>2. op' \in [Machine -> {"none", "run", "stop"}]
    BY <1>0, <1>1 DEF HistoryPlain
  <2>3. entry' \in [Boot -> {"open", "closed", "unknown"}]
    BY <1>0, <1>1 DEF HistoryPlain
  <2>4. doing' \in [Boot -> {"idle", "boots", "up", "enrolls", "over"}]
    BY <1>0, <1>1 DEF HistoryPlain
  <2>5. ran' \in [Boot -> {{}} \cup {{m} : m \in Machine}]
    BY <1>0, <1>1 DEF HistoryPlain
  <2> QED BY <1>0, <1>1, <2>1, <2>2, <2>3, <2>4, <2>5 DEF HistoryPlain
<1>4. /\ doing[b] = "idle" /\ doing'[b] = "boots" /\ ran'[b] = {n} /\ entry'[b] = "open"
      /\ \A c \in Boot \ {b} : doing'[c] = doing[c] /\ ran'[c] = ran[c] /\ entry'[c] = entry[c]
      /\ op'[n] = "run" /\ \A m \in Machine \ {n} : op'[m] = op[m]
  BY <1>0, <1>1 DEF HistoryPlain, RunsWell
<1>5. RunsWell'
  <2>1. \A c \in Boot : doing'[c] = "idle" <=> ran'[c] = {}
    BY <1>0, <1>4 DEF RunsWell
  <2>2. ASSUME NEW m \in Machine
        PROVE  op'[m] = "run" <=> \E c \in Boot : doing'[c] = "boots" /\ ran'[c] = {m}
    <3>1. CASE m = n
      BY <1>4, <3>1
    <3>2. CASE m # n
      <4>1. op'[m] = op[m] /\ {n} # {m}
        BY <1>4, <3>2
      <4>2. \A c \in Boot : (doing'[c] = "boots" /\ ran'[c] = {m})
                              <=> (doing[c] = "boots" /\ ran[c] = {m})
        BY <1>4, <4>1
      <4> QED BY <1>0, <4>1, <4>2 DEF RunsWell
    <3> QED BY <3>1, <3>2
  <2>3. ASSUME NEW c \in Boot, ran'[c] # {}, NEW k \in 1..(c - 1)
        PROVE  ran'[k] # {}
    <3>1. k \in Boot
      BY HistoryAssumption DEF Boot
    <3>2. ran[k] # {} => ran'[k] # {}
      BY <1>1, <1>4, <3>1
    <3>3. CASE c = b
      BY <1>1, <3>2, <3>3
    <3>4. CASE c # b
      BY <1>0, <1>4, <2>3, <3>2, <3>4 DEF RunsWell
    <3> QED BY <3>3, <3>4
  <2>4. \A c \in Boot : doing'[c] \in {"idle", "boots"} => entry'[c] = "open"
    BY <1>0, <1>4 DEF RunsWell
  <2>5. ASSUME NEW c \in Boot, NEW d \in Boot, doing'[c] = "boots", doing'[d] = "boots",
               ran'[c] = ran'[d]
        PROVE  c = d
    <3>1. \A e \in Boot : doing[e] = "boots" => ran[e] # {n}
      BY <1>0, <1>1 DEF RunsWell
    <3>2. \A e \in Boot \ {b} : doing'[e] = "boots" => doing[e] = "boots" /\ ran'[e] = ran[e]
                                                        /\ ran'[e] # {n}
      BY <1>4, <3>1
    <3> QED BY <1>0, <1>4, <2>5, <3>2 DEF RunsWell
  <2>6. \A c \in Boot : ran'[c] # {} => \A k \in 1..(c - 1) : ran'[k] # {}
    BY <2>3
  <2>7. \A c, d \in Boot : doing'[c] = "boots" /\ doing'[d] = "boots" /\ ran'[c] = ran'[d] => c = d
    BY <2>5
  <2> QED BY <2>1, <2>2, <2>6, <2>4, <2>7 DEF RunsWell
<1>6. FileWell'
  <2>1. ASSUME NEW c \in Boot, ran[c] # {} PROVE c < b /\ ran'[c] # {}
    <3>1. c # b /\ ~(b \in 1..(c - 1))
      BY <1>0, <1>1, <2>1 DEF RunsWell
    <3> QED BY <1>4, <2>1, <3>1 DEF Boot
  <2>2. /\ history \in Seq(Boot)
        /\ \A i \in DOMAIN history : history[i] \in Boot /\ ran[history[i]] # {}
        /\ \A i, j \in DOMAIN history : i < j => history[i] < history[j]
    BY <1>0, ElementOfSeq, LenProperties DEF FileWell, Ascending
  <2> DEFINE g == Append(history, b)
  <2>3. /\ g \in Seq(Boot) /\ Len(g) = Len(history) + 1
        /\ \A i \in 1..Len(history) : g[i] = history[i]
        /\ g[Len(history) + 1] = b
    BY <2>2, AppendProperties
  <2>4. DOMAIN g = 1..(Len(history) + 1) /\ DOMAIN history = 1..Len(history) /\ Len(history) \in Nat
    BY <2>2, <2>3, LenProperties
  <2> HIDE DEF g
  <2>5. ASSUME NEW i \in DOMAIN g
        PROVE  /\ g[i] \in Boot /\ ran'[g[i]] # {}
               /\ (i \in DOMAIN history /\ g[i] = history[i]) \/ (i = Len(history) + 1 /\ g[i] = b)
    <3>1. CASE i \in 1..Len(history)
      BY <2>1, <2>2, <2>3, <2>4, <3>1
    <3>2. CASE i = Len(history) + 1
      BY <1>4, <2>3, <3>2
    <3> QED BY <2>4, <3>1, <3>2
  <2>6. ASSUME NEW i \in DOMAIN g, NEW j \in DOMAIN g, i < j
        PROVE  g[i] < g[j]
    <3>1. i \in DOMAIN history /\ g[i] = history[i]
      BY <2>4, <2>5, <2>6
    <3>2. CASE j \in DOMAIN history /\ g[j] = history[j]
      BY <2>2, <2>6, <3>1, <3>2
    <3>3. CASE g[j] = b
      BY <2>1, <2>2, <3>1, <3>3
    <3> QED BY <2>5, <3>2, <3>3
  <2>7. history' \in Pruned(g)
    BY <1>2 DEF g
  <2>8. /\ history' \in Seq(Boot)
        /\ \A i \in DOMAIN history' : \E j \in DOMAIN g : history'[i] = g[j]
        /\ \A i, j \in DOMAIN history' : i < j => history'[i] < history'[j]
    BY <2>3, <2>6, <2>7, PrunedFacts
  <2>9. \A i \in DOMAIN history' : ran'[history'[i]] # {}
    BY <2>5, <2>8
  <2> QED BY <1>2, <1>3, <2>8, <2>9 DEF FileWell, HistoryPlain, Ascending
<1>7. ArmsWell'
  <2>1. ASSUME NEW m \in Machine PROVE Enrolling(m)' = Enrolling(m)
    BY <1>4 DEF Enrolling
  <2> QED BY <1>1, <2>1, EnrollingFacts DEF ArmsWell
<1> QED BY <1>3, <1>5, <1>6, <1>7, HistoryPartsNext

\* What RunsWell asks of a step that makes no boot.
LEMMA RunsKept ==
  ASSUME HistoryInv, UNCHANGED ran,
         \A c \in Boot : doing'[c] = "idle" <=> doing[c] = "idle",
         \A c \in Boot : doing'[c] = "boots" => doing[c] = "boots",
         \A c \in Boot : doing'[c] \in {"idle", "boots"} => entry'[c] = "open",
         \A m \in Machine : op'[m] = "run" <=> \E c \in Boot : doing'[c] = "boots" /\ ran[c] = {m}
  PROVE  RunsWell'
<1>1. RunsWell
  BY HistoryParts
<1>2. \A c \in Boot : doing'[c] = "idle" <=> ran'[c] = {}
  BY <1>1 DEF RunsWell
<1>3. \A m \in Machine : op'[m] = "run" <=> \E c \in Boot : doing'[c] = "boots" /\ ran'[c] = {m}
  OBVIOUS
<1>4. \A c, d \in Boot : doing'[c] = "boots" /\ doing'[d] = "boots" /\ ran'[c] = ran'[d] => c = d
  BY <1>1 DEF RunsWell
<1>5. \A c \in Boot : ran'[c] # {} => \A k \in 1..(c - 1) : ran'[k] # {}
  BY <1>1 DEF RunsWell
<1> QED BY <1>2, <1>3, <1>4, <1>5 DEF RunsWell

\* What FileWell asks of a step that leaves the history, and saves or changes nothing.
LEMMA FileKept ==
  ASSUME HistoryInv, HistoryPlain', UNCHANGED <<history, ran>>,
         Save \/ UNCHANGED <<saved, enroll, entry>>
  PROVE  FileWell'
<1>1. FileWell
  BY HistoryParts
<1>2. Ascending(history)'
  BY <1>1 DEF FileWell, Ascending
<1>3. CASE Save
  <2>1. /\ saved'.history = history' /\ saved'.enroll = enroll' /\ saved'.entry = entry'
        /\ saved'.shows = shows'
    BY <1>3 DEF Save, State
  <2> QED BY <1>2, <2>1 DEF FileWell, HistoryPlain, Ascending
<1>4. CASE UNCHANGED <<saved, enroll, entry>>
  <2>1. Ascending(saved.history)'
    BY <1>1, <1>4 DEF FileWell, Ascending
  <2> QED BY <1>1, <1>2, <1>4, <2>1 DEF FileWell
<1> QED BY <1>3, <1>4

\* A boot that ends its first section, well or not, gives the flag of its VM back.
LEMMA BootSettles ==
  ASSUME HistoryInv, NEW b \in Boot, NEW n \in Machine, NEW l \in {"up", "over"},
         NEW s \in {"running", "stopped"}, NEW v \in {"open", "closed"},
         doing[b] = "boots", ran[b] = {n},
         Goes(b, l), Shows(n, s), Holds(n, "none"), powered' \subseteq Machine,
         entry' = [entry EXCEPT ![b] = v], UNCHANGED <<enroll, history, ran, auxVars>>,
         Save \/ UNCHANGED <<saved, entry>>
  PROVE  HistoryInv'
<1>0. HistoryPlain /\ RunsWell
  BY HistoryParts
<1>1. /\ shows' = [shows EXCEPT ![n] = s] /\ op' = [op EXCEPT ![n] = "none"]
      /\ doing' = [doing EXCEPT ![b] = l] /\ UNCHANGED <<ran, enroll, armed, enrolled>>
  BY DEF Shows, Holds, Goes, auxVars
<1>2. HistoryPlain'
  <2>1. shows' \in [Machine -> Active \cup {"stopped", "stopping"}]
    BY <1>0, <1>1 DEF HistoryPlain, Active
  <2>2. op' \in [Machine -> {"none", "run", "stop"}]
    BY <1>0, <1>1 DEF HistoryPlain
  <2>3. entry' \in [Boot -> {"open", "closed", "unknown"}]
    BY <1>0, <1>1 DEF HistoryPlain
  <2>4. doing' \in [Boot -> {"idle", "boots", "up", "enrolls", "over"}]
    BY <1>0, <1>1 DEF HistoryPlain
  <2> QED BY <1>0, <1>1, <2>1, <2>2, <2>3, <2>4 DEF HistoryPlain
<1>3. /\ doing'[b] = l /\ \A c \in Boot \ {b} : doing'[c] = doing[c] /\ entry'[c] = entry[c]
      /\ op'[n] = "none" /\ \A m \in Machine \ {n} : op'[m] = op[m]
  BY <1>0, <1>1 DEF HistoryPlain
<1>4. RunsWell'
  <2>1. \A c \in Boot : doing'[c] = "idle" <=> doing[c] = "idle"
    BY <1>3
  <2>2. \A c \in Boot : doing'[c] = "boots" => doing[c] = "boots"
    BY <1>3
  <2>3. \A c \in Boot : doing'[c] \in {"idle", "boots"} => entry'[c] = "open"
    BY <1>0, <1>3 DEF RunsWell
  <2>4. ASSUME NEW m \in Machine
        PROVE  op'[m] = "run" <=> \E c \in Boot : doing'[c] = "boots" /\ ran[c] = {m}
    <3>1. CASE m = n
      <4>1. ASSUME NEW c \in Boot, doing[c] = "boots", ran[c] = {n} PROVE c = b
        <5>1. \A x, y \in Boot : doing[x] = "boots" /\ doing[y] = "boots" /\ ran[x] = ran[y] => x = y
          BY <1>0 DEF RunsWell
        <5>2. doing[b] = "boots" /\ ran[b] = {n}
          OBVIOUS
        <5> QED BY ONLY <4>1, <5>1, <5>2
      <4>2. \A c \in Boot : ~(doing'[c] = "boots" /\ ran[c] = {n})
        BY <1>3, <4>1
      <4> QED BY <1>3, <3>1, <4>2
    <3>2. CASE m # n
      <4>1. op'[m] = op[m] /\ ran[b] # {m}
        BY <1>3, <3>2
      <4>2. \A c \in Boot : (doing'[c] = "boots" /\ ran[c] = {m})
                              <=> (doing[c] = "boots" /\ ran[c] = {m})
        BY <1>3, <4>1
      <4> QED BY <1>0, <4>1, <4>2 DEF RunsWell
    <3> QED BY <3>1, <3>2
  <2> QED BY <2>1, <2>2, <2>3, <2>4, <1>1, RunsKept
<1>5. FileWell'
  BY <1>1, <1>2, FileKept
<1>6. ArmsWell'
  BY <1>1, <1>3, ArmsKept
<1> QED BY <1>2, <1>4, <1>5, <1>6, HistoryPartsNext

LEMMA BootEndsKeep ==
  ASSUME HistoryInv, NEW b \in Boot, NEW n \in Machine,
         LaunchFails(b, n) \/ BootFails(b, n) \/ ComesUp(b, n)
  PROVE  HistoryInv'
<1>0. HistoryPlain /\ RunsWell
  BY HistoryParts
<1>1. CASE LaunchFails(b, n)
  <2>1. entry' = [entry EXCEPT ![b] = "open"] /\ UNCHANGED <<saved, entry>>
    BY <1>0, <1>1 DEF LaunchFails, runVars, HistoryPlain, RunsWell
  <2>2. powered' \subseteq Machine
    BY <1>0, <1>1 DEF LaunchFails, HistoryPlain
  <2>3. /\ doing[b] = "boots" /\ ran[b] = {n} /\ Goes(b, "over") /\ Shows(n, "stopped")
        /\ Holds(n, "none") /\ UNCHANGED <<enroll, history, ran, auxVars>>
    BY <1>1 DEF LaunchFails, runVars
  <2> QED BY <2>1, <2>2, <2>3, BootSettles
<1>2. CASE BootFails(b, n)
  <2>1. powered' \subseteq Machine
    BY <1>0, <1>2 DEF BootFails, HistoryPlain
  <2>2. /\ doing[b] = "boots" /\ ran[b] = {n} /\ Goes(b, "over") /\ Shows(n, "stopped")
        /\ Holds(n, "none") /\ UNCHANGED <<enroll, history, ran, auxVars>> /\ Save
        /\ entry' = [entry EXCEPT ![b] = "closed"]
    BY <1>2 DEF BootFails
  <2> QED BY <2>1, <2>2, BootSettles
<1>3. CASE ComesUp(b, n)
  <2>1. entry' = [entry EXCEPT ![b] = "open"]
    BY <1>0, <1>3 DEF ComesUp, runVars, HistoryPlain, RunsWell
  <2>2. powered' \subseteq Machine
    BY <1>0, <1>3 DEF ComesUp, HistoryPlain
  <2>3. /\ doing[b] = "boots" /\ ran[b] = {n} /\ Goes(b, "up") /\ Shows(n, "running")
        /\ Holds(n, "none") /\ UNCHANGED <<enroll, history, ran, auxVars>> /\ Save
    BY <1>3 DEF ComesUp, runVars
  <2> QED BY <2>1, <2>2, <2>3, BootSettles
<1> QED BY <1>1, <1>2, <1>3

\* A boot that takes the flag has it to itself: the count moves from the flag to the boot.
LEMMA TakeAutoEnrollKeeps ==
  ASSUME HistoryInv, NEW b \in Boot, NEW n \in Machine, TakeAutoEnroll(b, n)
  PROVE  HistoryInv'
<1>0. HistoryPlain /\ RunsWell
  BY HistoryParts
<1>1. PICK to \in (IF n \in enroll THEN {"enrolls", "over"} ELSE {"over"}) : Goes(b, to)
  BY DEF TakeAutoEnroll
<1>2. /\ doing[b] = "up" /\ ran[b] = {n} /\ enroll' = enroll \ {n}
      /\ doing' = [doing EXCEPT ![b] = to]
      /\ UNCHANGED <<powered, shows, op, history, entry, ran, armed, enrolled>> /\ Save
  BY <1>1 DEF TakeAutoEnroll, Cleared, Goes, runVars, auxVars
<1>3. HistoryPlain'
  <2>1. doing' \in [Boot -> {"idle", "boots", "up", "enrolls", "over"}]
    BY <1>0, <1>2 DEF HistoryPlain
  <2> QED BY <1>0, <1>2, <2>1 DEF HistoryPlain
<1>4. doing'[b] = to /\ \A c \in Boot \ {b} : doing'[c] = doing[c]
  BY <1>0, <1>2 DEF HistoryPlain
<1>5. RunsWell'
  <2>1. \A c \in Boot : /\ doing'[c] = "idle" <=> doing[c] = "idle"
                        /\ doing'[c] = "boots" <=> doing[c] = "boots"
    BY <1>2, <1>4
  <2> QED BY <1>0, <1>2, <2>1, RunsKept DEF RunsWell
<1>6. FileWell'
  BY <1>2, <1>3, FileKept
<1>7. ASSUME NEW m \in Machine
      PROVE  Cardinality(Enrolling(m))' + (IF m \in enroll' THEN 1 ELSE 0) + enrolled'[m] <= armed'[m]
  <2>1. CASE m = n /\ to = "enrolls"
    <3>1. Enrolling(n)' = Enrolling(n) \cup {b} /\ b \notin Enrolling(n)
      BY <1>2, <1>4, <2>1 DEF Enrolling
    <3>2. Cardinality(Enrolling(n) \cup {b}) = Cardinality(Enrolling(n)) + 1
      BY <3>1, EnrollingFacts, FS_AddElement
    <3>3. n \in enroll /\ n \notin enroll'
      BY <1>2, <2>1
    <3> QED BY <1>2, <2>1, <3>1, <3>2, <3>3, EnrollingFacts
  <2>2. CASE ~(m = n /\ to = "enrolls")
    <3>1. Enrolling(m)' = Enrolling(m)
      BY <1>2, <1>4, <2>2 DEF Enrolling
    <3> QED BY <1>2, <3>1, EnrollingFacts
  <2> QED BY <2>1, <2>2
<1> QED BY <1>3, <1>5, <1>6, <1>7, HistoryPartsNext DEF ArmsWell

\* And when it runs the enrolment, from the boot to the enrolments.
LEMMA RunAutoEnrollKeeps ==
  ASSUME HistoryInv, NEW b \in Boot, NEW n \in Machine, RunAutoEnroll(b, n)
  PROVE  HistoryInv'
<1>0. HistoryPlain /\ RunsWell
  BY HistoryParts
<1>1. /\ doing[b] = "enrolls" /\ ran[b] = {n} /\ enrolled' = [enrolled EXCEPT ![n] = @ + 1]
      /\ doing' = [doing EXCEPT ![b] = "over"]
      /\ UNCHANGED <<powered, shows, op, enroll, history, entry, ran, saved, armed>>
  BY DEF RunAutoEnroll, Goes, runVars
<1>2. HistoryPlain'
  <2>1. doing' \in [Boot -> {"idle", "boots", "up", "enrolls", "over"}]
    BY <1>0, <1>1 DEF HistoryPlain
  <2>2. enrolled' \in [Machine -> Nat]
    BY <1>0, <1>1 DEF HistoryPlain
  <2> QED BY <1>0, <1>1, <2>1, <2>2 DEF HistoryPlain
<1>3. /\ doing'[b] = "over" /\ \A c \in Boot \ {b} : doing'[c] = doing[c]
      /\ enrolled'[n] = enrolled[n] + 1 /\ \A m \in Machine \ {n} : enrolled'[m] = enrolled[m]
  BY <1>0, <1>1 DEF HistoryPlain
<1>4. RunsWell'
  <2>1. \A c \in Boot : /\ doing'[c] = "idle" <=> doing[c] = "idle"
                        /\ doing'[c] = "boots" <=> doing[c] = "boots"
    BY <1>1, <1>3
  <2> QED BY <1>0, <1>1, <2>1, RunsKept DEF RunsWell
<1>5. FileWell'
  BY <1>1, <1>2, FileKept
<1>6. ASSUME NEW m \in Machine
      PROVE  Cardinality(Enrolling(m))' + (IF m \in enroll' THEN 1 ELSE 0) + enrolled'[m] <= armed'[m]
  <2>1. CASE m = n
    <3>1. Enrolling(n)' = Enrolling(n) \ {b} /\ b \in Enrolling(n)
      BY <1>1, <1>3 DEF Enrolling
    <3>2. Cardinality(Enrolling(n) \ {b}) = Cardinality(Enrolling(n)) - 1
      BY <3>1, EnrollingFacts, FS_RemoveElement
    <3> QED BY <1>1, <1>3, <2>1, <3>1, <3>2, EnrollingFacts
  <2>2. CASE m # n
    <3>1. Enrolling(m)' = Enrolling(m)
      BY <1>1, <1>3, <2>2 DEF Enrolling
    <3> QED BY <1>1, <1>3, <2>2, <3>1, EnrollingFacts
  <2> QED BY <2>1, <2>2
<1> QED BY <1>2, <1>4, <1>5, <1>6, HistoryPartsNext DEF ArmsWell

\* What a stop closes is one of the VM's open entries; no boot of it is under way.
LEMMA CloseFacts ==
  ASSUME HistoryInv, NEW n \in Machine, op[n] # "run"
  PROVE  /\ Close(entry, history, n) \in [Boot -> {"open", "closed", "unknown"}]
         /\ \A b \in Boot : entry[b] # "open" => Close(entry, history, n)[b] = entry[b]
         /\ \A b \in Boot : doing[b] \in {"idle", "boots"} => Close(entry, history, n)[b] = "open"
<1>0. HistoryPlain /\ RunsWell
  BY HistoryParts
<1>1. Close(entry, history, n) \in [Boot -> {"open", "closed", "unknown"}]
  BY <1>0 DEF Close, HistoryPlain
<1>2. ASSUME NEW b \in Boot
      PROVE  Close(entry, history, n)[b] = entry[b] \/ (entry[b] = "open" /\ ran[b] = {n})
  <2>1. CASE \E i \in Latest(Open(history, entry, n)) : history[i] = b
    BY <2>1 DEF Latest, Open
  <2>2. CASE ~\E i \in Latest(Open(history, entry, n)) : history[i] = b
    BY <2>2 DEF Close
  <2> QED BY <2>1, <2>2
<1>3. ASSUME NEW b \in Boot, doing[b] \in {"idle", "boots"}
      PROVE  ran[b] # {n} /\ entry[b] = "open"
  BY <1>0, <1>3 DEF RunsWell
<1> QED BY <1>1, <1>2, <1>3

LEMMA StopDoneKeeps ==
  ASSUME HistoryInv, NEW n \in Machine, StopDone(n)
  PROVE  HistoryInv'
<1>0. HistoryPlain /\ RunsWell
  BY HistoryParts
<1>1. /\ op[n] = "stop" /\ powered' \in {powered, powered \ {n}}
      /\ shows' = [shows EXCEPT ![n] = "stopped"] /\ op' = [op EXCEPT ![n] = "none"]
      /\ entry' = Close(entry, history, n)
      /\ UNCHANGED <<enroll, history, ran, doing, armed, enrolled>> /\ Save
  BY DEF StopDone, Shows, Holds, auxVars
<1>2. HistoryPlain'
  <2>1. shows' \in [Machine -> Active \cup {"stopped", "stopping"}]
    BY <1>0, <1>1 DEF HistoryPlain
  <2>2. op' \in [Machine -> {"none", "run", "stop"}]
    BY <1>0, <1>1 DEF HistoryPlain
  <2>3. entry' \in [Boot -> {"open", "closed", "unknown"}] /\ powered' \subseteq Machine
    BY <1>0, <1>1, CloseFacts DEF HistoryPlain
  <2> QED BY <1>0, <1>1, <2>1, <2>2, <2>3 DEF HistoryPlain
<1>3. RunsWell'
  <2>1. \A m \in Machine : op'[m] = "run" <=> op[m] = "run"
    BY <1>0, <1>1 DEF HistoryPlain
  <2>2. \A b \in Boot : doing'[b] \in {"idle", "boots"} => entry'[b] = "open"
    BY <1>1, CloseFacts
  <2> QED BY <1>0, <1>1, <2>1, <2>2, RunsKept DEF RunsWell
<1>4. FileWell'
  BY <1>1, <1>2, FileKept
<1>5. ArmsWell'
  BY <1>1, ArmsKept
<1> QED BY <1>2, <1>3, <1>4, <1>5, HistoryPartsNext

\* The steps outside the boots: a stop begins, a guest goes off, a reconcile lists the VMs.
LEMMA OutsideBootsKeep ==
  ASSUME HistoryInv,
         (\E n \in Machine : DoStop(n) \/ GuestOff(n)) \/ Reconcile
  PROVE  HistoryInv'
<1>0. HistoryPlain /\ RunsWell
  BY HistoryParts
<1>1. UNCHANGED <<enroll, history, entry, ran, doing, saved, armed, enrolled>>
  BY DEF DoStop, GuestOff, Reconcile, runVars, auxVars
<1>2. /\ powered' \subseteq Machine
      /\ shows' \in [Machine -> Active \cup {"stopped", "stopping"}]
      /\ op' \in [Machine -> {"none", "run", "stop"}]
      /\ \A m \in Machine : op'[m] = "run" <=> op[m] = "run"
  <2>1. ASSUME NEW n \in Machine, DoStop(n) PROVE <1>2!:
    BY <1>0, <2>1 DEF DoStop, Shows, Holds, HistoryPlain
  <2>2. ASSUME NEW n \in Machine, GuestOff(n) PROVE <1>2!:
    BY <1>0, <2>2 DEF GuestOff, HistoryPlain
  <2>3. ASSUME Reconcile PROVE <1>2!:
    BY <1>0, <2>3 DEF Reconcile, Listed, HistoryPlain, Active
  <2> QED BY <2>1, <2>2, <2>3
<1>3. HistoryPlain'
  BY <1>0, <1>1, <1>2 DEF HistoryPlain
<1>4. RunsWell'
  BY <1>0, <1>1, <1>2, RunsKept DEF RunsWell
<1>5. FileWell'
  BY <1>1, <1>3, FileKept
<1>6. ArmsWell'
  BY <1>1, ArmsKept
<1> QED BY <1>3, <1>4, <1>5, <1>6, HistoryPartsNext

LEMMA ArmKeeps ==
  ASSUME HistoryInv, NEW n \in Machine, Arm(n)
  PROVE  HistoryInv'
<1>0. HistoryPlain /\ RunsWell
  BY HistoryParts
<1>1. /\ armed' = [armed EXCEPT ![n] = @ + 1] /\ enroll' = enroll \cup {n}
      /\ UNCHANGED <<powered, shows, op, history, entry, ran, doing, enrolled>> /\ Save
  BY DEF Arm, runVars
<1>2. HistoryPlain'
  <2>1. armed' \in [Machine -> Nat]
    BY <1>0, <1>1 DEF HistoryPlain
  <2> QED BY <1>0, <1>1, <2>1 DEF HistoryPlain
<1>3. RunsWell'
  BY <1>0, <1>1, RunsKept DEF RunsWell
<1>4. FileWell'
  BY <1>1, <1>2, FileKept
<1>5. ASSUME NEW m \in Machine
      PROVE  Cardinality(Enrolling(m))' + (IF m \in enroll' THEN 1 ELSE 0) + enrolled'[m] <= armed'[m]
  <2>1. Enrolling(m)' = Enrolling(m)
    BY <1>1 DEF Enrolling
  <2>2. armed'[m] = (IF m = n THEN armed[m] + 1 ELSE armed[m])
    BY <1>0, <1>1 DEF HistoryPlain
  <2> QED BY <1>1, <2>1, <2>2, EnrollingFacts
<1> QED BY <1>2, <1>3, <1>4, <1>5, HistoryPartsNext DEF ArmsWell

\* What a restart does to the entries: it closes open ones, and of a VM it keeps none but
\* its newest one, where the VM is up (closeStaleHistory).
LEMMA CloseStaleFacts ==
  ASSUME HistoryInv, NEW h \in Pruned(saved.history), NEW s
  PROVE  /\ CloseStale(h, entry, s) \in [Boot -> {"open", "closed", "unknown"}]
         /\ \A b \in Boot : entry[b] # "open" => CloseStale(h, entry, s)[b] = entry[b]
         /\ \A i \in DOMAIN h : h[i] \in Boot
         /\ \A n \in Machine : \A i \in Open(h, CloseStale(h, entry, s), n) :
               s[n] \in Active /\ i \in Latest(Open(h, entry, n))
         /\ \A n \in Machine : s[n] \in Active =>
               \A i \in Latest(Open(h, entry, n)) : CloseStale(h, entry, s)[h[i]] = "open"
<1> DEFINE keep == UNION {Kept(h, entry, n) : n \in {v \in Machine : s[v] \in Active}}
           after == CloseStale(h, entry, s)
<1>0. HistoryPlain /\ FileWell
  BY HistoryParts
<1>1. /\ h \in Seq(Boot) /\ \A i \in DOMAIN h : h[i] \in Boot
      /\ \A i, j \in DOMAIN h : i < j => h[i] < h[j]
  BY <1>0, PrunedFacts, ElementOfSeq, LenProperties DEF FileWell, Ascending
<1>2. after \in [Boot -> {"open", "closed", "unknown"}]
  BY <1>0 DEF CloseStale, HistoryPlain
<1>3. \A b \in Boot :
        after[b] = IF entry[b] = "open" /\ (\E i \in DOMAIN h : h[i] = b) /\ b \notin keep
                   THEN "unknown" ELSE entry[b]
  BY DEF CloseStale
<1> HIDE DEF after
<1>4. \A b \in Boot : entry[b] # "open" => after[b] = entry[b]
  BY <1>3
<1>5. ASSUME NEW n \in Machine, NEW i \in Open(h, after, n)
      PROVE  s[n] \in Active /\ i \in Latest(Open(h, entry, n))
  <2>1. i \in DOMAIN h /\ h[i] \in Boot /\ after[h[i]] = "open" /\ ran[h[i]] = {n}
    BY <1>1, <1>5 DEF Open
  <2>2. h[i] \in keep
    BY <1>3, <2>1
  <2>3. PICK v \in Machine : s[v] \in Active /\ h[i] \in Kept(h, entry, v)
    BY <2>2
  <2>4. PICK j \in Latest(Open(h, entry, v)) : h[j] = h[i]
    BY <2>3 DEF Kept
  <2>5. j \in DOMAIN h /\ ran[h[j]] = {v}
    BY DEF Latest, Open
  <2>6. v = n
    BY <2>1, <2>4, <2>5
  <2>7. i = j
    <3>1. i \in Int /\ j \in Int /\ h[i] \in Int
      BY <1>1, <2>1, <2>5, LenProperties DEF Boot
    <3>2. ~(i < j) /\ ~(j < i)
      BY <1>1, <2>1, <2>4, <2>5, <3>1
    <3> QED BY <3>1, <3>2
  <2> QED BY <2>3, <2>4, <2>6, <2>7
<1>6. ASSUME NEW n \in Machine, s[n] \in Active, NEW i \in Latest(Open(h, entry, n))
      PROVE  after[h[i]] = "open"
  <2>1. i \in DOMAIN h /\ entry[h[i]] = "open" /\ h[i] \in Boot
    BY <1>1 DEF Latest, Open
  <2>2. h[i] \in keep
    BY <1>6 DEF Kept
  <2> QED BY <1>3, <2>1, <2>2
<1> QED BY <1>1, <1>2, <1>4, <1>5, <1>6 DEF after

LEMMA RestartKeeps ==
  ASSUME HistoryInv, Restart
  PROVE  HistoryInv'
<1>0. HistoryPlain /\ RunsWell /\ FileWell
  BY HistoryParts
<1>1. /\ op' = [n \in Machine |-> "none"]
      /\ doing' = [b \in Boot |-> IF doing[b] = "idle" THEN "idle" ELSE "over"]
      /\ enroll' = saved.enroll /\ UNCHANGED <<powered, ran, armed, enrolled>>
  BY DEF Restart
<1>2. PICK h \in Pruned(saved.history), s \in {saved.shows, Listed(saved.shows, Machine)} :
        /\ shows' = s /\ history' = h /\ entry' = CloseStale(h, saved.entry, s)
        /\ IF entry' # saved.entry THEN Save ELSE UNCHANGED saved
  BY DEF Restart
<1>3. saved.enroll = enroll /\ saved.entry = entry
  BY <1>0 DEF FileWell
<1>4. HistoryPlain'
  <2>1. s \in [Machine -> Active \cup {"stopped", "stopping"}]
    BY <1>0 DEF FileWell, Listed, Active
  <2>2. entry' \in [Boot -> {"open", "closed", "unknown"}]
    BY <1>2, <1>3, CloseStaleFacts
  <2>3. doing' \in [Boot -> {"idle", "boots", "up", "enrolls", "over"}]
    BY <1>1
  <2> QED BY <1>0, <1>1, <1>2, <1>3, <2>1, <2>2, <2>3 DEF HistoryPlain
<1>5. RunsWell'
  <2>1. \A c \in Boot : /\ doing'[c] = "idle" <=> doing[c] = "idle"
                        /\ doing'[c] # "boots"
    BY <1>1
  <2>2. ASSUME NEW c \in Boot, doing'[c] \in {"idle", "boots"} PROVE entry'[c] = "open"
    <3>1. doing[c] = "idle" /\ entry[c] = "open" /\ ran[c] = {}
      BY <1>0, <2>1, <2>2 DEF RunsWell
    <3>2. ASSUME NEW i \in DOMAIN h PROVE h[i] # c
      <4>1. \E j \in DOMAIN saved.history : h[i] = saved.history[j]
        BY <1>0, PrunedFacts DEF FileWell, Ascending
      <4> QED BY <1>0, <3>1, <4>1 DEF FileWell, Ascending
    <3> QED BY <1>2, <1>3, <3>1, <3>2 DEF CloseStale
  <2>3. \A m \in Machine : op'[m] # "run"
    BY <1>1
  <2> QED BY <1>1, <2>1, <2>2, <2>3, RunsKept
<1>6. FileWell'
  <2>1. Ascending(history)'
    BY <1>0, <1>1, <1>2, AscendingKept DEF FileWell, Ascending
  <2>2. CASE entry' # saved.entry
    <3>1. /\ saved'.history = history' /\ saved'.enroll = enroll' /\ saved'.entry = entry'
          /\ saved'.shows = shows'
      BY <1>2, <2>2 DEF Save, State
    <3> QED BY <1>4, <2>1, <3>1 DEF FileWell, HistoryPlain, Ascending
  <2>3. CASE entry' = saved.entry
    <3>1. UNCHANGED saved
      BY <1>2, <2>3
    <3>2. Ascending(saved.history)'
      BY <1>0, <1>1, <3>1 DEF FileWell, Ascending
    <3> QED BY <1>0, <1>1, <2>1, <2>3, <3>1, <3>2 DEF FileWell
  <2> QED BY <2>2, <2>3
<1>7. ASSUME NEW m \in Machine
      PROVE  Cardinality(Enrolling(m))' + (IF m \in enroll' THEN 1 ELSE 0) + enrolled'[m] <= armed'[m]
  <2>1. Enrolling(m)' = {}
    BY <1>1 DEF Enrolling
  <2>2. Cardinality(Enrolling(m))' = 0
    BY <2>1, FS_EmptySet
  <2> QED BY <1>1, <1>3, <2>2, EnrollingFacts
<1> QED BY <1>4, <1>5, <1>6, <1>7, HistoryPartsNext DEF ArmsWell

LEMMA HistoryInitWell == HistoryInit => HistoryInv
<1> SUFFICES ASSUME HistoryInit PROVE HistoryInv
  OBVIOUS
<1> USE DEF HistoryInit
<1>1. HistoryPlain
  BY DEF HistoryPlain
<1>2. RunsWell
  BY DEF RunsWell
<1>3. FileWell
  <2>1. Ascending(<<>>)
    BY DEF Ascending
  <2> QED BY <2>1 DEF FileWell, State, Active
<1>4. ASSUME NEW n \in Machine
      PROVE  Cardinality(Enrolling(n)) + (IF n \in enroll THEN 1 ELSE 0) + enrolled[n] <= armed[n]
  <2>1. Enrolling(n) = {}
    BY DEF Enrolling
  <2> QED BY <2>1, FS_EmptySet
<1> QED BY <1>1, <1>2, <1>3, <1>4, HistoryParts DEF ArmsWell

LEMMA HistoryInvKept == HistoryInv /\ [HistoryNext]_historyVars => HistoryInv'
<1> SUFFICES ASSUME HistoryInv, [HistoryNext]_historyVars PROVE HistoryInv'
  OBVIOUS
<1>1. CASE UNCHANGED historyVars
  <2>0. HistoryPlain /\ RunsWell /\ FileWell /\ ArmsWell
    BY HistoryParts
  <2>1. HistoryPlain'
    BY <1>1, <2>0 DEF historyVars, HistoryPlain
  <2>2. RunsWell'
    BY <1>1, <2>0 DEF historyVars, RunsWell
  <2>3. FileWell'
    BY <1>1, <2>0 DEF historyVars, FileWell, Ascending
  <2>4. ArmsWell'
    BY <1>1, <2>0 DEF historyVars, ArmsWell, Enrolling
  <2> QED BY <2>1, <2>2, <2>3, <2>4, HistoryPartsNext
<1>2. CASE HistoryNext
  BY <1>2, RunKeeps, BootEndsKeep, TakeAutoEnrollKeeps, RunAutoEnrollKeeps, StopDoneKeeps,
     OutsideBootsKeep, ArmKeeps, RestartKeeps
     DEF HistoryNext, BootStep
<1> QED BY <1>1, <1>2

\* A VM is enrolled at boot at most as often as its flag was set, whatever boots, crashes
\* and restarts come between (takeAutoEnroll and the end of doRun in vmops.go).
THEOREM EnrollOnceAlways == HistorySpec => []EnrollOnce
<1>1. HistoryInv => EnrollOnce
  <2> SUFFICES ASSUME HistoryInv, NEW n \in Machine PROVE enrolled[n] <= armed[n]
    BY DEF EnrollOnce
  <2> QED BY EnrollingFacts
<1>2. HistorySpec => []HistoryInv
  BY HistoryInitWell, HistoryInvKept, PTL DEF HistorySpec
<1> QED BY <1>1, <1>2, PTL

\* A step of the history closes runs for good, and a restart leaves at most the newest
\* open run of a VM that is up (doStop and closeStaleHistory).
LEMMA EntriesStayClosed ==
  ASSUME HistoryInv, [HistoryNext]_historyVars, NEW b \in Boot, entry[b] # "open"
  PROVE  entry'[b] = entry[b]
<1>0. HistoryPlain /\ RunsWell /\ FileWell
  BY HistoryParts
<1>1. ASSUME NEW c \in Boot, NEW n \in Machine, BootStep(c, n)
      PROVE  entry'[b] = entry[b]
  <2>1. CASE Run(c, n) \/ BootFails(c, n)
    <3>1. doing[c] \in {"idle", "boots"}
      BY <1>0, <2>1 DEF Run, BootFails, RunsWell
    <3>2. b # c
      BY <1>0, <3>1 DEF RunsWell
    <3> QED BY <1>0, <2>1, <3>2 DEF Run, BootFails, HistoryPlain
  <2>2. CASE ~(Run(c, n) \/ BootFails(c, n))
    BY <1>1, <2>2 DEF BootStep, LaunchFails, ComesUp, TakeAutoEnroll, RunAutoEnroll, runVars
  <2> QED BY <2>1, <2>2
<1>2. ASSUME NEW n \in Machine, StopDone(n)
      PROVE  entry'[b] = entry[b]
  BY <1>2, CloseFacts DEF StopDone
<1>3. ASSUME NEW n \in Machine, DoStop(n) \/ GuestOff(n) \/ Arm(n)
      PROVE  entry'[b] = entry[b]
  BY <1>3 DEF DoStop, GuestOff, Arm, runVars
<1>4. ASSUME Restart
      PROVE  entry'[b] = entry[b]
  BY <1>0, <1>4, CloseStaleFacts DEF Restart, FileWell
<1>5. ASSUME Reconcile \/ UNCHANGED historyVars
      PROVE  entry'[b] = entry[b]
  BY <1>5 DEF Reconcile, historyVars, runVars
<1> QED BY <1>1, <1>2, <1>3, <1>4, <1>5 DEF HistoryNext

LEMMA OneLeftOpen ==
  ASSUME HistoryInv, Restart, NEW n \in Machine
  PROVE  /\ Cardinality(Open(history', entry', n)) <= (IF shows'[n] \in Active THEN 1 ELSE 0)
         /\ shows'[n] \in Active =>
               \A i \in Latest(Open(history', saved.entry, n)) : entry'[history'[i]] = "open"
<1>0. saved.entry = entry
  BY HistoryParts DEF FileWell
<1>1. PICK h \in Pruned(saved.history), s \in {saved.shows, Listed(saved.shows, Machine)} :
        shows' = s /\ history' = h /\ entry' = CloseStale(h, entry, s)
  BY <1>0 DEF Restart
<1> DEFINE left == Open(history', entry', n)
<1>2. \A i \in left : s[n] \in Active /\ i \in Latest(Open(h, entry, n))
  BY <1>1, CloseStaleFacts
<1>3. left \subseteq Int
  <2>1. h \in Seq(Boot)
    BY HistoryParts, PrunedFacts DEF FileWell, Ascending
  <2> QED BY <1>1, <2>1, LenProperties DEF Open
<1>4. \A i, j \in left : i = j
  <2> SUFFICES ASSUME NEW i \in left, NEW j \in left PROVE i = j
    OBVIOUS
  <2>1. i <= j /\ j <= i
    BY <1>2 DEF Latest
  <2>2. i \in Int /\ j \in Int
    BY <1>3
  <2> HIDE DEF left
  <2> QED BY <2>1, <2>2
<1> HIDE DEF left
<1>5. Cardinality(left) <= (IF shows'[n] \in Active THEN 1 ELSE 0)
  <2>1. CASE left = {}
    BY <2>1, FS_EmptySet
  <2>2. CASE left # {}
    <3>1. PICK i \in left : TRUE
      BY <2>2
    <3>2. left = {i}
      BY <1>4, <3>1
    <3>3. Cardinality(left) = 1
      BY <3>2, FS_Singleton
    <3> QED BY <1>1, <1>2, <3>1, <3>3
  <2> QED BY <2>1, <2>2
<1>6. shows'[n] \in Active =>
        \A i \in Latest(Open(history', saved.entry, n)) : entry'[history'[i]] = "open"
  BY <1>0, <1>1, CloseStaleFacts
<1> QED BY <1>5, <1>6 DEF left

\* A run that is over is never under way again, over restarts too, and a restart leaves at
\* most the newest open run of a VM, and that one where the VM is up (doStop in vmops.go,
\* closeStaleHistory in types.go).
THEOREM StaleClosedAlways == HistorySpec => StaleClosed
<1>1. HistoryInv /\ [HistoryNext]_historyVars => [ClosesStale]_historyVars
  <2> SUFFICES ASSUME HistoryInv, [HistoryNext]_historyVars PROVE ClosesStale
    OBVIOUS
  <2>1. \A b \in Boot : entry[b] # "open" => entry'[b] = entry[b]
    BY EntriesStayClosed
  <2>2. ASSUME restarts' # restarts PROVE Restart
    BY <2>2 DEF HistoryNext, BootStep, historyVars, auxVars, Run, LaunchFails, BootFails, ComesUp,
       TakeAutoEnroll, RunAutoEnroll, DoStop, StopDone, GuestOff, Arm, Reconcile
  <2> QED BY <2>1, <2>2, OneLeftOpen DEF ClosesStale
<1>2. HistorySpec => []HistoryInv
  BY HistoryInitWell, HistoryInvKept, PTL DEF HistorySpec
<1> QED BY <1>1, <1>2, PTL DEF HistorySpec, StaleClosed

-----------------------------------------------------------------------------
(* The settings *)

\* A configuration the server can use and load leaves alone: the part of SettingsInv that
\* is about cfg.
ConfigWell(c) ==
    /\ c \in [Field -> Value]
    /\ \A f \in Field :
         /\ f \in RepairedBlank \ Texts => c[f] # Zero
         /\ f \in Capped => c[f] # Beyond
         /\ f \in Modes \cup Networks => c[f] \in {Standard, Other}
         /\ f \in Keys => c[f] # Beyond
         /\ f \in Times => c[f] # Zero
Fields(d) == d \in [Field -> Value \cup {Absent}]

LEMMA SettingsParts ==
  SettingsInv <=> /\ ConfigWell(cfg) /\ Fields(stateFile)
                  /\ saver \in [Saver -> SaverStep]
                  /\ body \in [Saver -> [Field -> Value \cup {Absent}]]
                  /\ PemTypeOK
                  /\ posts \in 0..MaxPosts /\ reloads \in 0..MaxReloads
                  /\ \A s \in Saver : SaverWell(s)
<1>1. ConfigWell(cfg) <=>
        /\ ConfigValid /\ cfg \in [Field -> Value]
        /\ \A f \in Field : (f \in Keys => cfg[f] # Beyond) /\ (f \in Times => cfg[f] # Zero)
  BY DEF ConfigWell, ConfigValid
<1> QED BY <1>1 DEF SettingsInv, Fields

LEMMA SettingsPartsNext ==
  ASSUME ConfigWell(cfg'), Fields(stateFile'), saver' \in [Saver -> SaverStep],
         body' \in [Saver -> [Field -> Value \cup {Absent}]], PemTypeOK',
         posts' \in 0..MaxPosts, reloads' \in 0..MaxReloads,
         \A s \in Saver : SaverWell(s)'
  PROVE  SettingsInv'
<1>1. ConfigValid' /\ cfg' \in [Field -> Value]
  BY DEF ConfigWell, ConfigValid
<1>2. \A f \in Field : (f \in Keys => cfg'[f] # Beyond) /\ (f \in Times => cfg'[f] # Zero)
  BY DEF ConfigWell
<1> QED BY <1>1, <1>2 DEF SettingsInv, Fields

LEMMA ValueFacts ==
  /\ Value = {Zero, Standard, Other, Beyond}
  /\ {Zero, Standard, Other, Beyond} \subseteq Int /\ Absent \notin Value
  /\ Zero # Standard /\ Zero # Other /\ Zero # Beyond
  /\ Standard # Other /\ Standard # Beyond /\ Other # Beyond
BY DEF Value, Zero, Standard, Other, Beyond, Absent

\* The defaults: a field that must not be blank, a choice and an end of the daily window
\* have one.
LEMMA DefaultFacts ==
  ASSUME NEW f
  PROVE  /\ DefaultOf(f) \in {Zero, Standard}
         /\ f \in RepairedBlank \cup Times \cup Modes \cup Networks => DefaultOf(f) = Standard
<1>1. f \in RepairedBlank \cup Times \cup Modes \cup Networks => f \notin ZeroByDefault
  BY DEF RepairedBlank, Times, Modes, Networks, ZeroByDefault, Paths, Periods, Capped, Credentials,
     Keys, Timeouts, Texts, Ttl, HttpsFields, AgentSwitch, Rest, Url, Codes
<1> QED BY <1>1 DEF DefaultOf

\* What kinds a field is not of when it is of one.
LEMMA KindFacts ==
  /\ Keys \subseteq RepairedBlank \ Texts /\ Capped \subseteq RepairedBlank \ Texts
  /\ (Modes \cup Networks) \cap (Presence \cup RepairedBlank \cup Renewed \cup Keys \cup Times
                               \cup Capped \cup {"dailyEnabled", "showAgentFeatures"}) = {}
  /\ Times \cap (Capped \cup Presence \cup Renewed \cup Keys \cup {"showAgentFeatures"}) = {}
  /\ Keys \cap (Capped \cup {"showAgentFeatures"}) = {}
  /\ Capped \cap (Renewed \cup Keys \cup Presence \cup {"dailyEnabled", "showAgentFeatures"}) = {}
  /\ Texts \subseteq RepairedBlank /\ "showAgentFeatures" \notin RepairedBlank
  /\ HttpsFields \cap (RepairedBlank \cup Capped \cup Modes \cup Networks \cup Keys \cup Times
                       \cup Ttl \cup NonBlank) = {}
BY DEF RepairedBlank, Times, Modes, Networks, Paths, Periods, Capped, Credentials, Presence, Renewed,
   Keys, Timeouts, Texts, Ttl, HttpsFields, NonBlank, Codes

\* What load makes of any file is a configuration the server can use.
LEMMA LoadedWell ==
  ASSUME NEW d, Fields(d)
  PROVE  ConfigWell(Loaded(d))
<1> SUFFICES ASSUME NEW f \in Field
             PROVE  /\ Repaired(d, f) \in Value
                    /\ f \in RepairedBlank \ Texts => Repaired(d, f) # Zero
                    /\ f \in Capped => Repaired(d, f) # Beyond
                    /\ f \in Modes \cup Networks => Repaired(d, f) \in {Standard, Other}
                    /\ f \in Keys => Repaired(d, f) # Beyond
                    /\ f \in Times => Repaired(d, f) # Zero
  BY DEF ConfigWell, Loaded
<1>1. d[f] \in Value \cup {Absent} /\ Decoded(d[f]) \in Value
  BY ValueFacts DEF Fields, Decoded
<1>2. CASE Resets(d, f)
  <2>1. Repaired(d, f) = DefaultOf(f)
    BY <1>2 DEF Repaired
  <2> QED BY <2>1, DefaultFacts, ValueFacts
<1>3. CASE ~Resets(d, f) /\ FallsBack(d, f)
  <2>1. Repaired(d, f) = Other
    BY <1>3 DEF Repaired
  <2> QED BY <2>1, ValueFacts
<1>4. CASE ~Resets(d, f) /\ ~FallsBack(d, f) /\ ShowsAgents(d, f)
  <2>1. Repaired(d, f) = Standard
    BY <1>4 DEF Repaired
  <2> QED BY <2>1, ValueFacts
<1>5. CASE ~Resets(d, f) /\ ~FallsBack(d, f) /\ ~ShowsAgents(d, f)
  <2>1. Repaired(d, f) = Decoded(d[f])
    BY <1>5 DEF Repaired
  <2>2. f \in RepairedBlank => Decoded(d[f]) # Zero
    BY <1>5 DEF Resets
  <2>3. f \in Capped \cup Keys => d[f] # Beyond
    BY <1>5 DEF Resets, FallsBack
  <2>4. f \in Modes \cup Networks => d[f] \in {Standard, Other}
    BY <1>5 DEF FallsBack
  <2>5. f \in Times => Decoded(d[f]) # Zero
    BY <1>5 DEF Resets, NoWindow
  <2> QED BY <1>1, <2>1, <2>2, <2>3, <2>4, <2>5, ValueFacts DEF Decoded
<1> QED BY <1>2, <1>3, <1>4, <1>5

LEMMA DefaultsWell == ConfigWell([f \in Field |-> DefaultOf(f)])
<1> SUFFICES ASSUME NEW f \in Field
             PROVE  /\ DefaultOf(f) \in Value /\ DefaultOf(f) # Beyond
                    /\ f \in RepairedBlank \ Texts => DefaultOf(f) # Zero
                    /\ f \in Modes \cup Networks => DefaultOf(f) \in {Standard, Other}
                    /\ f \in Times => DefaultOf(f) # Zero
  BY DEF ConfigWell
<1> QED BY DefaultFacts, ValueFacts

\* And so is what a POST leaves, whatever is in it.
LEMMA StoredWell ==
  ASSUME ConfigWell(cfg), NEW b, Fields(b)
  PROVE  ConfigWell(Stored(b))
<1> SUFFICES ASSUME NEW f \in Field
             PROVE  /\ Stored(b)[f] \in Value
                    /\ f \in RepairedBlank \ Texts => Stored(b)[f] # Zero
                    /\ f \in Capped => Stored(b)[f] # Beyond
                    /\ f \in Modes \cup Networks => Stored(b)[f] \in {Standard, Other}
                    /\ f \in Keys => Stored(b)[f] # Beyond
                    /\ f \in Times => Stored(b)[f] # Zero
  BY DEF ConfigWell, Stored
<1>1. CASE b[f] = Absent \/ Skips(f, b[f])
  <2>1. Stored(b)[f] = cfg[f]
    BY <1>1 DEF Stored
  <2> QED BY <2>1 DEF ConfigWell
<1>2. CASE ~(b[f] = Absent \/ Skips(f, b[f]))
  <2>1. Stored(b)[f] = Lowered(f, b[f]) /\ b[f] \in Value
    BY <1>2 DEF Stored, Fields
  <2>2. /\ f \in NonBlank \cup Capped \cup Ttl => b[f] # Zero
        /\ f \in Modes \cup Networks \cup Times \cup Keys => b[f] \notin {Zero, Beyond}
    BY <1>2 DEF Skips
  <2>3. RepairedBlank \ Texts \subseteq NonBlank \cup Capped \cup Ttl \cup Keys
    BY DEF RepairedBlank, NonBlank
  <2> QED BY <2>1, <2>2, <2>3, ValueFacts DEF Lowered
<1> QED BY <1>1, <1>2

\* The fields of HTTPS are there, and a POST that has both paths set has the other fields
\* of its own.
LEMMA CompletedWell ==
  ASSUME ConfigWell(cfg), NEW b, Fields(b)
  PROVE  /\ Fields(Completed(b)) /\ Completed(b)["tlsEnabled"] = b["tlsEnabled"]
         /\ Fields(WithManaged(b)) /\ WithManaged(b)["tlsEnabled"] = b["tlsEnabled"]
<1>1. {"tlsEnabled", "tlsCertPath", "tlsKeyPath"} \subseteq Field
  BY SettingsAssumption DEF HttpsFields
<1>2. Overlaid(b, "tlsCertPath") \in Value /\ Overlaid(b, "tlsKeyPath") \in Value
  BY <1>1 DEF Overlaid, ConfigWell, Fields
<1> QED BY <1>1, <1>2, ValueFacts DEF Fields, Completed, WithManaged

LEMMA BodiesAreFields == \A b \in Bodies : Fields(b)
BY DEF Bodies, Fields, ValuesOf, Value, Zero, Standard, Absent, Beyond

\* No fields at all.
LEMMA BlankWell == Fields(Blank)
BY ValueFacts DEF Fields, Blank

\* A request that ends leaves nothing, and the configuration has to be right.
LEMMA EndsKeeps ==
  ASSUME SettingsInv, NEW s \in Saver, Ends(s), UNCHANGED <<pemVars, countVars>>,
         ConfigWell(cfg'), Fields(stateFile')
  PROVE  SettingsInv'
<1> USE SettingsParts DEF pemVars, countVars
<1>1. saver' \in [Saver -> SaverStep]
  BY DEF Ends, SaverStep
<1>2. body' \in [Saver -> [Field -> Value \cup {Absent}]]
  BY BlankWell DEF Ends, Fields
<1>3. PemTypeOK'
  BY SettingsAssumption DEF PemTypeOK, Ends
<1>4. ASSUME NEW t \in Saver PROVE SaverWell(t)'
  <2>1. CASE t = s
    BY <2>1 DEF Ends, SaverWell
  <2>2. CASE t # s
    <3>1. saver'[t] = saver[t] /\ body'[t] = body[t] /\ fit'[t] = fit[t]
      BY <2>2 DEF Ends, PemTypeOK
    <3> QED BY <3>1 DEF SaverWell, Whole
  <2> QED BY <2>1, <2>2
<1> QED BY <1>1, <1>2, <1>3, <1>4, SettingsPartsNext

\* A request that comes has the state of the managed pair noted, and is not checked unless
\* it leaves HTTPS as it is.
LEMMA ComeKeeps ==
  ASSUME SettingsInv, NEW s \in Saver, NEW w \in SaverStep \ {"idle"}, Come(s, w),
         NEW c, Fields(c), body' = [body EXCEPT ![s] = c],
         w = "checked" => c["tlsEnabled"] # On,
         UNCHANGED <<fieldVars, pem, pemTmp, reloads>>, posts' \in 0..MaxPosts,
         signs' \in 0..MaxSigns, made' \in [Saver -> 0..MaxSigns]
  PROVE  SettingsInv'
<1> USE SettingsParts DEF fieldVars
<1>1. saver' \in [Saver -> SaverStep]
  BY DEF Come
<1>2. body' \in [Saver -> [Field -> Value \cup {Absent}]]
  BY DEF Fields
<1>3. PemTypeOK'
  <2>1. Whole \in BOOLEAN
    BY DEF Whole
  <2> QED BY <2>1 DEF PemTypeOK, Come
<1>4. ASSUME NEW t \in Saver PROVE SaverWell(t)'
  <2>1. CASE t = s
    <3>1. saver'[s] = w /\ body'[s] = c /\ fit'[s] = Whole
      BY DEF Come, PemTypeOK
    <3> QED BY <2>1, <3>1 DEF SaverWell, Whole
  <2>2. CASE t # s
    <3>1. saver'[t] = saver[t] /\ body'[t] = body[t] /\ fit'[t] = fit[t]
      BY <2>2 DEF Come, PemTypeOK
    <3> QED BY <3>1 DEF SaverWell, Whole
  <2> QED BY <2>1, <2>2
<1> QED BY <1>1, <1>2, <1>3, <1>4, SettingsPartsNext

\* A request that goes on leaves the managed pair alone, and is checked only with a pair of
\* files that it loaded.
LEMMA TurnsKeeps ==
  ASSUME SettingsInv, NEW s \in Saver, NEW w \in SaverStep \ {"idle"}, Turns(s, w),
         saver[s] # "idle",
         w = "checked" => Loads(body[s]["tlsCertPath"], body[s]["tlsKeyPath"]),
         UNCHANGED <<fieldVars, body, pem, countVars>>, pemTmp' \in [Pem -> 0..MaxSigns],
         signs' \in 0..MaxSigns, made' \in [Saver -> 0..MaxSigns]
  PROVE  SettingsInv'
<1> USE SettingsParts DEF fieldVars, countVars
<1>1. saver' \in [Saver -> SaverStep]
  BY DEF Turns
<1>2. PemTypeOK'
  BY DEF PemTypeOK, Turns
<1>3. ASSUME NEW t \in Saver PROVE SaverWell(t)'
  <2>1. CASE t = s
    <3>1. saver'[s] = w /\ fit'[s] = fit[s] /\ (Whole => fit[s])
      BY DEF Turns, SaverWell
    <3> QED BY <2>1, <3>1 DEF SaverWell, Whole, Loads
  <2>2. CASE t # s
    <3>1. saver'[t] = saver[t] /\ fit'[t] = fit[t]
      BY <2>2 DEF Turns
    <3> QED BY <3>1 DEF SaverWell, Whole
  <2> QED BY <2>1, <2>2
<1> QED BY <1>1, <1>2, <1>3, SettingsPartsNext

LEMMA SignsFacts ==
  ASSUME SettingsInv, NEW s \in Saver, Signs(s)
  PROVE  /\ signs' \in 0..MaxSigns /\ made' \in [Saver -> 0..MaxSigns]
         /\ UNCHANGED <<pem, pemTmp>> /\ pemTmp' \in [Pem -> 0..MaxSigns]
<1>1. signs' \in 0..MaxSigns /\ signs' = signs + 1
  BY SettingsAssumption DEF Signs, SettingsInv, PemTypeOK
<1> QED BY <1>1 DEF Signs, SettingsInv, PemTypeOK

LEMMA PrepareKeeps ==
  ASSUME SettingsInv, NEW s \in Saver, Prepare(s)
  PROVE  SettingsInv'
<1> USE SettingsParts
<1>1. posts' \in 0..MaxPosts /\ UNCHANGED <<fieldVars, pemVars, made, reloads>>
  BY SettingsAssumption DEF Prepare
<1>2. PICK b \in Bodies :
        \/ Plain(b) /\ body' = [body EXCEPT ![s] = b] /\ Come(s, "checked")
        \/ TurnsOff(b) /\ body' = [body EXCEPT ![s] = Completed(b)] /\ Come(s, "checked")
        \/ body' = [body EXCEPT ![s] = Completed(b)] /\ Come(s, "loads")
        \/ body' = [body EXCEPT ![s] = WithManaged(b)] /\ Come(s, "looks")
  BY DEF Prepare
<1>3. /\ Fields(b)
      /\ Fields(Completed(b)) /\ Completed(b)["tlsEnabled"] = b["tlsEnabled"]
      /\ Fields(WithManaged(b))
  BY BodiesAreFields, CompletedWell
<1>4. Plain(b) \/ TurnsOff(b) => b["tlsEnabled"] # On
  BY ValueFacts DEF Plain, TurnsOff, Overlaid, On, HttpsFields
<1>5. UNCHANGED <<fieldVars, pem, pemTmp, reloads>> /\ signs' \in 0..MaxSigns
      /\ made' \in [Saver -> 0..MaxSigns]
  BY <1>1 DEF pemVars, PemTypeOK
<1>6. {"checked", "loads", "looks"} \subseteq SaverStep \ {"idle"}
  BY DEF SaverStep
<1>7. CASE Plain(b) /\ body' = [body EXCEPT ![s] = b] /\ Come(s, "checked")
  BY <1>1, <1>3, <1>4, <1>5, <1>6, <1>7, ComeKeeps
<1>8. CASE TurnsOff(b) /\ body' = [body EXCEPT ![s] = Completed(b)] /\ Come(s, "checked")
  BY <1>1, <1>3, <1>4, <1>5, <1>6, <1>8, ComeKeeps
<1>9. CASE body' = [body EXCEPT ![s] = Completed(b)] /\ Come(s, "loads")
  BY <1>1, <1>3, <1>5, <1>6, <1>9, ComeKeeps
<1>10. CASE body' = [body EXCEPT ![s] = WithManaged(b)] /\ Come(s, "looks")
  BY <1>1, <1>3, <1>5, <1>6, <1>10, ComeKeeps
<1> QED BY <1>2, <1>7, <1>8, <1>9, <1>10

LEMMA LookUpKeeps ==
  ASSUME SettingsInv, NEW s \in Saver, LookUp(s)
  PROVE  SettingsInv'
<1>1. saver[s] # "idle" /\ UNCHANGED <<fieldVars, body, countVars>>
      /\ {"key", "loads"} \subseteq SaverStep \ {"idle"}
  BY DEF LookUp, SaverStep
<1>2. CASE Signs(s) /\ Turns(s, "key")
  BY <1>1, <1>2, SignsFacts, TurnsKeeps
<1>3. CASE Turns(s, "loads") /\ UNCHANGED <<pemVars, made>>
  <2>1. pemTmp' \in [Pem -> 0..MaxSigns] /\ signs' \in 0..MaxSigns
        /\ made' \in [Saver -> 0..MaxSigns] /\ UNCHANGED pem
    BY <1>3 DEF pemVars, SettingsInv, PemTypeOK
  <2> QED BY <1>1, <1>3, <2>1, TurnsKeeps
<1> QED BY <1>2, <1>3 DEF LookUp

LEMMA SelfSignKeeps ==
  ASSUME SettingsInv, NEW s \in Saver, SelfSign(s)
  PROVE  SettingsInv'
<1>1. /\ posts' \in 0..MaxPosts /\ UNCHANGED <<fieldVars, body, reloads>>
      /\ Signs(s) /\ Come(s, "key") /\ "key" \in SaverStep \ {"idle"}
  BY SettingsAssumption DEF SelfSign, SettingsInv, SaverStep
<1>2. body' = [body EXCEPT ![s] = body[s]] /\ Fields(body[s])
  BY <1>1 DEF SettingsInv, Fields
<1> QED BY <1>1, <1>2, SignsFacts, ComeKeeps

LEMMA WritePemKeeps ==
  ASSUME SettingsInv, NEW s \in Saver, WritePem(s)
  PROVE  SettingsInv'
<1>1. PICK w \in {"keyed", "certed"} : Turns(s, w)
  BY DEF WritePem
<1>2. /\ saver[s] \in Pem /\ saver[s] # "idle" /\ w \in SaverStep \ {"idle"} /\ w # "checked"
      /\ pemTmp' = [pemTmp EXCEPT ![saver[s]] = made[s]]
      /\ UNCHANGED <<fieldVars, body, pem, signs, made, countVars>>
  BY <1>1 DEF WritePem, Pem, SaverStep
<1>3. pemTmp' \in [Pem -> 0..MaxSigns] /\ signs' \in 0..MaxSigns
      /\ made' \in [Saver -> 0..MaxSigns]
  BY <1>2 DEF SettingsInv, PemTypeOK
<1> QED BY <1>1, <1>2, <1>3, TurnsKeeps

\* Whoever is under way notes that the pair is whole.
LEMMA RenamePemKeeps ==
  ASSUME SettingsInv, NEW s \in Saver, RenamePem(s)
  PROVE  SettingsInv'
<1> USE SettingsParts
<1> DEFINE f == PemOf(s)
<1>1. PICK w \in {"cert", "select", "loads"} : saver' = [saver EXCEPT ![s] = w]
  BY DEF RenamePem
<1>2. /\ f \in Pem /\ saver[s] \in {"keyed", "certed"}
      /\ pem' = [pem EXCEPT ![f] = pemTmp[f]] /\ pemTmp' = [pemTmp EXCEPT ![f] = 0]
      /\ fit' = [t \in Saver |-> fit[t] \/ (saver[t] # "idle" /\ Whole')]
      /\ UNCHANGED <<cfg, stateFile, body, signs, made, posts, reloads>>
  BY DEF RenamePem, PemOf, Pem, fieldVars, countVars
<1>3. saver' \in [Saver -> SaverStep]
  BY <1>1 DEF SaverStep
<1>4. PemTypeOK'
  <2>1. pem' \in [Pem -> 0..MaxSigns] /\ pemTmp' \in [Pem -> 0..MaxSigns]
    BY <1>2, SettingsAssumption DEF PemTypeOK
  <2>2. fit' \in [Saver -> BOOLEAN]
    BY <1>2
  <2> QED BY <1>2, <2>1, <2>2 DEF PemTypeOK
<1>5. ASSUME NEW t \in Saver PROVE SaverWell(t)'
  <2>1. /\ saver'[t] = IF t = s THEN w ELSE saver[t]
        /\ fit'[t] <=> fit[t] \/ (saver[t] # "idle" /\ Whole')
    BY <1>1, <1>2
  <2> QED BY <1>2, <2>1 DEF SaverWell
<1> QED BY <1>2, <1>3, <1>4, <1>5, SettingsPartsNext

LEMMA ValidateKeeps ==
  ASSUME SettingsInv, NEW s \in Saver, Validate(s)
  PROVE  SettingsInv'
<1> USE SettingsParts
<1>1. saver[s] # "idle" /\ UNCHANGED <<fieldVars, pemVars, countVars>>
      /\ "checked" \in SaverStep \ {"idle"}
  BY DEF Validate, SaverStep
<1>2. CASE /\ Loads(body[s]["tlsCertPath"], body[s]["tlsKeyPath"])
           /\ Turns(s, "checked") /\ UNCHANGED <<body, made>>
  <2>1. pemTmp' \in [Pem -> 0..MaxSigns] /\ signs' \in 0..MaxSigns
        /\ made' \in [Saver -> 0..MaxSigns] /\ UNCHANGED pem
    BY <1>1, <1>2 DEF pemVars, PemTypeOK
  <2> QED BY <1>1, <1>2, <2>1, TurnsKeeps
<1>3. CASE Ends(s)
  BY <1>1, <1>3, EndsKeeps DEF fieldVars
<1> QED BY <1>2, <1>3 DEF Validate

LEMMA ApplyKeeps ==
  ASSUME SettingsInv, NEW s \in Saver, Apply(s)
  PROVE  SettingsInv'
<1> USE SettingsParts
<1>1. /\ cfg' = Stored(body[s]) /\ stateFile' = cfg' /\ Ends(s)
      /\ UNCHANGED <<pemVars, countVars>>
  BY DEF Apply
<1>2. Fields(body[s])
  BY DEF Fields
<1>3. ConfigWell(cfg')
  BY <1>1, <1>2, StoredWell
<1>4. Fields(stateFile')
  BY <1>1, <1>3 DEF ConfigWell, Fields
<1> QED BY <1>1, <1>3, <1>4, EndsKeeps

LEMMA SelectKeeps ==
  ASSUME SettingsInv, NEW s \in Saver, Select(s)
  PROVE  SettingsInv'
<1> USE SettingsParts
<1>1. /\ cfg' = [cfg EXCEPT !["tlsCertPath"] = Standard, !["tlsKeyPath"] = Standard]
      /\ stateFile' = cfg' /\ Ends(s) /\ UNCHANGED <<pemVars, countVars>>
  BY DEF Select, WithManaged
<1>2. cfg' \in [Field -> Value] /\ \A f \in Field \ HttpsFields : cfg'[f] = cfg[f]
  BY <1>1, ValueFacts DEF ConfigWell, HttpsFields
<1>3. ConfigWell(cfg') /\ Fields(stateFile')
  BY <1>1, <1>2, KindFacts DEF ConfigWell, Fields
<1> QED BY <1>1, <1>3, EndsKeeps

LEMMA ReloadKeeps ==
  ASSUME SettingsInv, Reload
  PROVE  SettingsInv'
<1> USE SettingsParts
<1>1. /\ cfg' = Loaded(stateFile) /\ reloads' = reloads + 1 /\ reloads < MaxReloads
      /\ saver' = [s \in Saver |-> "idle"] /\ body' = [s \in Saver |-> Blank]
      /\ made' = [s \in Saver |-> 0] /\ fit' = [s \in Saver |-> FALSE]
      /\ UNCHANGED <<stateFile, posts>>
  BY DEF Reload
<1>2. ConfigWell(cfg')
  BY <1>1, LoadedWell
<1>3. reloads' \in 0..MaxReloads
  BY <1>1, SettingsAssumption
<1>4. /\ pem' \in [Pem -> 0..MaxSigns] /\ pemTmp' \in [Pem -> 0..MaxSigns]
      /\ signs' \in 0..MaxSigns
  <2>1. \/ UNCHANGED pemVars
        \/ /\ signs < MaxSigns /\ signs' = signs + 1
           /\ pem' = [f \in Pem |-> signs'] /\ pemTmp' = [f \in Pem |-> 0]
    BY DEF Reload, Startup
  <2>2. CASE UNCHANGED pemVars
    BY <2>2 DEF pemVars, PemTypeOK
  <2>3. CASE /\ signs < MaxSigns /\ signs' = signs + 1
             /\ pem' = [f \in Pem |-> signs'] /\ pemTmp' = [f \in Pem |-> 0]
    <3>1. signs' \in 0..MaxSigns
      BY <2>3, SettingsAssumption DEF PemTypeOK
    <3> QED BY <2>3, <3>1, SettingsAssumption
  <2> QED BY <2>1, <2>2, <2>3
<1>5. PemTypeOK'
  BY <1>1, <1>4, SettingsAssumption DEF PemTypeOK
<1>6. saver' \in [Saver -> SaverStep] /\ \A s \in Saver : SaverWell(s)'
  BY <1>1 DEF SaverStep, SaverWell
<1>7. body' \in [Saver -> [Field -> Value \cup {Absent}]]
  BY <1>1, BlankWell DEF Fields
<1> QED BY <1>1, <1>2, <1>3, <1>5, <1>6, <1>7, SettingsPartsNext

LEMMA SettingsInitWell == SettingsInit => SettingsInv
<1> SUFFICES ASSUME SettingsInit PROVE SettingsInv
  OBVIOUS
<1>1. Fields(stateFile)
  BY ValueFacts DEF SettingsInit, Files, Fields, On
<1>2. ConfigWell(cfg)
  BY <1>1, LoadedWell, DefaultsWell DEF SettingsInit
<1>3. body \in [Saver -> [Field -> Value \cup {Absent}]] /\ saver \in [Saver -> SaverStep]
  BY BlankWell DEF SettingsInit, SaverStep, Fields
<1>4. posts \in 0..MaxPosts /\ reloads \in 0..MaxReloads
  BY SettingsAssumption DEF SettingsInit
<1>5. PemTypeOK
  BY SettingsAssumption DEF SettingsInit, PemTypeOK, Pem
<1>6. \A s \in Saver : SaverWell(s)
  BY DEF SettingsInit, SaverWell
<1> QED BY <1>1, <1>2, <1>3, <1>4, <1>5, <1>6, SettingsParts

LEMMA SettingsInvKept == SettingsInv /\ [SettingsNext]_settingsVars => SettingsInv'
<1> SUFFICES ASSUME SettingsInv, [SettingsNext]_settingsVars PROVE SettingsInv'
  OBVIOUS
<1>1. ASSUME NEW s \in Saver, PemFails(s) PROVE SettingsInv'
  BY <1>1, EndsKeeps, SettingsParts DEF PemFails, fieldVars
<1>2. ASSUME SaveSettings PROVE SettingsInv'
  <2>1. stateFile' = cfg /\ UNCHANGED <<cfg, saver, body, pemVars, made, fit, posts, reloads>>
    BY <1>2 DEF SaveSettings, countVars
  <2>2. Fields(stateFile')
    BY <2>1, SettingsParts DEF ConfigWell, Fields
  <2>3. PemTypeOK' /\ \A s \in Saver : SaverWell(s)'
    BY <2>1, SettingsParts DEF pemVars, PemTypeOK, SaverWell, Whole
  <2> QED BY <2>1, <2>2, <2>3, SettingsParts, SettingsPartsNext
<1>3. ASSUME UNCHANGED settingsVars PROVE SettingsInv'
  <2>1. PemTypeOK' /\ \A s \in Saver : SaverWell(s)'
    BY <1>3, SettingsParts DEF settingsVars, PemTypeOK, SaverWell, Whole
  <2> QED BY <1>3, <2>1, SettingsParts, SettingsPartsNext DEF settingsVars
<1> QED BY <1>1, <1>2, <1>3, PrepareKeeps, LookUpKeeps, ValidateKeeps, ApplyKeeps, SelfSignKeeps,
           WritePemKeeps, RenamePemKeeps, SelectKeeps, ReloadKeeps DEF SettingsNext

LEMMA SettingsInvAlways == SettingsSpec => []SettingsInv
BY SettingsInitWell, SettingsInvKept, PTL DEF SettingsSpec

\* No field has a value the rest of the server cannot use, whatever state.json and the POSTs
\* say (load in persistence.go, handleConfig in handlers.go).
THEOREM ConfigValidAlways == SettingsSpec => []ConfigValid
<1>1. SettingsInv => ConfigValid
  BY DEF SettingsInv
<1> QED BY <1>1, SettingsInvAlways, PTL

\* What load makes of a configuration in use is that configuration.
LEMMA LoadedKeeps ==
  ASSUME ConfigWell(cfg), NEW f \in Field
  PROVE  Repaired(cfg, f) = IF Replaced(f) THEN DefaultOf(f) ELSE cfg[f]
<1>1. cfg[f] \in Value /\ \A g \in Field : Decoded(cfg[g]) = cfg[g] /\ cfg[g] # Absent
  BY ValueFacts DEF ConfigWell, Decoded
<1>2. ~NoWindow(cfg)
  BY <1>1 DEF NoWindow, ConfigWell
<1>3. ~FallsBack(cfg, f) /\ ~ShowsAgents(cfg, f)
  BY <1>1 DEF FallsBack, ShowsAgents, ConfigWell
<1>4. Resets(cfg, f) <=> Replaced(f)
  BY <1>1, <1>2, KindFacts DEF Resets, Replaced, ConfigWell
<1> QED BY <1>1, <1>3, <1>4 DEF Repaired

\* A restart changes no setting but those that load replaces and a POST may store
\* (handleConfig in handlers.go, load in persistence.go).
THEOREM SettingsKeptAlways == SettingsSpec => SettingsKept
<1>1. SettingsInv /\ [SettingsNext]_settingsVars => [KeepsSettings]_settingsVars
  <2> SUFFICES ASSUME SettingsInv, SettingsNext, reloads' # reloads, stateFile = cfg, NEW f \in Field
               PROVE  cfg'[f] = IF Replaced(f) THEN DefaultOf(f) ELSE cfg[f]
    BY DEF KeepsSettings
  <2>1. Reload
    BY DEF SettingsNext, Prepare, LookUp, Validate, Apply, SelfSign, WritePem, RenamePem, PemFails,
       Select, SaveSettings, countVars
  <2>2. cfg'[f] = Repaired(cfg, f)
    BY <2>1 DEF Reload, Loaded
  <2> QED BY <2>2, LoadedKeeps, SettingsParts
<1> QED BY <1>1, SettingsInvAlways, PTL DEF SettingsSpec, SettingsKept

\* A POST that switches HTTPS on stores a certificate and a key of one pair, and the managed
\* one only when it loaded at some time since the POST came, whatever other POSTs,
\* self-signings, failures and restarts came between (prepareTLSFields in tls.go,
\* handleConfig in handlers.go).
THEOREM CheckedPairAlways == SettingsSpec => CheckedPair
<1>1. SettingsInv /\ [SettingsNext]_settingsVars => [\A s \in Saver : StoresPair(s)]_settingsVars
  <2> SUFFICES ASSUME SettingsInv, SettingsNext, NEW s \in Saver, saver[s] = "checked",
                      saver'[s] = "idle", reloads' = reloads, body[s]["tlsEnabled"] = On
               PROVE  /\ OnePair(stateFile'["tlsCertPath"], stateFile'["tlsKeyPath"])
                      /\ stateFile'["tlsCertPath"] = Standard => fit[s]
    BY DEF StoresPair
  <2>1. /\ saver \in [Saver -> SaverStep] /\ reloads \in Nat
        /\ OnePair(body[s]["tlsCertPath"], body[s]["tlsKeyPath"])
        /\ body[s]["tlsCertPath"] = Standard => fit[s]
    BY SettingsParts, SettingsAssumption DEF SaverWell
  <2>2. Apply(s)
    <3>1. ASSUME NEW t \in Saver, NEW w, saver' = [saver EXCEPT ![t] = w] PROVE t = s
      BY <2>1, <3>1
    <3>2. ASSUME NEW t \in Saver, Prepare(t) \/ SelfSign(t) PROVE FALSE
      BY <2>1, <3>2 DEF Prepare, SelfSign, Come
    <3>3. ASSUME NEW t \in Saver, LookUp(t) \/ Validate(t) \/ WritePem(t) PROVE FALSE
      BY <3>1, <3>3 DEF LookUp, Validate, WritePem, Turns, Ends
    <3>4. ASSUME NEW t \in Saver, RenamePem(t) \/ PemFails(t) \/ Select(t) PROVE FALSE
      BY <3>1, <3>4 DEF RenamePem, PemFails, Select, Ends
    <3>5. ASSUME NEW t \in Saver, Apply(t) PROVE t = s
      BY <3>1, <3>5 DEF Apply, Ends
    <3>6. ~SaveSettings /\ ~Reload
      BY <2>1 DEF SaveSettings, Reload
    <3> QED BY <3>2, <3>3, <3>4, <3>5, <3>6 DEF SettingsNext
  <2>3. ASSUME NEW f \in {"tlsCertPath", "tlsKeyPath"} PROVE stateFile'[f] = body[s][f]
    <3>1. f \in HttpsFields /\ f \in Field
      BY SettingsAssumption DEF HttpsFields
    <3>2. body[s][f] # Absent
      BY <2>1, ValueFacts DEF OnePair, Absent, Standard, Other
    <3>3. ~Skips(f, body[s][f]) /\ Lowered(f, body[s][f]) = body[s][f]
      BY <3>1, KindFacts DEF Skips, Lowered
    <3> QED BY <2>2, <3>1, <3>2, <3>3 DEF Apply, Stored
  <2> QED BY <2>1, <2>3
<1> QED BY <1>1, SettingsInvAlways, PTL DEF SettingsSpec, CheckedPair

-----------------------------------------------------------------------------
(* The dashboard's events *)

\* What a step makes of the variables of the events that it changes keeps its type: the
\* snapshots are states there were, and a channel holds no more than its room.
LEMMA FeedTypeKept ==
  ASSUME FeedTypeOK, [FeedNext]_feedVars
  PROVE  FeedTypeOK'
<1> DEFINE Shown == 0..MaxChanges
           Typed(q) == q \in Seq(Shown) /\ Len(q) <= QueueLen
<1>0. \A s \in Subscriber : Typed(queue[s])
  BY DEF FeedTypeOK
<1>1. ASSUME NEW g \in Changer, Change(g) PROVE FeedTypeOK'
  BY <1>1, FeedAssumption DEF FeedTypeOK, Change
<1>2. ASSUME NEW g \in Broadcaster, Snapshot(g) PROVE FeedTypeOK'
  <2>1. taken' \in [Broadcaster -> {Nothing} \cup Shown]
    BY <1>2 DEF FeedTypeOK, Snapshot
  <2> QED BY <1>2, <2>1 DEF FeedTypeOK, Snapshot
<1>3. ASSUME NEW g \in Broadcaster, Broadcast(g) PROVE FeedTypeOK'
  <2>1. taken[g] \in Shown /\ taken' \in [Broadcaster -> {Nothing} \cup Shown]
    BY <1>3 DEF FeedTypeOK, Broadcast
  <2>2. ASSUME NEW s \in Subscriber PROVE Typed(Offer(queue[s], taken[g]))
    <3>1. queue[s] \in Seq(Shown) /\ Len(queue[s]) \in Nat /\ Len(queue[s]) <= QueueLen
      BY <1>0, LenProperties
    <3>2. /\ Append(queue[s], taken[g]) \in Seq(Shown)
          /\ Len(Append(queue[s], taken[g])) = Len(queue[s]) + 1
      BY <2>1, <3>1, AppendProperties
    <3>3. CASE Len(queue[s]) < QueueLen
      <4>1. Offer(queue[s], taken[g]) = Append(queue[s], taken[g])
        BY <3>3 DEF Offer
      <4> HIDE DEF Shown
      <4> QED BY <3>1, <3>2, <3>3, <4>1, FeedAssumption
    <3>4. CASE ~(Len(queue[s]) < QueueLen)
      <4>1. Offer(queue[s], taken[g]) = queue[s]
        BY <3>4 DEF Offer
      <4> QED BY <3>1, <4>1
    <3> QED BY <3>3, <3>4
  <2>3. queue' \in [Subscriber -> Seq(Shown)] /\ \A s \in Subscriber : Typed(queue'[s])
    BY <1>0, <1>3, <2>2 DEF Broadcast
  <2> QED BY <1>3, <2>1, <2>3 DEF FeedTypeOK, Broadcast
<1>4. ASSUME NEW s \in Subscriber, Subscribe(s) PROVE FeedTypeOK'
  BY <1>4 DEF FeedTypeOK, Subscribe
<1>5. ASSUME NEW s \in Subscriber, Greet(s) PROVE FeedTypeOK'
  BY <1>5 DEF FeedTypeOK, Greet
<1>6. ASSUME NEW s \in Subscriber, Receive(s) PROVE FeedTypeOK'
  <2>1. Head(queue[s]) \in Shown /\ Typed(Tail(queue[s]))
    <3>1. queue[s] \in Seq(Shown) /\ queue[s] # <<>> /\ Len(queue[s]) \in Nat /\ Len(queue[s]) <= QueueLen
      BY <1>0, <1>6, LenProperties DEF Receive
    <3>2. /\ Head(queue[s]) \in Shown /\ Tail(queue[s]) \in Seq(Shown)
          /\ Len(Tail(queue[s])) = Len(queue[s]) - 1
      BY <3>1, HeadTailProperties
    <3> QED BY <3>1, <3>2, FeedAssumption
  <2>2. queue' \in [Subscriber -> Seq(Shown)] /\ \A t \in Subscriber : Typed(queue'[t])
    BY <1>0, <1>6, <2>1 DEF FeedTypeOK, Receive
  <2>3. shown' \in [Subscriber -> {Nothing} \cup Shown]
    BY <1>6, <2>1 DEF FeedTypeOK, Receive
  <2> QED BY <1>6, <2>2, <2>3 DEF FeedTypeOK, Receive
<1>7. ASSUME NEW s \in Subscriber, Leave_(s) PROVE FeedTypeOK'
  <2>1. Typed(<<>>)
    BY FeedAssumption
  <2>2. queue' \in [Subscriber -> Seq(Shown)] /\ \A t \in Subscriber : Typed(queue'[t])
    BY <1>0, <1>7, <2>1 DEF FeedTypeOK, Leave_
  <2>3. shown' \in [Subscriber -> {Nothing} \cup Shown]
    BY <1>7 DEF FeedTypeOK, Leave_
  <2> QED BY <1>7, <2>2, <2>3 DEF FeedTypeOK, Leave_
<1>8. CASE UNCHANGED feedVars
  BY <1>8 DEF feedVars, FeedTypeOK
<1> QED BY <1>1, <1>2, <1>3, <1>4, <1>5, <1>6, <1>7, <1>8 DEF FeedNext, Broadcasts, Listens

LEMMA FeedInitWell == FeedInit => FeedTypeOK
<1> SUFFICES ASSUME FeedInit PROVE FeedTypeOK
  OBVIOUS
<1>1. 0 \in 0..MaxChanges
  BY FeedAssumption
<1>2. <<>> \in Seq(0..MaxChanges) /\ Len(<<>>) <= QueueLen
  BY FeedAssumption
<1> QED BY <1>1, <1>2 DEF FeedInit, FeedTypeOK

-----------------------------------------------------------------------------
(* Together *)

\* A behaviour of Services is one of each part: the parts that do not move stutter.
LEMMA PartsMove ==
  [ServicesNext]_servicesVars =>
    /\ [AccessNext]_accessVars /\ [ImagesNext]_imagesVars /\ [FeedNext]_feedVars
    /\ [HistoryNext]_historyVars /\ [SettingsNext]_settingsVars /\ [GuestNext]_guestVars
<1> SUFFICES ASSUME [ServicesNext]_servicesVars
             PROVE  /\ [AccessNext]_accessVars /\ [ImagesNext]_imagesVars /\ [FeedNext]_feedVars
                    /\ [HistoryNext]_historyVars /\ [SettingsNext]_settingsVars
                    /\ [GuestNext]_guestVars
  OBVIOUS
<1>1. CASE UNCHANGED servicesVars
  BY <1>1 DEF servicesVars
<1>2. ASSUME NEW p, Others(p)
      PROVE  /\ p # "access" => UNCHANGED accessVars
             /\ p # "images" => UNCHANGED imagesVars
             /\ p # "feed" => UNCHANGED feedVars
             /\ p # "history" => UNCHANGED historyVars
             /\ p # "settings" => UNCHANGED settingsVars
             /\ p # "guest" => UNCHANGED guestVars
  BY <1>2 DEF Others
<1> QED BY <1>1, <1>2 DEF ServicesNext

LEMMA PartsBehave ==
  ServicesSpec => /\ AccessSpec /\ ImagesSpec /\ HistorySpec /\ SettingsSpec
                  /\ FeedInit /\ [][FeedNext]_feedVars
                  /\ GuestInit /\ [][GuestNext]_guestVars
<1>1. ServicesInit => /\ AccessInit /\ ImagesInit /\ FeedInit /\ HistoryInit /\ SettingsInit
                      /\ GuestInit
  BY DEF ServicesInit
<1> QED BY <1>1, PartsMove, PTL
     DEF ServicesSpec, AccessSpec, ImagesSpec, HistorySpec, SettingsSpec

\* The inductive invariants of the parts hold of the server's behaviours.
THEOREM ServicesInvAlways == ServicesSpec => []ServicesInv
<1>1. ServicesInit => ServicesInv
  BY AccessInitWell, ImagesInvKept, FeedInitWell, HistoryInitWell, SettingsInitWell, GuestInitWell
     DEF ServicesInit, ServicesInv
<1>2. ServicesInv /\ [ServicesNext]_servicesVars => ServicesInv'
  BY PartsMove, AccessInvKept, ImagesInvKept, FeedTypeKept, HistoryInvKept, SettingsInvKept,
     GuestInvKept
     DEF ServicesInv
<1> QED BY <1>1, <1>2, PTL DEF ServicesSpec

\* The types of every part, and a configuration the server can use.
THEOREM TypesAlways == ServicesSpec => []ServicesTypeOK
<1>1. ServicesInv => ServicesTypeOK
  BY DEF ServicesInv, ServicesTypeOK, AccessInv, ImagesInv, HistoryInv, SettingsInv, GuestInv
<1> QED BY <1>1, ServicesInvAlways, PTL

\* What the parts promise, of the server's behaviours: a request answers as the access token
\* was at some time while it ran, one download at a time and the newest list for whoever
\* waits, an enrolment for each time the flag was set, runs that stay over and settings that
\* restarts keep, a pair of files that loads, and a host name that is what is noted.
THEOREM PartsKeepTheirPromises ==
  ServicesSpec => /\ [](SignedOut /\ OneDownload /\ NewerList /\ EnrollOnce /\ AppliedTrue)
                  /\ TakesEffect /\ StaleClosed /\ SettingsKept /\ CheckedPair
BY PartsBehave, SignedOutAlways, OneDownloadAlways, NewerListAlways, EnrollOnceAlways,
   AppliedTrueAlways, TakesEffectAlways, StaleClosedAlways, SettingsKeptAlways, CheckedPairAlways,
   PTL
=============================================================================

------------------------------- MODULE Images -------------------------------
(* The list of restore images: ipsw.go.  One download of the feed at a time, *)
(* joined by every request that comes meanwhile, on a deadline of its own;   *)
(* the list is kept for a day, and beside state.json for the next start.     *)
(*                                                                           *)
(* A list is the number of the download it came from; 0 is no list.  The     *)
(* feed is taken to name an image at least: one that names none replaces the *)
(* list as any other.                                                        *)
EXTENDS Integers

CONSTANTS
    Reader,     \* requests for the list, the first run's prefetch among them
    MaxFetches, \* bound: downloads
    MaxStarts   \* bound: restarts of the server

ASSUME ImagesAssumption == MaxFetches \in Nat /\ MaxStarts \in Nat

Flight == 1..MaxFetches
NoFlight == 0
Empty == 0

VARIABLES
    list,     \* ipswEntries
    stale,    \* ipswFetched is more than ipswCacheTTL ago
    cacheFile,\* ipsw-list.json
    flight,   \* ipswFlight
    fetching, \* downloads under way
    ended,    \* downloads whose done channel is closed
    result,   \* err of each download that is over: "none", "ok" or "failed"
    asked,    \* where each request is: "idle", "waits" or "awake"
    joined,   \* the download it waits for
    gaveUp,   \* its context ended first
    had,      \* auxiliary: the list there was when it asked
    starts    \* restarts so far

imagesVars == <<list, stale, cacheFile, flight, fetching, ended, result, asked, joined,
                gaveUp, had, starts>>
listVars == <<list, stale, cacheFile>>
flightVars == <<flight, fetching, ended, result>>
readerVars == <<asked, joined, gaveUp, had>>

Used == {f \in Flight : result[f] # "none"} \cup fetching

(* A list of this day is returned at once, and nothing changes.              *)
NeedsDownload == list = Empty \/ stale

(* Mutant: nobody looks whether one is under way. *)
MayStartAny == TRUE

MayStart == flight = NoFlight

(* Otherwise the request joins the download there is, or starts one.         *)
Join(r) ==
    /\ asked[r] = "idle" /\ NeedsDownload
    /\ IF MayStart
       THEN \E f \in Flight \ Used :
               /\ \A k \in Flight \ Used : f <= k
               /\ flight' = f
               /\ fetching' = fetching \cup {f}
       ELSE UNCHANGED <<flight, fetching>>
    /\ asked' = [asked EXCEPT ![r] = "waits"]
    /\ joined' = [joined EXCEPT ![r] = flight']
    /\ had' = [had EXCEPT ![r] = list]
    /\ UNCHANGED <<listVars, ended, result, gaveUp, starts>>

(* runIPSWFetch, its section: a failure leaves the list alone; saving it may *)
(* fail unnoticed.                                                           *)
FetchFails(f) ==
    /\ f \in fetching
    /\ fetching' = fetching \ {f}
    /\ result' = [result EXCEPT ![f] = "failed"]
    /\ flight' = NoFlight
    /\ UNCHANGED <<listVars, ended, readerVars, starts>>

FetchWorks(f) ==
    /\ f \in fetching
    /\ fetching' = fetching \ {f}
    /\ result' = [result EXCEPT ![f] = "ok"]
    /\ flight' = NoFlight
    /\ list' = f /\ stale' = FALSE
    /\ cacheFile' \in {f, cacheFile}
    /\ UNCHANGED <<ended, readerVars, starts>>

(* Its last line wakes who waits.                                            *)
CloseDone(f) ==
    /\ result[f] # "none" /\ f \notin ended
    /\ ended' = ended \cup {f}
    /\ UNCHANGED <<listVars, flight, fetching, result, readerVars, starts>>

WakeUp(r) ==
    /\ asked[r] = "waits"
    /\ joined[r] \in ended
    /\ asked' = [asked EXCEPT ![r] = "awake"]
    /\ UNCHANGED <<listVars, flightVars, joined, gaveUp, had, starts>>

(* The browser goes away, or two minutes have passed.                        *)
GiveUp(r) ==
    /\ asked[r] = "waits"
    /\ asked' = [asked EXCEPT ![r] = "awake"]
    /\ gaveUp' = [gaveUp EXCEPT ![r] = TRUE]
    /\ UNCHANGED <<listVars, flightVars, joined, had, starts>>

(* Mutant: the error of the download is forgotten. *)
FailedWaiting(r) == gaveUp[r]

(* The error that comes with the list.                                       *)
Failed(r) == gaveUp[r] \/ result[joined[r]] = "failed"

Answer(r) ==
    /\ asked[r] = "awake"
    /\ asked' = [asked EXCEPT ![r] = "idle"]
    /\ joined' = [joined EXCEPT ![r] = NoFlight]
    /\ gaveUp' = [gaveUp EXCEPT ![r] = FALSE]
    /\ had' = [had EXCEPT ![r] = Empty]
    /\ UNCHANGED <<listVars, flightVars, starts>>

DayPasses ==
    /\ list # Empty /\ ~stale
    /\ stale' = TRUE
    /\ UNCHANGED <<list, cacheFile, flightVars, readerVars, starts>>

(* The server restarts, with the list it saved last.                         *)
Start ==
    /\ starts < MaxStarts
    /\ starts' = starts + 1
    /\ list' = cacheFile
    /\ stale' \in IF cacheFile = Empty THEN {FALSE} ELSE BOOLEAN
    /\ flight' = NoFlight /\ fetching' = {}
    /\ result' = [f \in Flight |-> IF f \in fetching THEN "failed" ELSE result[f]]
    /\ ended' = {f \in Flight : result'[f] # "none"}
    /\ asked' = [r \in Reader |-> "idle"]
    /\ joined' = [r \in Reader |-> NoFlight]
    /\ gaveUp' = [r \in Reader |-> FALSE]
    /\ had' = [r \in Reader |-> Empty]
    /\ UNCHANGED cacheFile

-----------------------------------------------------------------------------
ImagesInit ==
    /\ list = Empty /\ stale = FALSE /\ cacheFile = Empty
    /\ flight = NoFlight /\ fetching = {} /\ ended = {}
    /\ result = [f \in Flight |-> "none"]
    /\ asked = [r \in Reader |-> "idle"] /\ joined = [r \in Reader |-> NoFlight]
    /\ gaveUp = [r \in Reader |-> FALSE] /\ had = [r \in Reader |-> Empty]
    /\ starts = 0

Download(f) == FetchFails(f) \/ FetchWorks(f) \/ CloseDone(f)
Serves(r) == WakeUp(r) \/ Answer(r)

ImagesNext ==
    \/ \E r \in Reader : Join(r) \/ Serves(r) \/ GiveUp(r)
    \/ \E f \in Flight : Download(f)
    \/ DayPasses
    \/ Start

ImagesSpec == ImagesInit /\ [][ImagesNext]_imagesVars

-----------------------------------------------------------------------------
(* Types, and that nobody can join a download that is over. *)
ImagesTypeOK ==
    /\ list \in 0..MaxFetches /\ cacheFile \in 0..MaxFetches /\ stale \in BOOLEAN
    /\ flight \in 0..MaxFetches /\ fetching \subseteq Flight /\ ended \subseteq Flight
    /\ result \in [Flight -> {"none", "ok", "failed"}]
    /\ asked \in [Reader -> {"idle", "waits", "awake"}]
    /\ flight \notin ended
    /\ joined \in [Reader -> 0..MaxFetches] /\ had \in [Reader -> 0..MaxFetches]
    /\ gaveUp \in [Reader -> BOOLEAN] /\ starts \in 0..MaxStarts

(* The feed is downloaded once at a time, and the download that requests     *)
(* join is the one under way: it is forgotten in the section that ends it.   *)
OneDownload == fetching = {flight} \ {NoFlight}

(* A request that had to wait and comes back without an error has a list     *)
(* newer than the one it found too old: what failed is not reported as new.  *)
NewerList == \A r \in Reader : asked[r] = "awake" /\ ~Failed(r) => list > had[r]

(* Why: downloads are numbered as they begin, one that is over has a result, *)
(* and a list is that of one that is over.  A request waits for a download   *)
(* later than its list; once that worked, the list is as late.               *)
Came(r) ==
    asked[r] # "idle" =>
        /\ joined[r] \in Used /\ had[r] < joined[r]
        /\ result[joined[r]] = "ok" => joined[r] <= list
        /\ asked[r] = "awake" /\ ~gaveUp[r] => result[joined[r]] # "none"
ImagesInv ==
    /\ ImagesTypeOK /\ OneDownload
    /\ \A f \in fetching : result[f] = "none"
    /\ \A f \in ended : result[f] # "none"
    /\ \A f \in Used : \A k \in Flight : k < f => k \in Used
    /\ flight # NoFlight => \A f \in Used : f <= flight
    /\ \A l \in {list, cacheFile} : l # Empty => result[l] # "none"
    /\ \A r \in Reader : Came(r)
=============================================================================

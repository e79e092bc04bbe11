------------------------------ MODULE Services ------------------------------
(* The parts of the server that keep state of their own, in one module for   *)
(* TLC: the access token, the restore images, the dashboard's events, the   *)
(* run history, the settings and the commands in a guest.  As modelled they  *)
(* share no variable and do not wait for each other, so what one does is not *)
(* changed by what another does at the same time, and a behaviour here is    *)
(* one of a single part.                                                     *)
EXTENDS Access, Images, Feed, History, Settings, Guest

VARIABLE part  \* the part that moves

Part == {"access", "images", "feed", "history", "settings", "guest"}
servicesVars == <<accessVars, imagesVars, feedVars, historyVars, settingsVars, guestVars, part>>

(* A part that does not move is in the first of its initial states.          *)
Still ==
    /\ part # "settings" =>
          /\ cfg = [f \in Field |-> DefaultOf(f)]
          /\ \A f \in Field : stateFile[f] = IF f \in HttpsFields THEN Zero ELSE Absent
          /\ pem = [f \in Pem |-> 0]
    /\ part # "guest" => fallback /\ wanted = Unmanaged

ServicesInit ==
    /\ part \in Part
    /\ AccessInit /\ ImagesInit /\ FeedInit /\ HistoryInit /\ SettingsInit /\ GuestInit
    /\ Still

Others(p) ==
    /\ part = p /\ UNCHANGED part
    /\ p # "access" => UNCHANGED accessVars
    /\ p # "images" => UNCHANGED imagesVars
    /\ p # "feed" => UNCHANGED feedVars
    /\ p # "history" => UNCHANGED historyVars
    /\ p # "settings" => UNCHANGED settingsVars
    /\ p # "guest" => UNCHANGED guestVars

ServicesNext ==
    \/ Others("access") /\ AccessNext
    \/ Others("images") /\ ImagesNext
    \/ Others("feed") /\ FeedNext
    \/ Others("history") /\ HistoryNext
    \/ Others("settings") /\ SettingsNext
    \/ Others("guest") /\ GuestNext

(* FeedFairness and GuestFairness, where the part is the one that moves: the *)
(* monitor could broadcast in the others, which nothing else could.          *)
ServicesFairness ==
    /\ \A g \in Broadcaster : WF_feedVars(part = "feed" /\ Broadcasts(g))
    /\ \A s \in Subscriber : WF_feedVars(part = "feed" /\ Listens(s))
    /\ \A p \in Goroutine : WF_guestVars(part = "guest" /\ (Probe(p) \/ SetName(p)))
    /\ \A b \in Session : WF_guestVars(part = "guest" /\ Boots(b))

ServicesTypeOK ==
    /\ AccessTypeOK /\ ImagesTypeOK /\ FeedTypeOK /\ HistoryTypeOK /\ GuestTypeOK
    /\ ConfigValid

(* Why each part keeps what it promises: what a cached token file says is    *)
(* what the file said when it was looked at, a download belongs to the       *)
(* flight its waiters joined, a boot under way has its entry open and an     *)
(* arming is used up once, what a POST stores load does not repair, and      *)
(* hostnameBusy is set exactly while a goroutine sets the guest's name.      *)
ServicesInv ==
    /\ AccessInv /\ ImagesInv /\ FeedTypeOK /\ HistoryInv /\ SettingsInv /\ GuestInv

ServicesSpec == ServicesInit /\ [][ServicesNext]_servicesVars /\ ServicesFairness
=============================================================================

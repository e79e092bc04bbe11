------------------------------ MODULE Settings ------------------------------
(* The configuration: defaultConfig and Config of types.go, load and save of *)
(* persistence.go, handleConfig of handlers.go, and the HTTPS settings and   *)
(* the managed certificate of tls.go.                                        *)
(*                                                                           *)
(* A field has one of the values below.  What is valid, and what load and a  *)
(* POST do with the rest, differs between kinds of field.  An older          *)
(* state.json leaves fields out, which reads as the zero value, except where *)
(* load asks whether the field is there.                                     *)
(*                                                                           *)
(* The managed certificate and its key are two files, numbered by the        *)
(* signing they come from: they load together when the numbers are equal.    *)
(* A file is written, renamed or read in one step.                           *)
EXTENDS Integers

CONSTANTS
    Field,      \* the fields considered, HttpsFields among them
    Saver,      \* POSTs that may be under way at a time
    MaxPosts,   \* bound: POSTs
    MaxReloads, \* bound: restarts of the server
    MaxSigns    \* bound: self-signed pairs made

Absent == -1  \* not in the file
Zero == 0     \* blank, 0 or false
Standard == 1 \* the default, where it is not Zero, or true
Other == 2    \* another valid value; a cap; a choice load falls back to
Beyond == 3   \* above the cap, not a choice, or what load replaces
Value == Zero..Beyond

(* Fields by their place in handleConfig, and by the checks made there.      *)
Paths == {"listen", "vmStoragePath", "sharedDir", "tartAppPath"}
Periods == {"intervalMinutes", "windowMinutes"}
Capped == {"maxConcurrent"}
Modes == {"schedulerMode"}
Switches == {"excluded", "excludeOciFromScheduler", "noGraphics", "suspendable", "jamfRecon",
             "paused", "dailyEnabled"}
Times == {"dailyStart", "dailyStop"}
Credentials == {"sshUser", "sshPassword"}
Codes == {"jamfInvitationCode"}
HttpsFields == {"tlsEnabled", "tlsCertPath", "tlsKeyPath"}
Toggles == {"sshFallbackEnabled", "prioritizeSshShutdown", "showJamfFeatures",
            "showAgentFeatures", "disableTartUpdateCheck", "disableOvenUpdateCheck"}
Keys == {"sshKey"}
Timeouts == {"sshTimeoutSec", "bootTimeoutSec", "historyDays"}
Texts == {"statusCommand", "logPath"}
Networks == {"netPriority"}
Rest == {"runArgs", "serverLabel", "showRunningOnly", "firstRunCompleted", "operatorRole",
         "agentTemplates"}
AgentSwitch == {"agentEnabled"}
Ttl == {"agentMaxTtlMin"}
Url == {"jamfBaseUrl"}

AllFields ==
    Paths \cup Periods \cup Capped \cup Modes \cup Switches \cup Times \cup Credentials
    \cup Codes \cup HttpsFields \cup Toggles \cup Keys \cup Timeouts \cup Texts \cup Networks \cup Rest
    \cup AgentSwitch \cup Ttl \cup Url

Flags ==
    (Switches \ {"excluded"}) \cup Toggles \cup AgentSwitch
    \cup {"tlsEnabled", "showRunningOnly", "firstRunCompleted"}
ValuesOf(f) == IF f \in Flags THEN {Zero, Standard} ELSE Value

ASSUME SettingsAssumption ==
    /\ Field \subseteq AllFields /\ HttpsFields \subseteq Field
    /\ MaxPosts \in Nat /\ MaxReloads \in Nat /\ MaxSigns \in Nat

VARIABLES
    cfg,     \* m.cfg
    stateFile,    \* the configuration in state.json
    saver,   \* where each request is, a POST of settings or of a self-signing
    body,    \* the fields of its POST: Absent where it has none
    pem,     \* the managed key and certificate: the signings they are from
    pemTmp,  \* their temporary files, shared by all who sign
    made,    \* the signing each request is writing
    fit,     \* auxiliary: the managed pair loaded since the request came
    posts, reloads, signs

settingsVars == <<cfg, stateFile, saver, body, pem, pemTmp, made, fit, posts, reloads, signs>>
fieldVars == <<cfg, stateFile>>
pemVars == <<pem, pemTmp, signs>>
countVars == <<posts, reloads>>

-----------------------------------------------------------------------------
(* Loading *)

(* defaultConfig *)
ZeroByDefault ==
    HttpsFields \cup AgentSwitch \cup Rest \cup Url \cup Codes
    \cup {"excluded", "noGraphics", "jamfRecon", "prioritizeSshShutdown", "showJamfFeatures",
          "showAgentFeatures", "disableTartUpdateCheck", "disableOvenUpdateCheck"}
DefaultOf(f) == IF f \in ZeroByDefault THEN Zero ELSE Standard

(* Fields whose absence load can tell from false, and those it resets alone. *)
Presence == {"excludeOciFromScheduler", "sshFallbackEnabled"}

RepairedBlank ==
    Paths \cup Periods \cup Capped \cup Credentials \cup Keys \cup Timeouts \cup Texts \cup Ttl

(* Fields with a value of former versions, Beyond here, that load replaces.  *)
Renewed == {"tartAppPath", "statusCommand"}

Decoded(v) == IF v = Absent THEN Zero ELSE v

(* A daily window with an end missing is that of the default, and on.        *)
NoWindow(d) == \E f \in Times \cap Field : Decoded(d[f]) = Zero

(* Mutant: a switch that is off is taken for one that is not there.          *)
ResetsOff(d, f) ==
    \/ f \in Presence \cup RepairedBlank /\ Decoded(d[f]) = Zero
    \/ f \in Keys \cup Renewed /\ d[f] = Beyond
    \/ f \in Times \cup {"dailyEnabled"} /\ NoWindow(d)

(* The fields load sets to the default, and those it sets to its own choice. *)
Resets(d, f) ==
    \/ f \in Presence /\ d[f] = Absent
    \/ f \in RepairedBlank /\ Decoded(d[f]) = Zero
    \/ f \in Keys \cup Renewed /\ d[f] = Beyond
    \/ f \in Times \cup {"dailyEnabled"} /\ NoWindow(d)

FallsBack(d, f) ==
    \/ f \in Capped /\ d[f] = Beyond
    \/ f \in Modes \cup Networks /\ d[f] \notin {Standard, Other}

(* A file without showAgentFeatures shows them where the agent API is on.    *)
ShowsAgents(d, f) ==
    f = "showAgentFeatures" /\ d[f] = Absent /\ "agentEnabled" \in Field
        /\ d["agentEnabled"] = Standard

Repaired(d, f) ==
    IF Resets(d, f) THEN DefaultOf(f)
    ELSE IF FallsBack(d, f) THEN Other
    ELSE IF ShowsAgents(d, f) THEN Standard
    ELSE Decoded(d[f])

Loaded(d) == [f \in Field |-> Repaired(d, f)]

-----------------------------------------------------------------------------
(* Posting *)

On == Standard
Pem == {"key", "cert"}

(* A certificate and a key of one pair: the managed one and another.         *)
OnePair(cert, key) == cert = key /\ cert \in {Standard, Other}

Whole == pem["cert"] # 0 /\ pem["cert"] = pem["key"]

(* Mutant: the managed pair is taken to load.                                *)
LoadsManaged(cert, key) == OnePair(cert, key)

(* validateTLSPair: the other pair always loads.                             *)
Loads(cert, key) == OnePair(cert, key) /\ (cert = Standard => Whole)

Overlaid(b, f) == IF b[f] = Absent THEN cfg[f] ELSE b[f]

(* prepareTLSFields: under the lock, the HTTPS settings are read, for what   *)
(* they would be; the POST is to set both paths.                             *)
Completed(b) ==
    [b EXCEPT !["tlsCertPath"] = Overlaid(b, "tlsCertPath"), !["tlsKeyPath"] = Overlaid(b, "tlsKeyPath")]
Plain(b) == \A f \in HttpsFields : b[f] = Absent
TurnsOff(b) == ~Plain(b) /\ Overlaid(b, "tlsEnabled") # On
Blanks(b) == {f \in {"tlsCertPath", "tlsKeyPath"} : Overlaid(b, f) = Zero}
WithManaged(b) == [b EXCEPT !["tlsCertPath"] = Standard, !["tlsKeyPath"] = Standard]

(* The whole POST is refused for an address that is none.                    *)
BadUrl(b) == \E f \in Url \cap Field : b[f] = Beyond

(* What a POST stores of a value, and what it skips.                         *)
NonBlank == Paths \cup Periods \cup Timeouts \cup Credentials \cup Codes
Skips(f, v) ==
    \/ v = Zero /\ f \in NonBlank \cup Capped \cup Ttl
    \/ v \in {Zero, Beyond} /\ f \in Modes \cup Networks \cup Times \cup Keys

Lowered(f, v) == IF f \in Capped \cup Ttl /\ v = Beyond THEN Other ELSE v

Stored(b) ==
    [f \in Field |-> IF b[f] = Absent \/ Skips(f, b[f]) THEN cfg[f] ELSE Lowered(f, b[f])]

(* Any HTTPS settings, or another field: the others do not meet.             *)
Bodies ==
    {[h \in Field |-> IF h = "tlsEnabled" THEN e ELSE IF h = "tlsCertPath" THEN c
                      ELSE IF h = "tlsKeyPath" THEN k ELSE Absent] :
        e \in {Absent} \cup ValuesOf("tlsEnabled"), c \in {Absent} \cup Value,
        k \in {Absent} \cup Value}
    \cup UNION {{[h \in Field |-> IF h = f THEN v ELSE Absent] : v \in ValuesOf(f)} : f \in Field}

Blank == [f \in Field |-> Absent]

Come(s, w) ==
    /\ saver' = [saver EXCEPT ![s] = w]
    /\ fit' = [fit EXCEPT ![s] = Whole]
Turns(s, w) == saver' = [saver EXCEPT ![s] = w] /\ UNCHANGED fit
Ends(s) ==
    /\ saver' = [saver EXCEPT ![s] = "idle"]
    /\ body' = [body EXCEPT ![s] = Blank]
    /\ made' = [made EXCEPT ![s] = 0]
    /\ fit' = [fit EXCEPT ![s] = FALSE]

(* A POST is read: what follows depends on whether HTTPS is to be on, and on *)
(* the paths.  One path alone is refused.                                    *)
Prepare(s) ==
    /\ saver[s] = "idle" /\ posts < MaxPosts
    /\ posts' = posts + 1
    /\ \E b \in Bodies :
          /\ ~BadUrl(b)
          /\ \/ Plain(b) /\ body' = [body EXCEPT ![s] = b] /\ Come(s, "checked")
             \/ TurnsOff(b) /\ body' = [body EXCEPT ![s] = Completed(b)] /\ Come(s, "checked")
             \/ /\ ~Plain(b) /\ ~TurnsOff(b)
                /\ \/ Blanks(b) = {} /\ body' = [body EXCEPT ![s] = Completed(b)] /\ Come(s, "loads")
                   \/ /\ Blanks(b) = {"tlsCertPath", "tlsKeyPath"}
                      /\ body' = [body EXCEPT ![s] = WithManaged(b)] /\ Come(s, "looks")
    /\ UNCHANGED <<fieldVars, pemVars, made, reloads>>

(* Without paths the managed pair is meant, and made where there is no       *)
(* certificate.                                                              *)
Signs(s) ==
    /\ signs < MaxSigns /\ signs' = signs + 1
    /\ made' = [made EXCEPT ![s] = signs']
    /\ UNCHANGED <<pem, pemTmp>>

LookUp(s) ==
    /\ saver[s] = "looks"
    /\ \/ pem["cert"] = 0 /\ Signs(s) /\ Turns(s, "key")
       \/ pem["cert"] # 0 /\ Turns(s, "loads") /\ UNCHANGED <<pemVars, made>>
    /\ UNCHANGED <<fieldVars, body, countVars>>

(* POST /api/tls/self-signed *)
SelfSign(s) ==
    /\ saver[s] = "idle" /\ posts < MaxPosts
    /\ posts' = posts + 1
    /\ Signs(s) /\ Come(s, "key")
    /\ UNCHANGED <<fieldVars, body, reloads>>

(* generateSelfSigned, without a lock: the key and then the certificate,     *)
(* each written to a temporary file, which another signing may overwrite or  *)
(* rename, and renamed.                                                      *)
WritePem(s) ==
    /\ saver[s] \in {"key", "cert"}
    /\ pemTmp' = [pemTmp EXCEPT ![saver[s]] = made[s]]
    /\ Turns(s, IF saver[s] = "key" THEN "keyed" ELSE "certed")
    /\ UNCHANGED <<fieldVars, body, pem, signs, made, countVars>>

PemOf(s) == IF saver[s] = "keyed" THEN "key" ELSE "cert"
RenamePem(s) ==
    LET f == PemOf(s) IN
    /\ saver[s] \in {"keyed", "certed"} /\ pemTmp[f] # 0
    /\ pem' = [pem EXCEPT ![f] = pemTmp[f]]
    /\ pemTmp' = [pemTmp EXCEPT ![f] = 0]
    /\ saver' = [saver EXCEPT ![s] = IF f = "key" THEN "cert"
                                     ELSE IF body[s] = Blank THEN "select" ELSE "loads"]
    /\ fit' = [t \in Saver |-> fit[t] \/ (saver[t] # "idle" /\ Whole')]
    /\ UNCHANGED <<fieldVars, body, signs, made, countVars>>

(* The disk is full, or the temporary file has been renamed by another.      *)
PemFails(s) ==
    /\ saver[s] \in {"key", "keyed", "cert", "certed"}
    /\ Ends(s)
    /\ UNCHANGED <<fieldVars, pemVars, countVars>>

(* prepareTLSFields ends with the pair being loaded; a POST with one that    *)
(* does not load is refused.                                                 *)
Validate(s) ==
    /\ saver[s] = "loads"
    /\ \/ /\ Loads(body[s]["tlsCertPath"], body[s]["tlsKeyPath"])
          /\ Turns(s, "checked")
          /\ UNCHANGED <<body, made>>
       \/ ~Loads(body[s]["tlsCertPath"], body[s]["tlsKeyPath"]) /\ Ends(s)
    /\ UNCHANGED <<fieldVars, pemVars, countVars>>

(* The POST is applied under the lock, and saved. *)
Apply(s) ==
    /\ saver[s] = "checked"
    /\ cfg' = Stored(body[s])
    /\ stateFile' = cfg'
    /\ Ends(s)
    /\ UNCHANGED <<pemVars, countVars>>

(* A self-signing, too, takes the lock when its files are written.           *)
Select(s) ==
    /\ saver[s] = "select"
    /\ cfg' = WithManaged(cfg)
    /\ stateFile' = cfg'
    /\ Ends(s)
    /\ UNCHANGED <<pemVars, countVars>>

(* startupTLS: the managed pair is made when its certificate is missing or   *)
(* about to expire.  A pair that does not load keeps the server from         *)
(* starting.                                                                 *)
Startup(c) ==
    LET blank == Zero \in {c["tlsCertPath"], c["tlsKeyPath"]}
        managed == blank \/ (c["tlsCertPath"] = Standard /\ c["tlsKeyPath"] = Standard) IN
    \/ c["tlsEnabled"] # On /\ UNCHANGED pemVars
    \/ /\ c["tlsEnabled"] = On /\ managed /\ signs < MaxSigns
       /\ signs' = signs + 1
       /\ pem' = [f \in Pem |-> signs'] /\ pemTmp' = [f \in Pem |-> 0]
    \/ c["tlsEnabled"] = On /\ managed /\ Whole /\ UNCHANGED pemVars
    \/ /\ c["tlsEnabled"] = On /\ ~managed /\ Loads(c["tlsCertPath"], c["tlsKeyPath"])
       /\ UNCHANGED pemVars

(* The server stops or crashes, and starts again. *)
Reload ==
    /\ reloads < MaxReloads
    /\ reloads' = reloads + 1
    /\ cfg' = Loaded(stateFile)
    /\ Startup(cfg')
    /\ saver' = [s \in Saver |-> "idle"]
    /\ body' = [s \in Saver |-> Blank]
    /\ made' = [s \in Saver |-> 0]
    /\ fit' = [s \in Saver |-> FALSE]
    /\ UNCHANGED <<stateFile, posts>>

(* Something else of the state is saved, and the configuration with it.      *)
SaveSettings ==
    /\ stateFile # cfg
    /\ stateFile' = cfg
    /\ UNCHANGED <<cfg, saver, body, pemVars, made, fit, countVars>>

-----------------------------------------------------------------------------
(* The first start: no state.json or a corrupt one, one with every field     *)
(* alike, or without the fields one by one.  Its HTTPS settings are off; a   *)
(* crash of a former run may have left a key newer than its certificate.     *)
Files ==
    {[f \in Field |-> IF f \in HttpsFields \/ v \notin ValuesOf(f) \cup {Absent} THEN Zero ELSE v] :
        v \in Value \cup {Absent}}
    \cup {[f \in Field |-> IF f \in HttpsFields THEN Zero ELSE IF f = g THEN Absent ELSE On] : g \in Field}

SettingsInit ==
    /\ stateFile \in Files
    /\ cfg \in {Loaded(stateFile), [f \in Field |-> DefaultOf(f)]}
    /\ saver = [s \in Saver |-> "idle"]
    /\ body = [s \in Saver |-> Blank]
    /\ pem \in [Pem -> 0..MaxSigns] /\ (pem["key"] = 0 <=> pem["cert"] = 0)
    /\ pem["key"] # 0 => pem["cert"] < pem["key"]
    /\ signs = pem["key"] /\ pemTmp = [f \in Pem |-> 0]
    /\ made = [s \in Saver |-> 0] /\ fit = [s \in Saver |-> FALSE]
    /\ posts = 0 /\ reloads = 0

SettingsNext ==
    \/ \E s \in Saver : Prepare(s) \/ LookUp(s) \/ Validate(s) \/ Apply(s)
    \/ \E s \in Saver : SelfSign(s) \/ WritePem(s) \/ RenamePem(s) \/ PemFails(s) \/ Select(s)
    \/ Reload \/ SaveSettings

SettingsSpec == SettingsInit /\ [][SettingsNext]_settingsVars

-----------------------------------------------------------------------------
(* No field has a value the rest of the server cannot use, whatever the file *)
(* and the POSTs say: no empty path or period, no more VMs than the host     *)
(* runs, no unknown mode (load, handleConfig).                               *)
ConfigValid ==
    \A f \in Field :
       /\ cfg[f] \in Value
       /\ f \in RepairedBlank \ Texts => cfg[f] # Zero
       /\ f \in Capped => cfg[f] # Beyond
       /\ f \in Modes \cup Networks => cfg[f] \in {Standard, Other}

Replaced(f) == (f \in Texts /\ cfg[f] = Zero) \/ (f \in Renewed /\ cfg[f] = Beyond)

(* A restart changes no setting: what handleConfig accepts and saves, load   *)
(* does not repair.  Only what a POST may store and load replaces, a blank   *)
(* status command or log path or the value of a former version, is the       *)
(* default again.  A file older than a field counts from the first save.     *)
KeepsSettings ==
    reloads' # reloads /\ stateFile = cfg =>
        \A f \in Field : cfg'[f] = IF Replaced(f) THEN DefaultOf(f) ELSE cfg[f]
SettingsKept == [][KeepsSettings]_settingsVars

(* "Tart Oven checks that they load when you save" (README.md): a POST that  *)
(* switches HTTPS on stores a certificate and a key of one pair, though      *)
(* other POSTs and new certificates came between its check and its turn, as  *)
(* prepareTLSFields has it set both paths; and the managed pair only when it *)
(* loaded at some time since the POST came.  That it still loads is not      *)
(* said: two signings at once, or a crash between the files of one, leave a  *)
(* key and a certificate that do not belong together.                        *)
StoresPair(s) ==
    saver[s] = "checked" /\ saver'[s] = "idle" /\ reloads' = reloads /\ body[s]["tlsEnabled"] = On
        => /\ OnePair(stateFile'["tlsCertPath"], stateFile'["tlsKeyPath"])
           /\ stateFile'["tlsCertPath"] = Standard => fit[s]
CheckedPair == [][\A s \in Saver : StoresPair(s)]_settingsVars

(* Why: what load would repair is never stored, and a POST that is to switch *)
(* HTTPS on has checked the paths it carries.                                *)
SaverStep == {"idle", "looks", "key", "keyed", "cert", "certed", "select", "loads", "checked"}
SaverWell(s) ==
    /\ saver[s] # "idle" /\ Whole => fit[s]
    /\ saver[s] = "checked" /\ body[s]["tlsEnabled"] = On =>
          /\ OnePair(body[s]["tlsCertPath"], body[s]["tlsKeyPath"])
          /\ body[s]["tlsCertPath"] = Standard => fit[s]
PemTypeOK ==
    /\ pem \in [Pem -> 0..MaxSigns] /\ pemTmp \in [Pem -> 0..MaxSigns]
    /\ made \in [Saver -> 0..MaxSigns] /\ fit \in [Saver -> BOOLEAN]
    /\ signs \in 0..MaxSigns
SettingsInv ==
    /\ ConfigValid
    /\ cfg \in [Field -> Value] /\ stateFile \in [Field -> Value \cup {Absent}]
    /\ saver \in [Saver -> SaverStep]
    /\ body \in [Saver -> [Field -> Value \cup {Absent}]]
    /\ PemTypeOK
    /\ posts \in 0..MaxPosts /\ reloads \in 0..MaxReloads
    /\ \A f \in Field : /\ f \in Keys => cfg[f] # Beyond
                        /\ f \in Times => cfg[f] # Zero
    /\ \A s \in Saver : SaverWell(s)
=============================================================================

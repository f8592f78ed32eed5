--------------------------- MODULE StartupProofs ---------------------------
(***************************************************************************)
(* What main works with, proved over ServerFront: the migrations settle,   *)
(* exactly one password opens a running server, and restarts keep it.      *)
(***************************************************************************)
EXTENDS ServerFront, TLAPS

\* Where the hash is made, and where it is what was made of the password.
Hashed == {"mapper", "tls", "probe", "bind", "serve"}

(***************************************************************************)
(* The places of main decide what the configuration has been through: a    *)
(* save remembers where to go on, so each fact is about the two together.  *)
(***************************************************************************)
PlaceInv ==
    /\ config \in Config
    /\ file \in Config \cup {Absent, Torn}
    /\ pc = "migratePort" \/ (pc \in {"truncate", "write"} /\ resume = "migratePort")
           => ~NeedsTls(config)
    /\ pc = "override" \/ (pc \in {"truncate", "write"} /\ resume = "override")
           => ~NeedsTls(config) /\ ~NeedsPort(config)
    /\ pc = "hash" \/ (pc \in {"truncate", "write"} /\ resume = "hash")
           => config.password # NoPassword
    /\ pc \in {"truncate", "write"} => resume \in {"migratePort", "override", "hash"}
    /\ pc \in Hashed => config.password # NoPassword /\ hash = HashPassword(config.password)

LEMMA InitPlace == FrontInit => PlaceInv
BY StartupAssumption DEF FrontInit, Init, PlaceInv, Config, Port, DefaultConfig, Hashed

LEMMA DefaultsSettled ==
    DefaultConfig \in Config /\ ~NeedsTls(DefaultConfig) /\ ~NeedsPort(DefaultConfig)
BY StartupAssumption DEF DefaultConfig, Port, Config, NeedsTls, NeedsPort

\* The first migration turns TLS on and redirecting off, and nothing else.
LEMMA MigratedTls ==
    ASSUME NEW c \in Config, NEW d, d = [c EXCEPT !.tls = TRUE, !.redirect = FALSE]
    PROVE  d \in Config /\ d.redirect = FALSE
<1>1. PICK B : B = BOOLEAN
  OBVIOUS
<1>2. Config = [port : Port, tls : B, redirect : B, password : Password, upnp : B]
  BY <1>1, Zenon DEF Config
<1>3. TRUE \in B /\ FALSE \in B
  BY <1>1
<1>4. c \in [port : Port, tls : B, redirect : B, password : Password, upnp : B]
  BY <1>2
<1>5. /\ d \in [port : Port, tls : B, redirect : B, password : Password, upnp : B]
      /\ d.redirect = FALSE
  BY ONLY <1>3, <1>4, d = [c EXCEPT !.tls = TRUE, !.redirect = FALSE], Zenon
<1> QED
  BY <1>2, <1>5

\* Nor does it touch the password.
LEMMA MigratedPassword ==
    ASSUME NEW c \in Config
    PROVE  [c EXCEPT !.tls = TRUE, !.redirect = FALSE].password = c.password
<1>1. PICK B : B = BOOLEAN
  OBVIOUS
<1>2. c \in [port : Port, tls : B, redirect : B, password : Password, upnp : B]
  BY <1>1, Zenon DEF Config
<1> QED
  BY ONLY <1>2, Zenon

\* Loading and migrating.
LEMMA LoadPlace ==
    ASSUME PlaceInv, \/ Edit \/ Start \/ Load \/ CreateDefault \/ LoadFails
                     \/ MigrateTls \/ MigratePort
    PROVE  PlaceInv'
<1>1. CASE Edit
  BY <1>1 DEF Edit, At, PlaceInv, Hashed
<1>2. CASE Start
  BY <1>2 DEF Start, PlaceInv, Hashed
<1>3. CASE Load
  BY <1>3 DEF Load, PlaceInv, Hashed
<1>4. CASE CreateDefault \/ LoadFails
  <2>1. /\ config' = DefaultConfig /\ file' = file
        /\ pc' = "truncate" /\ resume' = "override"
    BY <1>4 DEF CreateDefault, LoadFails, UseDefaults, Save
  <2> QED
    BY <2>1, DefaultsSettled DEF PlaceInv, Hashed, NeedsTls, NeedsPort
<1>5. CASE MigrateTls
  <2>1. CASE NeedsTls(config)
    <3>1. /\ config' = [config EXCEPT !.tls = TRUE, !.redirect = FALSE] /\ file' = file
          /\ pc' = "truncate" /\ resume' = "migratePort"
      BY <1>5, <2>1 DEF MigrateTls, Save
    <3>2. config' \in Config /\ config'.redirect = FALSE
      BY <3>1, MigratedTls DEF PlaceInv
    <3> QED
      BY <3>1, <3>2 DEF PlaceInv, Hashed, NeedsTls
  <2>2. CASE ~NeedsTls(config)
    BY <1>5, <2>2 DEF MigrateTls, PlaceInv, Hashed, NeedsTls
  <2> QED
    BY <2>1, <2>2
<1>6. CASE MigratePort
  <2>1. CASE NeedsPort(config)
    <3>1. /\ config' = [config EXCEPT !.port = 8443] /\ file' = file
          /\ pc' = "truncate" /\ resume' = "override" /\ ~NeedsTls(config)
      BY <1>6, <2>1 DEF MigratePort, Save, At, PlaceInv
    <3> QED
      BY <3>1 DEF PlaceInv, Hashed, NeedsTls, NeedsPort, Config, Port
  <2>2. CASE ~NeedsPort(config)
    BY <1>6, <2>2 DEF MigratePort, At, PlaceInv, Hashed, NeedsTls, NeedsPort
  <2> QED
    BY <2>1, <2>2
<1> QED
  BY <1>1, <1>2, <1>3, <1>4, <1>5, <1>6

\* Config::save, complete or not.
LEMMA SavePlace ==
    ASSUME PlaceInv, Truncate \/ WriteOut \/ SaveFails PROVE PlaceInv'
<1>1. CASE Truncate
  BY <1>1 DEF Truncate, At, PlaceInv, Hashed, NeedsTls, NeedsPort
<1>2. CASE WriteOut
  <2>1. pc = "write" /\ pc' = resume /\ resume' = resume /\ config' = config
    BY <1>2 DEF WriteOut, At
  <2>2. file' = config
    BY <1>2 DEF WriteOut
  <2> QED
    BY <2>1, <2>2 DEF PlaceInv, Hashed, NeedsTls, NeedsPort
<1>3. CASE SaveFails
  BY <1>3 DEF SaveFails, PlaceInv, Hashed, NeedsTls, NeedsPort
<1> QED
  BY <1>1, <1>2, <1>3

\* The rest of main: the password is settled before it is hashed.
LEMMA MainPlace ==
    ASSUME PlaceInv, \/ Override \/ HashConfig \/ NewMapper \/ BuildTlsAcceptor
                     \/ Probe \/ Listen \/ BindFails \/ CtrlC \/ Crash
    PROVE  PlaceInv'
<1>1. CASE Override
  <2>1. pc' = "truncate" /\ resume' = "hash" /\ file' = file /\ config' \in Config
    BY <1>1 DEF Override, Save
  <2>2. PICK pwd \in Password : config'.password \in EnsurePassword(pwd)
    BY <1>1 DEF Override
  <2>3. config'.password # NoPassword
    BY <2>2 DEF EnsurePassword
  <2> QED
    BY <2>1, <2>3 DEF PlaceInv, Hashed
<1>2. CASE HashConfig
  BY <1>2 DEF HashConfig, At, PlaceInv, Hashed
<1>3. CASE NewMapper \/ BuildTlsAcceptor \/ Probe \/ Listen
  BY <1>3 DEF NewMapper, BuildTlsAcceptor, Probe, Listen, At, PlaceInv, Hashed
<1>4. CASE BindFails \/ CtrlC \/ Crash
  BY <1>4, DefaultsSettled DEF BindFails, CtrlC, Crash, Exit, PlaceInv, Hashed
<1> QED
  BY <1>1, <1>2, <1>3, <1>4

LEMMA StepPlace == PlaceInv /\ [Next]_vars => PlaceInv'
<1> SUFFICES ASSUME PlaceInv, [Next]_vars PROVE PlaceInv'
  OBVIOUS
<1>1. CASE UNCHANGED startVars
  BY <1>1 DEF startVars, PlaceInv, Hashed, NeedsTls, NeedsPort
<1>2. CASE \E c \in Client : \/ Dial(c) \/ Deliver(c) \/ Accept(c) \/ AcceptFails(c)
                             \/ HangUp(c) \/ Sniff(c) \/ Finish(c)
  BY <1>1, <1>2 DEF Dial, Deliver, Accept, AcceptFails, HangUp, Sniff, Finish, Gone
<1>3. CASE UNCHANGED vars
  BY <1>1, <1>3 DEF vars
<1> QED
  BY <1>2, <1>3, LoadPlace, SavePlace, MainPlace DEF Next

LEMMA Places == Spec => []PlaceInv
BY InitPlace, StepPlace, PTL DEF Spec

(***************************************************************************)
(* What the command line makes of the settled configuration, from the      *)
(* override on: through the save, and until the process ends.              *)
(***************************************************************************)
AfterOverride == pc \in Hashed \cup {"hash"} \/ (pc \in {"truncate", "write"} /\ resume = "hash")

AskedInv == AfterOverride => ~NeedsTls(config) /\ (NeedsPort(config) => portGiven)

\* The override leaves TLS and redirecting alone, and the port too unless it is
\* given.
LEMMA OverrideAsks ==
    ASSUME PlaceInv, Override
    PROVE  ~NeedsTls(config)' /\ (NeedsPort(config)' => portGiven')
<1>1. ~NeedsTls(config) /\ ~NeedsPort(config)
  BY DEF Override, At, PlaceInv
<1>2. /\ config'.tls = config.tls /\ config'.redirect = config.redirect
      /\ portGiven' \/ config'.port = config.port
  BY DEF Override
<1> QED
  BY <1>1, <1>2 DEF NeedsTls, NeedsPort

LEMMA StepAsked == PlaceInv /\ AskedInv /\ [Next]_vars => AskedInv'
<1> SUFFICES ASSUME PlaceInv, AskedInv, [Next]_vars PROVE AskedInv'
  OBVIOUS
<1>1. UNCHANGED <<config, portGiven>> /\ (AfterOverride' => AfterOverride) => AskedInv'
  BY DEF AskedInv, NeedsTls, NeedsPort
<1>2. CASE \/ Edit \/ Start \/ Load \/ CreateDefault \/ LoadFails \/ MigrateTls
           \/ MigratePort \/ BindFails \/ CtrlC \/ Crash
  <2>1. ~AfterOverride'
    BY <1>2 DEF Edit, Start, Load, CreateDefault, LoadFails, UseDefaults, MigrateTls,
                MigratePort, Save, At, BindFails, CtrlC, Crash, Exit, AfterOverride, Hashed
  <2> QED
    BY <2>1 DEF AskedInv
<1>3. CASE Truncate \/ WriteOut \/ SaveFails
  BY <1>1, <1>3 DEF Truncate, WriteOut, SaveFails, At, AfterOverride, Hashed, PlaceInv
<1>4. CASE Override
  BY <1>4, OverrideAsks DEF AskedInv
<1>5. CASE HashConfig \/ NewMapper \/ BuildTlsAcceptor \/ Probe \/ Listen
  BY <1>1, <1>5 DEF HashConfig, NewMapper, BuildTlsAcceptor, Probe, Listen, At,
                    AfterOverride, Hashed
<1>6. CASE UNCHANGED startVars
  BY <1>1, <1>6 DEF startVars, AfterOverride
<1>7. CASE \E c \in Client : \/ Dial(c) \/ Deliver(c) \/ Accept(c) \/ AcceptFails(c)
                             \/ HangUp(c) \/ Sniff(c) \/ Finish(c)
  BY <1>6, <1>7 DEF Dial, Deliver, Accept, AcceptFails, HangUp, Sniff, Finish, Gone
<1>8. CASE UNCHANGED vars
  BY <1>6, <1>8 DEF vars
<1> QED
  BY <1>2, <1>3, <1>4, <1>5, <1>7, <1>8 DEF Next

\* load_or_create hands main a configuration that needs neither migration, and
\* from the override on TLS runs on port 8080 only where this start was given
\* --port - through any number of restarts, crashes, edits of the file and
\* saves that fail.
THEOREM MigrationsSettle == Spec => []MigrationSettles
<1>1. PlaceInv /\ AskedInv => MigrationSettles
  BY DEF PlaceInv, AskedInv, AfterOverride, Hashed, MigrationSettles
<1>2. FrontInit => AskedInv
  BY DEF FrontInit, Init, AskedInv, AfterOverride, Hashed
<1> QED
  BY <1>1, <1>2, StepAsked, Places, PTL DEF Spec

\* Exactly the configured password opens a running server.
THEOREM OnePasswordSuffices == Spec => []OnePasswordOpens
<1>1. PlaceInv => OnePasswordOpens
  <2> SUFFICES ASSUME PlaceInv, pc = "serve"
               PROVE {p \in Password : VerifyPassword(p, hash)} = {config.password}
    BY DEF OnePasswordOpens
  <2>1. config.password \in Password
    BY DEF PlaceInv, Config
  <2>2. hash = [format |-> "argon2id", of |-> config.password]
    BY DEF PlaceInv, Hashed, HashPassword
  <2> QED
    BY <2>1, <2>2 DEF VerifyPassword
<1> QED
  BY <1>1, Places, PTL

----------------------------------------------------------------------------
(***************************************************************************)
(* Why restarts keep the password: as long as one is owed, it is in the    *)
(* file, if there is one that can be loaded, and in the configuration once *)
(* that has been loaded.  Listen can owe it because a successful save is   *)
(* the last thing that happened to the file.                               *)
(***************************************************************************)
KeptInv ==
    /\ pc \in {"hash"} \cup Hashed /\ saved => file = config
    /\ owed # NoPassword =>
           /\ file # Absent
           /\ file \in Config => file.password = owed
           /\ pc \notin {"down", "load"} => config.password = owed

LEMMA InitKept == FrontInit => KeptInv
BY DEF FrontInit, Init, KeptInv, Hashed

LEMMA LoadKept ==
    ASSUME PlaceInv, KeptInv, \/ Edit \/ Start \/ Load \/ CreateDefault \/ LoadFails
                              \/ MigrateTls \/ MigratePort
    PROVE  KeptInv'
<1>1. CASE Edit
  BY <1>1 DEF Edit, At, KeptInv, Hashed
<1>2. CASE Start
  BY <1>2 DEF Start, KeptInv, Hashed
<1>3. CASE Load
  BY <1>3 DEF Load, KeptInv, Hashed
<1>4. CASE CreateDefault
  <2>1. owed' = NoPassword /\ pc' = "truncate"
    BY <1>4 DEF CreateDefault, UseDefaults, Save, KeptInv
  <2> QED
    BY <2>1 DEF KeptInv, Hashed
<1>5. CASE LoadFails
  <2>1. owed' = NoPassword /\ pc' = "truncate"
    BY <1>5 DEF LoadFails, UseDefaults, Save
  <2> QED
    BY <2>1 DEF KeptInv, Hashed
<1>6. CASE MigrateTls \/ MigratePort
  <2>1. /\ config'.password = config.password /\ UNCHANGED <<file, owed>>
        /\ pc \in {"migrateTls", "migratePort"}
        /\ pc' \in {"truncate", "migratePort", "override"}
    <3>1. config'.password = config.password
      <4>1. \/ config' = [config EXCEPT !.tls = TRUE, !.redirect = FALSE]
            \/ config' = [config EXCEPT !.port = 8443]
            \/ config' = config
        BY <1>6 DEF MigrateTls, MigratePort
      <4>2. config \in Config
        BY DEF PlaceInv
      <4>3. CASE config' = [config EXCEPT !.tls = TRUE, !.redirect = FALSE]
        BY <4>2, <4>3, MigratedPassword, Zenon
      <4>4. CASE config' = [config EXCEPT !.port = 8443]
        BY <4>2, <4>4 DEF Config
      <4> QED
        BY <4>1, <4>3, <4>4
    <3>2. /\ pc \in {"migrateTls", "migratePort"}
          /\ pc' \in {"truncate", "migratePort", "override"}
      BY <1>6 DEF MigrateTls, MigratePort, Save, At
    <3>3. UNCHANGED <<file, owed>>
      BY <1>6 DEF MigrateTls, MigratePort
    <3> QED
      BY <3>1, <3>2, <3>3
  <2> QED
    BY <2>1 DEF KeptInv, Hashed
<1> QED
  BY <1>1, <1>2, <1>3, <1>4, <1>5, <1>6

LEMMA SaveKept ==
    ASSUME PlaceInv, KeptInv, Truncate \/ WriteOut \/ SaveFails PROVE KeptInv'
<1>1. CASE Truncate
  BY <1>1, StartupAssumption DEF Truncate, At, KeptInv, Hashed
<1>2. CASE WriteOut
  <2>1. /\ pc = "write" /\ file' = config /\ config' = config /\ owed' = owed
        /\ pc' = resume
    BY <1>2 DEF WriteOut, At
  <2> QED
    BY <2>1, StartupAssumption DEF PlaceInv, KeptInv, Hashed
<1>3. CASE SaveFails
  BY <1>3 DEF SaveFails, PlaceInv, KeptInv, Hashed
<1> QED
  BY <1>1, <1>2, <1>3

LEMMA MainKept ==
    ASSUME PlaceInv, KeptInv,
           \/ Override \/ HashConfig \/ NewMapper \/ BuildTlsAcceptor
           \/ Probe \/ Listen \/ BindFails \/ CtrlC \/ Crash
    PROVE  KeptInv'
<1>1. CASE Override
  <2>1. PICK pwd \in Password :
          /\ config'.password \in EnsurePassword(pwd)
          /\ owed' = IF pwd = config.password THEN owed ELSE NoPassword
    BY <1>1 DEF Override
  <2>2. pc = "override" /\ pc' = "truncate" /\ file' = file
    BY <1>1 DEF Override, Save, At
  <2>3. owed' # NoPassword => owed' = owed /\ config'.password = owed
    BY <2>1, <2>2 DEF KeptInv, EnsurePassword
  <2> QED
    BY <2>2, <2>3 DEF KeptInv, Hashed
<1>2. CASE HashConfig
  BY <1>2 DEF HashConfig, At, KeptInv, Hashed
<1>3. CASE NewMapper \/ BuildTlsAcceptor \/ Probe
  <2>1. UNCHANGED <<file, config, saved, owed>>
    BY <1>3 DEF NewMapper, BuildTlsAcceptor, Probe
  <2>2. pc \in Hashed /\ pc' \in Hashed /\ pc' \notin {"down", "load"}
    BY <1>3 DEF NewMapper, BuildTlsAcceptor, Probe, At, Hashed
  <2> QED
    BY <2>1, <2>2 DEF KeptInv, Hashed
<1>4. CASE Listen
  <2>1. /\ pc = "bind" /\ pc' = "serve" /\ UNCHANGED <<file, config, saved>>
        /\ owed' = IF saved THEN config.password ELSE NoPassword
    BY <1>4 DEF Listen, At
  <2>2. saved => file = config /\ file \in Config
    BY <2>1 DEF PlaceInv, KeptInv, Hashed
  <2> QED
    BY <2>1, <2>2, StartupAssumption DEF KeptInv
<1>5. CASE BindFails \/ CtrlC \/ Crash
  BY <1>5 DEF BindFails, CtrlC, Crash, Exit, KeptInv, Hashed
<1> QED
  BY <1>1, <1>2, <1>3, <1>4, <1>5

LEMMA StepKept == PlaceInv /\ KeptInv /\ [Next]_vars => KeptInv'
<1> SUFFICES ASSUME PlaceInv, KeptInv, [Next]_vars PROVE KeptInv'
  OBVIOUS
<1>1. CASE UNCHANGED startVars
  BY <1>1 DEF startVars, KeptInv, Hashed
<1>2. CASE \E c \in Client : \/ Dial(c) \/ Deliver(c) \/ Accept(c) \/ AcceptFails(c)
                             \/ HangUp(c) \/ Sniff(c) \/ Finish(c)
  BY <1>1, <1>2 DEF Dial, Deliver, Accept, AcceptFails, HangUp, Sniff, Finish, Gone
<1>3. CASE UNCHANGED vars
  BY <1>1, <1>3 DEF vars
<1> QED
  BY <1>2, <1>3, LoadKept, SaveKept, MainKept DEF Next

\* A password that was served from a saved file is the one the next process
\* serves: no migration, failed save or crash outside a save loses it.
THEOREM RestartsKeepThePassword == Spec => []PasswordKept
<1>1. KeptInv => PasswordKept
  BY DEF KeptInv, PasswordKept
<1> QED
  BY <1>1, InitKept, StepKept, Places, PTL DEF Spec
----------------------------------------------------------------------------
(* Types: what PlaceInv does not say of them.                              *)

MainTyped ==
    /\ pc \in Place /\ resume \in {"down", "migratePort", "override", "hash"}
    /\ portGiven \in BOOLEAN /\ saved \in BOOLEAN
    /\ hash \in Hash \cup {NoHash} /\ acceptor \in BOOLEAN
    /\ mapper \in {"none", "asked", "released"}
    /\ owed \in Password /\ faults \in 0..MaxFaults

FrontTyped ==
    /\ conn \in [Client -> {"away", "dialled", "open"} \cup Answer]
    /\ arrived \in [Client -> 0..2]

LEMMA InitTyped == FrontInit => MainTyped /\ FrontTyped
<1> SUFFICES ASSUME FrontInit PROVE MainTyped /\ FrontTyped
  OBVIOUS
<1>1. faults \in 0..MaxFaults /\ owed \in Password
  BY StartupAssumption DEF FrontInit, Init
<1>2. FrontTyped
  BY DEF FrontInit, FrontTyped
<1> QED
  BY <1>1, <1>2 DEF FrontInit, Init, MainTyped, Place

LEMMA FaultTyped == ASSUME MainTyped, Fault PROVE faults' \in 0..MaxFaults
BY StartupAssumption DEF Fault, MainTyped

\* The argon2 hash of a password is a hash; the empty password has none.
LEMMA HashTyped == ASSUME NEW c \in Config PROVE HashPassword(c.password) \in Hash \cup {NoHash}
<1>1. c.password \in Password
  BY Zenon DEF Config
<1> QED
  BY <1>1 DEF HashPassword, Hash

LEMMA TlsTyped == ASSUME NEW c \in Config, NEW a \in {FALSE, c.tls} PROVE a \in BOOLEAN
<1>1. PICK B : B = BOOLEAN
  OBVIOUS
<1>2. Config = [port : Port, tls : B, redirect : B, password : Password, upnp : B]
  BY <1>1, Zenon DEF Config
<1>3. c.tls \in B /\ FALSE \in B
  BY ONLY <1>1, <1>2, c \in Config, Zenon
<1>4. a = FALSE \/ a = c.tls
  BY ONLY a \in {FALSE, c.tls}, Zenon
<1>5. a \in B
  BY ONLY <1>3, <1>4, Zenon
<1> QED
  BY ONLY <1>1, <1>5, Zenon

LEMMA StepMainTyped ==
    ASSUME PlaceInv, MainTyped, [Next]_vars PROVE MainTyped'
<1> USE DEF MainTyped, Place, At
<1>1. CASE Edit \/ Start \/ Load
  BY <1>1, StartupAssumption DEF Edit, Start, Load
<1>2. CASE CreateDefault
  BY <1>2 DEF CreateDefault, UseDefaults, Save
<1>3. CASE LoadFails
  BY <1>3, FaultTyped, StartupAssumption DEF LoadFails, UseDefaults, Save
<1>4. CASE MigrateTls \/ MigratePort
  BY <1>4 DEF MigrateTls, MigratePort, Save
<1>5. CASE Truncate \/ WriteOut
  BY <1>5 DEF Truncate, WriteOut
<1>6. CASE SaveFails
  BY <1>6, FaultTyped DEF SaveFails
<1>7. CASE Override
  BY <1>7, StartupAssumption DEF Override, Save
<1>8. CASE HashConfig
  BY <1>8, HashTyped DEF HashConfig, PlaceInv
<1>9. CASE BuildTlsAcceptor
  <2>1. acceptor' \in BOOLEAN
    BY <1>9, TlsTyped DEF BuildTlsAcceptor, PlaceInv
  <2> QED
    BY <1>9, <2>1 DEF BuildTlsAcceptor
<1>10. CASE NewMapper \/ Probe
  BY <1>10 DEF NewMapper, Probe
<1>11. CASE Listen
  <2>1. config.password \in Password
    BY Zenon DEF PlaceInv, Config
  <2>2. owed' \in Password
    BY <1>11, <2>1, StartupAssumption DEF Listen
  <2> QED
    BY <1>11, <2>2 DEF Listen
<1>12. CASE BindFails \/ CtrlC \/ Crash
  BY <1>12, FaultTyped DEF BindFails, CtrlC, Crash, Exit
<1>13. CASE UNCHANGED startVars
  BY <1>13 DEF startVars
<1>14. CASE \E c \in Client : \/ Dial(c) \/ Deliver(c) \/ Accept(c) \/ AcceptFails(c)
                              \/ HangUp(c) \/ Sniff(c) \/ Finish(c)
  BY <1>13, <1>14 DEF Dial, Deliver, Accept, AcceptFails, HangUp, Sniff, Finish, Gone
<1>15. CASE UNCHANGED vars
  BY <1>13, <1>15 DEF vars
<1> QED
  BY <1>1, <1>2, <1>3, <1>4, <1>5, <1>6, <1>7, <1>8, <1>9, <1>10, <1>11, <1>12, <1>14, <1>15
     DEF Next

LEMMA StepFrontTyped ==
    ASSUME FrontTyped, [Next]_vars PROVE FrontTyped'
<1>1. CASE UNCHANGED frontVars
  BY <1>1 DEF frontVars, FrontTyped
<1>2. CASE HangUpAll
  BY <1>2 DEF HangUpAll, FrontTyped
<1>3. ASSUME NEW c \in Client,
             \/ Dial(c) \/ Deliver(c) \/ Accept(c) \/ AcceptFails(c)
             \/ HangUp(c) \/ Sniff(c) \/ Finish(c)
      PROVE  FrontTyped'
  <2>1. CASE Gone(c)
    BY <2>1 DEF Gone, FrontTyped
  <2>2. CASE Dial(c) \/ Deliver(c) \/ Accept(c)
    BY <2>2 DEF Dial, Deliver, Accept, FrontTyped
  <2>3. CASE Sniff(c)
    BY <2>3 DEF Sniff, FrontTyped, Answer
  <2> QED
    BY <1>3, <2>1, <2>2, <2>3 DEF AcceptFails, HangUp, Finish
<1>4. CASE UNCHANGED vars
  BY <1>1, <1>4 DEF vars
<1> QED
  BY <1>1, <1>2, <1>3, <1>4 DEF Next

\* Every variable of the process and of its connections keeps its type, and the
\* file is a configuration, torn, or not there.
THEOREM TypesHold == Spec => []TypeOK
<1>1. PlaceInv /\ MainTyped /\ FrontTyped => TypeOK
  BY DEF PlaceInv, MainTyped, FrontTyped, TypeOK, StartTypeOK
<1> QED
  BY <1>1, InitTyped, StepMainTyped, StepFrontTyped, Places, PTL DEF Spec
=============================================================================

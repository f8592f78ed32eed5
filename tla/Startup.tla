------------------------------ MODULE Startup ------------------------------
(***************************************************************************)
(* A WebPad process from the first line of main to the accept loop, and    *)
(* the file webpad.toml it shares with earlier and later processes.  One   *)
(* process runs at a time; between two of them the user may edit the file. *)
(* Config::save is std::fs::write: it truncates the file and then writes   *)
(* it, so a crash or a full disk in between leaves a file that no longer   *)
(* parses.                                                                 *)
(***************************************************************************)
EXTENDS Naturals

CONSTANTS Password,    \* the strings a password can be, NoPassword included
          NoPassword,  \* the empty string
          Absent, Torn,  \* no file; a file cut off in the middle of a write
          MaxFaults    \* bound: failed saves, failed loads and crashes

VARIABLES pc,        \* where main is; "down": no process
          resume,    \* where main goes on after Config::save
          file,      \* webpad.toml
          config,    \* main's Config
          portGiven, \* args.port is Some: --port is on the command line
          saved,     \* the last Config::save returned Ok
          hash,      \* the hash AuthManager was created with
          acceptor,  \* main's tls_acceptor is Some
          mapper,    \* what was last asked of the port mapping service
          owed,      \* history: the password the users were told
          faults     \* faults so far

startVars == <<pc, resume, file, config, portGiven, saved, hash, acceptor, mapper,
               owed, faults>>
----------------------------------------------------------------------------
(* Configuration.  8443 stands for every port but the old default 8080;    *)
(* redirect is http_redirect_port > 0.                                     *)

Port == {8080, 8443}
Config == [port : Port, tls : BOOLEAN, redirect : BOOLEAN,
           password : Password, upnp : BOOLEAN]
DefaultConfig == [port |-> 8443, tls |-> TRUE, redirect |-> FALSE,
                  password |-> NoPassword, upnp |-> FALSE]
ASSUME StartupAssumption ==
    /\ NoPassword \in Password /\ MaxFaults \in Nat
    /\ Absent \notin Config /\ Torn \notin Config /\ Absent # Torn

(* Hashing is one-way and without collisions; the format is kept, since    *)
(* verification goes by it.                                                *)
Hash == [format : {"argon2id", "sha256"}, of : Password]
NoHash == [format |-> "empty", of |-> NoPassword]

BugHashPassword(p) == [format |-> "plain", of |-> p]

HashPassword(p) ==
    IF p = NoPassword THEN NoHash ELSE [format |-> "argon2id", of |-> p]

VerifyPassword(p, h) ==
    \/ h.format = "argon2id" /\ h.of = p
    \/ h.format = "sha256" /\ h.of = p

At(place) == pc = place
Fault == faults < MaxFaults /\ faults' = faults + 1
Save(next) == pc' = "truncate" /\ resume' = next

Init ==
    /\ pc = "down" /\ resume = "down"
    /\ file \in Config \cup {Absent}
    /\ config = DefaultConfig /\ portGiven = FALSE /\ saved = FALSE
    /\ hash = NoHash /\ acceptor = FALSE /\ mapper = "none"
    /\ owed = NoPassword /\ faults = 0
----------------------------------------------------------------------------
(* The user and the operating system.                                      *)

Edit ==
    /\ At("down")
    /\ file' \in Config
    /\ owed' = NoPassword
    /\ UNCHANGED <<pc, resume, config, portGiven, saved, hash, acceptor, mapper, faults>>

Start ==
    /\ At("down")
    /\ pc' = "load"
    /\ UNCHANGED <<resume, file, config, portGiven, saved, hash, acceptor, mapper, owed, faults>>

\* The process is gone, with everything that is not on the disk.
Exit ==
    /\ pc' = "down" /\ resume' = "down"
    /\ config' = DefaultConfig /\ portGiven' = FALSE /\ saved' = FALSE
    /\ hash' = NoHash /\ acceptor' = FALSE
    /\ UNCHANGED <<file, owed>>

Crash ==
    /\ ~At("down")
    /\ Fault /\ Exit
    /\ mapper' = "none"
----------------------------------------------------------------------------
(* Config::load_or_create and Config::save                                 *)

Load ==
    /\ At("load")
    /\ file \in Config
    /\ config' = file
    /\ pc' = "migrateTls"
    /\ UNCHANGED <<resume, file, portGiven, saved, hash, acceptor, mapper, owed, faults>>

UseDefaults == config' = DefaultConfig /\ Save("override")

CreateDefault ==
    /\ At("load")
    /\ file = Absent
    /\ UseDefaults
    /\ UNCHANGED <<file, portGiven, saved, hash, acceptor, mapper, owed, faults>>

\* The file cannot be parsed, or not even be read.
LoadFails ==
    /\ At("load")
    /\ file # Absent
    /\ IF file = Torn THEN UNCHANGED faults ELSE Fault
    /\ UseDefaults
    /\ owed' = NoPassword
    /\ UNCHANGED <<file, portGiven, saved, hash, acceptor, mapper>>

NeedsTls(c) == c.redirect /\ ~c.tls
NeedsPort(c) == c.port = 8080 /\ c.tls

BugMigrateTls ==
    /\ At("migrateTls")
    /\ IF NeedsTls(config)
       THEN /\ config' = [config EXCEPT !.tls = TRUE, !.redirect = FALSE]
            /\ Save("override")
       ELSE pc' = "migratePort" /\ UNCHANGED <<config, resume>>
    /\ UNCHANGED <<file, portGiven, saved, hash, acceptor, mapper, owed, faults>>

MigrateTls ==
    /\ At("migrateTls")
    /\ IF NeedsTls(config)
       THEN /\ config' = [config EXCEPT !.tls = TRUE, !.redirect = FALSE]
            /\ Save("migratePort")
       ELSE pc' = "migratePort" /\ UNCHANGED <<config, resume>>
    /\ UNCHANGED <<file, portGiven, saved, hash, acceptor, mapper, owed, faults>>

MigratePort ==
    /\ At("migratePort")
    /\ IF NeedsPort(config)
       THEN /\ config' = [config EXCEPT !.port = 8443]
            /\ Save("override")
       ELSE pc' = "override" /\ UNCHANGED <<config, resume>>
    /\ UNCHANGED <<file, portGiven, saved, hash, acceptor, mapper, owed, faults>>

Truncate ==
    /\ At("truncate")
    /\ file' = Torn
    /\ pc' = "write"
    /\ UNCHANGED <<resume, config, portGiven, saved, hash, acceptor, mapper, owed, faults>>

WriteOut ==
    /\ At("write")
    /\ file' = config /\ saved' = TRUE
    /\ pc' = resume
    /\ UNCHANGED <<resume, config, portGiven, hash, acceptor, mapper, owed, faults>>

\* Opening or writing fails: every caller logs the error and goes on.
SaveFails ==
    /\ pc \in {"truncate", "write"}
    /\ Fault
    /\ saved' = FALSE
    /\ pc' = resume
    /\ UNCHANGED <<resume, file, config, portGiven, hash, acceptor, mapper, owed>>
----------------------------------------------------------------------------
(* main                                                                    *)

BugEnsurePassword(p) == {p}

\* Config::ensure_password: what the password may be afterwards.
EnsurePassword(p) == IF p = NoPassword THEN Password \ {NoPassword} ELSE {p}

BugOverride ==
    /\ At("override")
    /\ \E pwd \in Password :
       \E final \in EnsurePassword(pwd) :
        /\ config' = [config EXCEPT !.password = final] /\ portGiven' = FALSE
        /\ owed' = IF pwd = config.password THEN owed ELSE NoPassword
    /\ pc' = "hash"
    /\ UNCHANGED <<resume, file, saved, hash, acceptor, mapper, faults>>

\* The command line wins over the file: --port, --password, --no-upnp.  Nothing
\* looks at the port again, so what is saved may need the second migration.
Override ==
    /\ At("override")
    /\ portGiven' \in BOOLEAN
    /\ config' \in {c \in Config : /\ c.tls = config.tls /\ c.redirect = config.redirect
                                   /\ c.upnp => config.upnp
                                   /\ portGiven' \/ c.port = config.port}
    /\ \E pwd \in Password :
        /\ config'.password \in EnsurePassword(pwd)
        /\ owed' = IF pwd = config.password THEN owed ELSE NoPassword
    /\ Save("hash")
    /\ UNCHANGED <<file, saved, hash, acceptor, mapper, faults>>

HashConfig ==
    /\ At("hash")
    /\ hash' = HashPassword(config.password)
    /\ pc' = "mapper"
    /\ UNCHANGED <<resume, file, config, portGiven, saved, acceptor, mapper, owed, faults>>

\* PortMapper::new asks for a mapping whatever the configuration says.
NewMapper ==
    /\ At("mapper")
    /\ mapper' = "asked"
    /\ pc' = "tls"
    /\ UNCHANGED <<resume, file, config, portGiven, saved, hash, acceptor, owed, faults>>

\* build_tls_acceptor returns None when certificates cannot be used; main
\* goes on without TLS then.
BuildTlsAcceptor ==
    /\ At("tls")
    /\ acceptor' \in {FALSE, config.tls}
    /\ pc' = "probe"
    /\ UNCHANGED <<resume, file, config, portGiven, saved, hash, mapper, owed, faults>>

\* Whatever the probe finds, main goes on; a gateway is asked once more.
Probe ==
    /\ At("probe")
    /\ pc' = "bind"
    /\ UNCHANGED <<resume, file, config, portGiven, saved, hash, acceptor, mapper, owed, faults>>

Listen ==
    /\ At("bind")
    /\ owed' = IF saved THEN config.password ELSE NoPassword
    /\ pc' = "serve"
    /\ UNCHANGED <<resume, file, config, portGiven, saved, hash, acceptor, mapper, faults>>

\* run_server returns the error and main ends, without deactivating the mapper.
BindFails ==
    /\ At("bind")
    /\ Fault /\ Exit
    /\ UNCHANGED mapper

CtrlC ==
    /\ At("serve")
    /\ Exit
    /\ mapper' = "released"
    /\ UNCHANGED faults
----------------------------------------------------------------------------
Place == {"down", "load", "migrateTls", "migratePort", "truncate", "write",
          "override", "hash", "mapper", "tls", "probe", "bind", "serve"}

StartTypeOK ==
    /\ pc \in Place /\ resume \in {"down", "migratePort", "override", "hash"}
    /\ file \in Config \cup {Absent, Torn}
    /\ config \in Config /\ portGiven \in BOOLEAN /\ saved \in BOOLEAN
    /\ hash \in Hash \cup {NoHash} /\ acceptor \in BOOLEAN
    /\ mapper \in {"none", "asked", "released"}
    /\ owed \in Password /\ faults \in 0..MaxFaults

(***************************************************************************)
(* Restarts keep the password.  The console sends the user to webpad.toml  *)
(* for it (main.rs:70).  A password that was being served when it was on   *)
(* the disk is the one the next process serves, unless the user changed    *)
(* it in the file or on the command line or the file could not be loaded:  *)
(* no migration, no save and no crash outside a save loses it.             *)
(***************************************************************************)
PasswordKept ==
    pc \in {"hash", "mapper", "tls", "probe", "bind", "serve"} /\ owed # NoPassword
        => config.password = owed

(***************************************************************************)
(* A process never runs with what a migration repairs, but by the word of  *)
(* its own command line: load_or_create hands main a configuration that    *)
(* needs neither migration, although the first one can create what the     *)
(* second repairs; after the override, TLS on port 8080 is there only if   *)
(* this start was given --port.  The file is no proof of the user's wish:  *)
(* such a port is saved, and the next start without --port migrates it.    *)
(***************************************************************************)
MigrationSettles ==
    /\ pc = "override" => ~NeedsTls(config) /\ ~NeedsPort(config)
    /\ pc \in {"hash", "mapper", "tls", "probe", "bind", "serve"} =>
           ~NeedsTls(config) /\ (NeedsPort(config) => portGiven)

(***************************************************************************)
(* Exactly one password opens a running server, and the configuration      *)
(* holds it: an empty password in the file or on the command line neither  *)
(* opens the server to everyone nor closes it to everyone.                 *)
(***************************************************************************)
OnePasswordOpens ==
    pc = "serve" => {p \in Password : VerifyPassword(p, hash)} = {config.password}
=============================================================================

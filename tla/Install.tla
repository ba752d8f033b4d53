------------------------------ MODULE Install ------------------------------
(***************************************************************************)
(* The commands that own files (src/src/cli.rs): setup, start, stop,       *)
(* restart and uninstall, the ownership manifest that ties the blocks in   *)
(* Grok's config and the service file to the bridge, their rollbacks, and  *)
(* the user who edits the same files.                                      *)
(*                                                                         *)
(* A command is a process that reads, plans and then changes one file per  *)
(* step; each write may fail, and the process may be killed between two.   *)
(***************************************************************************)
EXTENDS Naturals

CONSTANTS
  Aliases,     \* codex-sol, codex-terra
  Procs,       \* commands that may run at once
  MaxEdits,    \* bound: edits of the config by the user (0: of no file)
  NoFile,      \* no config file
  NoManifest   \* no ownership.json

\* [model.<alias>] and the legacy [models.<alias>].
Slots == Aliases \X {"custom", "legacy"}

\* What a slot holds: nothing, the very bytes of the bridge's block, another
\* table that validates, or one that conflicts.
Entries  == {"none", "ours", "same", "other"}
Config   == [text : 0..MaxEdits, entry : [Slots -> Entries]]
Manifest == [blocks : SUBSET Slots, service : BOOLEAN]
Manager  == [active : BOOLEAN, enabled : BOOLEAN]

ASSUME InstallAssumption ==
  MaxEdits \in Nat /\ NoFile \notin Config /\ NoManifest \notin Manifest

ServiceFile == <<"service", "file">>   \* beside the slots, in `touched`

Empty == [text |-> 0, entry |-> [s \in Slots |-> "none"]]
Fresh == [blocks |-> {}, service |-> FALSE]
Off   == [active |-> FALSE, enabled |-> FALSE]

VARIABLES
  config,    \* ~/.grok/config.toml
  manifest,  \* ~/.grok/codex-for-grok/ownership.json
  service,   \* the service definition: "none", "ours" or "foreign"
  manager,   \* what launchd or systemd knows of the service
  saved,     \* the newest backup of the config
  cmd,       \* the step and the memory of each process
  said,      \* how the last command ended
  edits,     \* edits of the config by the user
  touched,   \* the slots, and ServiceFile, the user changed
  raced,     \* the user changed a file while a command ran
  broken,    \* a rollback failed, and the command said so
  killed     \* a command was killed

vars == <<config, manifest, service, manager, saved, cmd, said, edits, touched,
          raced, broken, killed>>
files == <<config, manifest, service, manager, saved>>
user  == <<edits, touched, raced, killed>>

Steps == {"idle", "setup plan", "setup reconcile", "setup backup", "setup write",
          "setup record", "setup undo", "start write", "start record", "start undo",
          "start manager", "remove plan", "remove stop", "remove backup",
          "remove write", "remove service", "remove manifest", "restore config",
          "restore service", "restore manager"}

Command == [at : Steps, old : Config \cup {NoFile}, man : Manifest \cup {NoManifest},
            next : Config \cup {NoFile}, mgr : Manager, file : {"none", "ours", "foreign"},
            bad : BOOLEAN]
Idle    == [at |-> "idle", old |-> NoFile, man |-> NoManifest, next |-> NoFile,
            mgr |-> Off, file |-> "none", bad |-> FALSE]

TypeOK ==
  /\ config \in Config \cup {NoFile}
  /\ manifest \in Manifest \cup {NoManifest}
  /\ service \in {"none", "ours", "foreign"}
  /\ manager \in Manager
  /\ saved \in Config \cup {NoFile}
  /\ cmd \in [Procs -> Command]
  /\ said \in {"nothing", "refused", "failed", "setup ok", "start ok",
               "uninstalled", "restored", "killed"}
  /\ edits \in 0..MaxEdits
  /\ touched \in SUBSET (Slots \cup {ServiceFile})
  /\ raced \in BOOLEAN
  /\ broken \in BOOLEAN
  /\ killed \in BOOLEAN

\* A new machine, a user with models of their own, or a version before 0.1.2, whose
\* manifest owns legacy blocks.
Init ==
  /\ \/ /\ config \in {NoFile, Empty}
           \cup {[Empty EXCEPT !.entry[s] = e] : s \in Slots, e \in {"same", "other"}}
           \cup {[Empty EXCEPT !.entry = [s \in Slots |->
                    IF s[2] = "custom" THEN "same" ELSE "none"]]}
        /\ manifest = NoManifest
     \/ /\ config = [Empty EXCEPT !.entry = [s \in Slots |->
                       IF s[2] = "legacy" THEN "ours" ELSE "none"]]
        /\ manifest = [Fresh EXCEPT !.blocks = Aliases \X {"legacy"}]
  /\ service \in {"none", "foreign"}
  /\ manager = Off
  /\ saved = NoFile
  /\ cmd = [p \in Procs |-> Idle]
  /\ said = "nothing"
  /\ edits = 0
  /\ touched = {}
  /\ raced = FALSE
  /\ broken = FALSE
  /\ killed = FALSE

-----------------------------------------------------------------------------
At(p, step) == cmd[p].at = step
Go(p, step) == cmd' = [cmd EXCEPT ![p].at = step]

\* The command ends.
End(p, how) == cmd' = [cmd EXCEPT ![p] = Idle] /\ said' = how

\* verify_manifest(): every owned block is in the config, byte for byte, once.
Verified(m, c) == \A s \in m.blocks : c.entry[s] = "ours"

Contents(c) == IF c = NoFile THEN Empty ELSE c

-----------------------------------------------------------------------------
(* setup_at().                                                             *)

Intact(c, alias, kind) == c.entry[<<alias, kind>>] \in {"ours", "same"}

\* Owned legacy blocks that are unchanged are replaced by the new kind.
Migrate(m, c) == {s \in m.blocks : s[2] = "legacy" /\ c.entry[s] = "ours"}

\* Owned blocks the user changed, but not in what they mean, become the user's.
Relinquish(m, c) ==
  {s \in m.blocks : /\ c.entry[s] # "ours"
                    /\ \E kind \in {"legacy", "custom"} : Intact(c, s[1], kind)}

Missing(c) == {s \in Slots : s[2] = "custom" /\ c.entry[s] = "none"}

Conflict(c) == \E s \in Slots : c.entry[s] = "other"

SetupRead(p) ==
  /\ At(p, "idle")
  /\ cmd' = [cmd EXCEPT ![p] = [Idle EXCEPT !.at = "setup plan", !.old = config]]
  /\ said' = "nothing"
  /\ UNCHANGED <<files, user, broken>>

\* Everything setup decides, it decides from the config and the manifest as
\* they were read here.
SetupPlan(p) ==
  /\ At(p, "setup plan")
  /\ LET c    == Contents(cmd[p].old)
         m    == IF manifest = NoManifest THEN Fresh ELSE manifest
         lost == Relinquish(m, c)
         move == Migrate(m, c)
         kept == [m EXCEPT !.blocks = @ \ (lost \cup move)]
         add  == Missing(c)
     IN  \/ /\ Conflict(c) \/ ~Verified(kept, c)
            /\ End(p, "refused")
         \/ /\ ~Conflict(c) /\ Verified(kept, c)
            /\ add \cup move \cup lost = {}
            /\ End(p, "setup ok")
         \/ /\ ~Conflict(c) /\ Verified(kept, c)
            /\ add \cup move = {} /\ lost # {}
            /\ cmd' = [cmd EXCEPT ![p].at = "setup reconcile", ![p].man = kept]
            /\ UNCHANGED said
         \/ /\ ~Conflict(c) /\ Verified(kept, c)
            /\ add \cup move # {}
            /\ cmd' = [cmd EXCEPT
                 ![p].at   = "setup backup",
                 ![p].man  = [kept EXCEPT !.blocks = @ \cup add],
                 ![p].next = [c EXCEPT !.entry = [s \in Slots |->
                                CASE s \in add  -> "ours"
                                  [] s \in move -> "none"
                                  [] OTHER      -> @[s]]]]
            /\ UNCHANGED said
  /\ UNCHANGED <<files, user, broken>>

SetupReconcile(p) ==
  /\ At(p, "setup reconcile")
  /\ \/ manifest' = cmd[p].man /\ End(p, "setup ok")
     \/ End(p, "failed") /\ UNCHANGED manifest
  /\ UNCHANGED <<config, service, manager, saved, user, broken>>

\* Mutant: the backup is taken of the new bytes.
SetupBackup_New(p) ==
  /\ At(p, "setup backup")
  /\ \/ /\ saved' = IF config = NoFile THEN saved ELSE cmd[p].next
        /\ Go(p, "setup write")
        /\ UNCHANGED said
     \/ End(p, "failed") /\ UNCHANGED saved
  /\ UNCHANGED <<config, manifest, service, manager, user, broken>>

\* backup_and_write(), first half: the old bytes, if there is a file now.
SetupBackup(p) ==
  /\ At(p, "setup backup")
  /\ \/ /\ saved' = IF config = NoFile THEN saved ELSE Contents(cmd[p].old)
        /\ Go(p, "setup write")
        /\ UNCHANGED said
     \/ End(p, "failed") /\ UNCHANGED saved
  /\ UNCHANGED <<config, manifest, service, manager, user, broken>>

SetupWrite(p) ==
  /\ At(p, "setup write")
  /\ \/ config' = cmd[p].next /\ Go(p, "setup record") /\ UNCHANGED said
     \/ End(p, "failed") /\ UNCHANGED config
  /\ UNCHANGED <<manifest, service, manager, saved, user, broken>>

\* Mutant: a manifest that cannot be written is only reported.
SetupRecord_NoUndo(p) ==
  /\ At(p, "setup record")
  /\ \/ manifest' = cmd[p].man /\ End(p, "setup ok")
     \/ End(p, "failed") /\ UNCHANGED manifest
  /\ UNCHANGED <<config, service, manager, saved, user, broken>>

SetupRecord(p) ==
  /\ At(p, "setup record")
  /\ \/ manifest' = cmd[p].man /\ End(p, "setup ok")
     \/ Go(p, "setup undo") /\ UNCHANGED <<manifest, said>>
  /\ UNCHANGED <<config, service, manager, saved, user, broken>>

\* Mutant: the rollback takes it that there was no config before.
SetupUndo_Empty(p) ==
  /\ At(p, "setup undo")
  /\ \/ config' = Empty /\ UNCHANGED broken
     \/ broken' = TRUE /\ UNCHANGED config
  /\ End(p, "failed")
  /\ UNCHANGED <<manifest, service, manager, saved, user>>

\* The rollback writes the old bytes, an empty file if there was none.
SetupUndo(p) ==
  /\ At(p, "setup undo")
  /\ \/ config' = Contents(cmd[p].old) /\ UNCHANGED broken
     \/ broken' = TRUE /\ UNCHANGED config
  /\ End(p, "failed")
  /\ UNCHANGED <<manifest, service, manager, saved, user>>

-----------------------------------------------------------------------------
(* install_and_start(), stop_service(), restart_service().                 *)

\* Mutant: no look at the path of the service before it is written.
Startable_Blind(m) == m # NoManifest /\ (m.service => service = "ours")

\* There is a manifest, and the service file is the one it owns or is not there.
Startable(m) == m # NoManifest /\ service = IF m.service THEN "ours" ELSE "none"

StartRead(p) ==
  /\ At(p, "idle")
  /\ \/ /\ ~Startable(manifest)
        /\ said' = "refused"
        /\ UNCHANGED cmd
     \/ /\ Startable(manifest)
        /\ said' = "nothing"
        /\ cmd' = [cmd EXCEPT ![p] = [Idle EXCEPT
             !.at  = IF manifest.service THEN "start manager" ELSE "start write",
             !.man = [manifest EXCEPT !.service = TRUE]]]
  /\ UNCHANGED <<files, user, broken>>

StartWrite(p) ==
  /\ At(p, "start write")
  /\ \/ service' = "ours" /\ Go(p, "start record") /\ UNCHANGED said
     \/ End(p, "failed") /\ UNCHANGED service
  /\ UNCHANGED <<config, manifest, manager, saved, user, broken>>

\* Mutant: a service file nobody owns stays behind.
StartRecord_NoUndo(p) ==
  /\ At(p, "start record")
  /\ \/ manifest' = cmd[p].man /\ Go(p, "start manager") /\ UNCHANGED said
     \/ End(p, "failed") /\ UNCHANGED manifest
  /\ UNCHANGED <<config, service, manager, saved, user, broken>>

StartRecord(p) ==
  /\ At(p, "start record")
  /\ \/ manifest' = cmd[p].man /\ Go(p, "start manager")
     \/ Go(p, "start undo") /\ UNCHANGED manifest
  /\ UNCHANGED <<config, service, manager, saved, said, user, broken>>

\* remove_file() fails on an I/O error, and if the file is gone.
StartUndo(p) ==
  /\ At(p, "start undo")
  /\ \/ service # "none" /\ service' = "none" /\ UNCHANGED broken
     \/ broken' = TRUE /\ UNCHANGED service
  /\ End(p, "failed")
  /\ UNCHANGED <<config, manifest, manager, saved, user>>

\* `systemctl enable --now` may fail before, between and after its halves.
StartManager(p) ==
  /\ At(p, "start manager")
  /\ \/ /\ manager' = [active |-> TRUE, enabled |-> TRUE]
        /\ End(p, "start ok")
     \/ /\ manager' \in {manager, [manager EXCEPT !.enabled = TRUE]}
        /\ End(p, "failed")
  /\ UNCHANGED <<config, manifest, service, saved, user, broken>>

\* stop and restart: check, then one call of the manager that may fail.
StopOrRestart(p) ==
  /\ At(p, "idle")
  /\ manifest # NoManifest
  /\ manifest.service /\ service = "ours"
  /\ \E active \in BOOLEAN : manager' = [manager EXCEPT !.active = active]
  /\ said' = "nothing"
  /\ UNCHANGED <<config, manifest, service, saved, cmd, user, broken>>

-----------------------------------------------------------------------------
(* uninstall().                                                            *)

RemoveRead(p) ==
  /\ At(p, "idle")
  /\ IF manifest = NoManifest
     THEN said' = "refused" /\ UNCHANGED cmd
     ELSE /\ cmd' = [cmd EXCEPT ![p] = [Idle EXCEPT !.at = "remove plan", !.man = manifest]]
          /\ said' = "nothing"
  /\ UNCHANGED <<files, user, broken>>

RemovePlan(p) ==
  /\ At(p, "remove plan")
  /\ LET m == cmd[p].man
     IN  IF \/ config = NoFile
            \/ config # NoFile /\ ~Verified(m, config)
            \/ m.service /\ service # "ours"
         THEN End(p, "refused")
         ELSE /\ cmd' = [cmd EXCEPT
                   ![p].at   = IF m.service THEN "remove stop" ELSE "remove backup",
                   ![p].old  = config,
                   ![p].next = [config EXCEPT !.entry =
                                  [s \in Slots |-> IF s \in m.blocks THEN "none" ELSE @[s]]],
                   ![p].mgr  = manager]
              /\ UNCHANGED said
  /\ UNCHANGED <<files, user, broken>>

\* Stop, disable and read the service file.  An error here returns at once:
\* what was stopped stays stopped.
RemoveStop(p) ==
  /\ At(p, "remove stop")
  /\ \/ /\ manager' = Off
        /\ service # "none"
        /\ cmd' = [cmd EXCEPT ![p].at = "remove backup", ![p].file = service]
        /\ UNCHANGED said
     \/ manager' \in {manager, [manager EXCEPT !.active = FALSE], Off} /\ End(p, "failed")
  /\ UNCHANGED <<config, manifest, service, saved, user, broken>>

\* The transaction: each step goes on, or to the rollback.
RemoveBackup(p) ==
  /\ At(p, "remove backup")
  /\ \/ /\ saved' = IF config = NoFile THEN saved ELSE cmd[p].old
        /\ Go(p, "remove write")
     \/ Go(p, "restore config") /\ UNCHANGED saved
  /\ UNCHANGED <<config, manifest, service, manager, said, user, broken>>

RemoveWrite(p) ==
  /\ At(p, "remove write")
  /\ \/ /\ config' = cmd[p].next
        /\ Go(p, IF cmd[p].man.service THEN "remove service" ELSE "remove manifest")
     \/ Go(p, "restore config") /\ UNCHANGED config
  /\ UNCHANGED <<manifest, service, manager, saved, said, user, broken>>

\* remove_file() and daemon-reload, which may fail after the file is gone.
RemoveService(p) ==
  /\ At(p, "remove service")
  /\ \/ /\ service # "none" /\ service' = "none"
        /\ Go(p, "remove manifest") \/ Go(p, "restore config")
     \/ Go(p, "restore config") /\ UNCHANGED service
  /\ UNCHANGED <<config, manifest, manager, saved, said, user, broken>>

RemoveManifest(p) ==
  /\ At(p, "remove manifest")
  /\ \/ manifest # NoManifest /\ manifest' = NoManifest /\ End(p, "uninstalled")
     \/ Go(p, "restore config") /\ UNCHANGED <<manifest, said>>
  /\ UNCHANGED <<config, service, manager, saved, user, broken>>

\* The rollback tries every part; `bad` collects its errors.
Undone(p, bad) ==
  IF bad
  THEN End(p, "failed") /\ broken' = TRUE
  ELSE cmd' = [cmd EXCEPT ![p].at = "idle"] /\ said' = "restored" /\ UNCHANGED broken

RestoreConfig(p) ==
  /\ At(p, "restore config")
  /\ \E fails \in BOOLEAN :
       /\ config' = IF fails THEN config ELSE cmd[p].old
       /\ IF cmd[p].man.service
          THEN /\ cmd' = [cmd EXCEPT ![p].at = "restore service", ![p].bad = fails]
               /\ UNCHANGED <<said, broken>>
          ELSE Undone(p, fails)
  /\ UNCHANGED <<manifest, service, manager, saved, user>>

RestoreService(p) ==
  /\ At(p, "restore service")
  /\ \/ service' = cmd[p].file /\ Go(p, "restore manager") /\ UNCHANGED <<said, broken>>
     \/ Undone(p, TRUE) /\ UNCHANGED service
  /\ UNCHANGED <<config, manifest, manager, saved, user>>

\* Mutant: the rollback puts the file back and does not start the service again.
RestoreManager_Forgets(p) ==
  /\ At(p, "restore manager")
  /\ Undone(p, cmd[p].bad)
  /\ UNCHANGED <<config, manifest, service, manager, saved, user>>

\* `enable` and `start` what was enabled and active; each may fail.
RestoreManager(p) ==
  /\ At(p, "restore manager")
  /\ LET enabled == [manager EXCEPT !.enabled = @ \/ cmd[p].mgr.enabled]
     IN  \/ /\ manager' = [enabled EXCEPT !.active = @ \/ cmd[p].mgr.active]
            /\ Undone(p, cmd[p].bad)
         \/ manager' \in {manager, enabled} /\ Undone(p, TRUE)
  /\ UNCHANGED <<config, manifest, service, saved, user>>

-----------------------------------------------------------------------------
(* The environment.                                                        *)

Running == {p \in Procs : cmd[p].at # "idle"}

Kill(p) ==
  /\ p \in Running
  /\ End(p, "killed")
  /\ killed' = TRUE
  /\ UNCHANGED <<files, edits, touched, raced, broken>>

\* The user, or Grok, edits the config: other text, and maybe one slot.
UserEdit ==
  /\ edits < MaxEdits
  /\ edits' = edits + 1
  /\ \/ config' = [Contents(config) EXCEPT !.text = edits'] /\ UNCHANGED touched
     \/ \E s \in Slots, e \in Entries \ {"ours"} :
          /\ config' = [Contents(config) EXCEPT !.text = edits', !.entry[s] = e]
          /\ touched' = touched \cup {s}
  /\ raced' = (raced \/ Running # {})
  /\ said' = "nothing"
  /\ UNCHANGED <<manifest, service, manager, saved, cmd, broken, killed>>

\* MaxEdits = 0 stands for a user who leaves every file alone.
UserService ==
  /\ MaxEdits > 0
  /\ service' \in {"none", "foreign"} \ {service}
  /\ touched' = touched \cup {ServiceFile}
  /\ raced' = (raced \/ Running # {})
  /\ said' = "nothing"
  /\ UNCHANGED <<config, manifest, manager, saved, cmd, edits, broken, killed>>

-----------------------------------------------------------------------------
Setup(p) == \/ SetupRead(p) \/ SetupPlan(p) \/ SetupReconcile(p) \/ SetupBackup(p)
            \/ SetupWrite(p) \/ SetupRecord(p) \/ SetupUndo(p)

Start(p) == \/ StartRead(p) \/ StartWrite(p) \/ StartRecord(p) \/ StartUndo(p)
            \/ StartManager(p) \/ StopOrRestart(p)

Uninstall(p) == \/ RemoveRead(p) \/ RemovePlan(p) \/ RemoveStop(p) \/ RemoveBackup(p)
                \/ RemoveWrite(p) \/ RemoveService(p) \/ RemoveManifest(p)
                \/ RestoreConfig(p) \/ RestoreService(p) \/ RestoreManager(p)

Next ==
  \/ \E p \in Procs : Setup(p) \/ Start(p) \/ Uninstall(p) \/ Kill(p)
  \/ UserEdit \/ UserService

Spec == Init /\ [][Next]_vars

-----------------------------------------------------------------------------
(* Properties.  An edit that races with a command may be lost: the commands *)
(* replace the file they read, and take no lock.  `raced` excuses only that.*)

\* "setup is strictly additive" (README.md): whatever fails, is rolled back or
\* is killed, and however many commands run at once, the user's own text in
\* the config is never lost.
UserTextKept ==
  ~raced => IF config = NoFile THEN edits = 0 ELSE config.text = edits

\* "Conflicting aliases ... are never overwritten", "user-edited or
\* pre-existing content is preserved" (README.md): no step of a command
\* changes a model table or a service file that is not the bridge's.
ForeignKept ==
  [][cmd' # cmd /\ ~raced =>
       /\ config # NoFile => \A s \in Slots :
            config.entry[s] \in {"same", "other"} => config'.entry[s] = config.entry[s]
       /\ service = "foreign" => service' = "foreign"]_vars

\* "A byte-for-byte backup and ownership manifest support safe recovery"
\* (README.md): when a command replaces a config, the newest backup holds exactly what is replaced,
\* and a rollback puts back exactly what the command read.
BackupFirst ==
  [][cmd' # cmd /\ ~raced /\ config # NoFile /\ config' # config =>
       \/ saved' = config
       \/ \E p \in Procs : /\ cmd[p].at \in {"setup undo", "restore config"}
                           /\ config' = Contents(cmd[p].old)]_vars

Unlisted == {s \in Slots : /\ config # NoFile
                           /\ config.entry[s] = "ours"
                           /\ manifest = NoManifest \/ s \notin manifest.blocks}
Dangling == {s \in Slots : /\ manifest # NoManifest
                           /\ s \in manifest.blocks
                           /\ config = NoFile \/ config.entry[s] # "ours"}

\* "Transactional configuration" (CHANGELOG.md): when no command runs, the manifest
\* owns exactly the blocks of the bridge that are in the config, but for what the
\* user changed, and for a rollback reported as incomplete.
Transactional ==
  Running = {} /\ ~broken => Unlisted = {} /\ Dangling \subseteq touched

\* The same of commands that are not killed, which is what the code keeps up.
ConfigTransactional == ~killed => Transactional

\* "Ownership-safe" (CHANGELOG.md): under the same conditions the manifest
\* owns the service file exactly when it is there.
ServiceOwned ==
  Running = {} /\ ~broken /\ ~killed /\ ServiceFile \notin touched =>
    (service = "ours" <=> manifest # NoManifest /\ manifest.service)

\* "uninstall failed and artifacts were restored; retry is safe": after that
\* message everything is as it was, the running service included, and a second
\* uninstall passes the checks of the first.
RetryIsSafe ==
  said = "restored" /\ ~raced => \E p \in Procs :
    /\ config = cmd[p].old
    /\ manifest = cmd[p].man
    /\ Verified(manifest, config)
    /\ manifest.service => service = "ours" /\ manager = cmd[p].mgr

\* "`start` installs and starts the per-user service after setup" (README.md):
\* a setup that reports success leaves what start asks for.
SetupEnablesStart == said = "setup ok" => manifest # NoManifest

=============================================================================

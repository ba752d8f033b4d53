--------------------------- MODULE Install_proofs ---------------------------
(***************************************************************************)
(* Theorems about Install, for any models, any number of commands running  *)
(* at once and any failures and kills.                                     *)
(*                                                                         *)
(* The argument: what a command holds of the config differs from the file  *)
(* only in the bridge's own blocks (OldKept, NextKept, unless the user     *)
(* edits while a command runs), so whatever it writes or puts back keeps   *)
(* the user's text (TextKept); Present says that what it writes is there   *)
(* to be written.  Of the service file a command remembers only what is    *)
(* the bridge's, and it writes or removes one it has seen not to be the    *)
(* user's (ServiceInv).                                                    *)
(*                                                                         *)
(* The second half is about one command at a time (Procs = {p}).  There    *)
(* what the command holds of each file is related to that file step by     *)
(* step: the config (BackupInv), the manifest (ManifestInv), the service   *)
(* file and the manager (FileInv, ManagerInv), what an uninstall has put   *)
(* back (RestoredInv), the manifest's claim on the service file (AgreeInv) *)
(* and on the model tables (BlocksInv).  Each is kept by every step, given *)
(* the others and the invariant of the first half.                         *)
(***************************************************************************)
EXTENDS Install, TLAPS

\* Types of what the actions build.

LEMMA EmptyTyped == InstallAssumption => Empty \in Config
  BY DEF InstallAssumption, Empty, Config, Entries

LEMMA ContentsTyped ==
  InstallAssumption => \A c \in Config \cup {NoFile} : Contents(c) \in Config
  BY EmptyTyped DEF Contents

LEMMA EntryTyped ==
  ASSUME NEW c \in Config, NEW f \in [Slots -> Entries]
  PROVE  [c EXCEPT !.entry = f] \in Config
  BY DEF Config

LEMMA GoTyped ==
  ASSUME cmd \in [Procs -> Command], NEW p \in Procs, NEW step \in Steps, Go(p, step)
  PROVE  cmd' \in [Procs -> Command]
  BY DEF Go, Command

LEMMA IdleTyped == Idle \in Command
  BY DEF Idle, Command, Manager, Off, Steps

LEMMA EndTyped ==
  ASSUME cmd \in [Procs -> Command], NEW p \in Procs, NEW how, End(p, how)
  PROVE  cmd' \in [Procs -> Command]
  BY IdleTyped DEF End

LEMMA FieldTyped ==
  ASSUME NEW f \in [Procs -> Command], NEW p \in Procs
  PROVE  /\ \A x \in Steps : [f EXCEPT ![p].at = x] \in [Procs -> Command]
         /\ \A x \in Config \cup {NoFile} : [f EXCEPT ![p].old = x] \in [Procs -> Command]
         /\ \A x \in Config \cup {NoFile} : [f EXCEPT ![p].next = x] \in [Procs -> Command]
         /\ \A x \in Manifest \cup {NoManifest} : [f EXCEPT ![p].man = x] \in [Procs -> Command]
         /\ \A x \in Manager : [f EXCEPT ![p].mgr = x] \in [Procs -> Command]
         /\ \A x \in {"none", "ours", "foreign"} : [f EXCEPT ![p].file = x] \in [Procs -> Command]
         /\ \A x \in BOOLEAN : [f EXCEPT ![p].bad = x] \in [Procs -> Command]
<1>1. ASSUME NEW x \in Steps PROVE [f EXCEPT ![p].at = x] \in [Procs -> Command]
  BY DEF Command
<1>2. ASSUME NEW x \in Config \cup {NoFile} PROVE [f EXCEPT ![p].old = x] \in [Procs -> Command]
  BY DEF Command
<1>3. ASSUME NEW x \in Config \cup {NoFile} PROVE [f EXCEPT ![p].next = x] \in [Procs -> Command]
  BY DEF Command
<1>4. ASSUME NEW x \in Manifest \cup {NoManifest} PROVE [f EXCEPT ![p].man = x] \in [Procs -> Command]
  BY DEF Command
<1>5. ASSUME NEW x \in Manager PROVE [f EXCEPT ![p].mgr = x] \in [Procs -> Command]
  BY DEF Command
<1>6. ASSUME NEW x \in {"none", "ours", "foreign"} PROVE [f EXCEPT ![p].file = x] \in [Procs -> Command]
  BY DEF Command
<1>7. ASSUME NEW x \in BOOLEAN PROVE [f EXCEPT ![p].bad = x] \in [Procs -> Command]
  BY DEF Command
<1> QED
  BY <1>1, <1>2, <1>3, <1>4, <1>5, <1>6, <1>7

LEMMA SetupPlanTyped ==
  ASSUME InstallAssumption, TypeOK, NEW p \in Procs, SetupPlan(p)
  PROVE  cmd' \in [Procs -> Command] /\ said' \in {said, "refused", "setup ok"}
<1> DEFINE c    == Contents(cmd[p].old)
           m    == IF manifest = NoManifest THEN Fresh ELSE manifest
           lost == Relinquish(m, c)
           move == Migrate(m, c)
           kept == [m EXCEPT !.blocks = @ \ (lost \cup move)]
           add  == Missing(c)
           man  == [kept EXCEPT !.blocks = @ \cup add]
           ent  == [s \in Slots |-> CASE s \in add  -> "ours"
                                      [] s \in move -> "none"
                                      [] OTHER      -> c.entry[s]]
           next == [c EXCEPT !.entry = ent]
<1>1. c \in Config
  BY ContentsTyped DEF TypeOK, Command
<1>2. kept \in Manifest /\ man \in Manifest
  BY DEF TypeOK, Manifest, Fresh, Missing
<1>3. ent \in [Slots -> Entries]
  BY <1>1 DEF Entries, Config
<1>4. next \in Config
  BY <1>1, <1>3, EntryTyped
<1>5. CASE End(p, "refused") \/ End(p, "setup ok")
  BY <1>5, EndTyped DEF TypeOK, End
<1>6. CASE /\ cmd' = [cmd EXCEPT ![p].at = "setup reconcile", ![p].man = kept]
           /\ UNCHANGED said
  <2> DEFINE f == [cmd EXCEPT ![p].at = "setup reconcile"]
  <2>1. f \in [Procs -> Command]
    BY FieldTyped DEF TypeOK, Steps
  <2>2. [f EXCEPT ![p].man = kept] \in [Procs -> Command]
    <3> HIDE DEF f, kept
    <3> QED
      BY <1>2, <2>1, FieldTyped
  <2> QED
    BY <1>6, <2>2
<1>7. CASE /\ cmd' = [cmd EXCEPT ![p].at = "setup backup", ![p].man = man, ![p].next = next]
           /\ UNCHANGED said
  <2> DEFINE f == [cmd EXCEPT ![p].at = "setup backup"]
             g == [f EXCEPT ![p].man = man]
  <2>1. f \in [Procs -> Command]
    BY FieldTyped DEF TypeOK, Steps
  <2>2. g \in [Procs -> Command]
    <3> HIDE DEF f, man
    <3> QED
      BY <1>2, <2>1, FieldTyped
  <2>3. [g EXCEPT ![p].next = next] \in [Procs -> Command]
    <3> HIDE DEF g, next
    <3> QED
      BY <1>4, <2>2, FieldTyped
  <2> QED
    BY <1>7, <2>3
<1> QED
  BY <1>5, <1>6, <1>7 DEF SetupPlan

LEMMA RemovePlanTyped ==
  ASSUME InstallAssumption, TypeOK, NEW p \in Procs, RemovePlan(p)
  PROVE  cmd' \in [Procs -> Command] /\ said' \in {said, "refused"}
<1> DEFINE m   == cmd[p].man
           ent == [s \in Slots |-> IF s \in m.blocks THEN "none" ELSE config.entry[s]]
           at  == IF m.service THEN "remove stop" ELSE "remove backup"
           f == [cmd EXCEPT ![p].at = at]
           g == [f EXCEPT ![p].old = config]
           h == [g EXCEPT ![p].next = [config EXCEPT !.entry = ent]]
           k == [h EXCEPT ![p].mgr = manager]
<1>1. CASE End(p, "refused")
  BY <1>1, EndTyped DEF TypeOK, End
<1>2. CASE config # NoFile /\ cmd' = k /\ UNCHANGED said
  <2>1. config \in Config
    BY <1>2 DEF TypeOK
  <2>2. ent \in [Slots -> Entries]
    BY <2>1 DEF Entries, Config
  <2>3. [config EXCEPT !.entry = ent] \in Config
    BY <2>1, <2>2, EntryTyped
  <2>4. f \in [Procs -> Command]
    BY FieldTyped DEF TypeOK, Steps
  <2>5. g \in [Procs -> Command]
    <3> HIDE DEF f
    <3> QED
      BY <2>4, FieldTyped DEF TypeOK
  <2>6. h \in [Procs -> Command]
    <3> HIDE DEF g, ent
    <3> QED
      BY <2>3, <2>5, FieldTyped
  <2>7. k \in [Procs -> Command]
    <3> HIDE DEF h
    <3> QED
      BY <2>6, FieldTyped DEF TypeOK
  <2> QED
    BY <1>2, <2>7
<1> QED
  BY <1>1, <1>2 DEF RemovePlan

LEMMA UndoneTyped ==
  ASSUME TypeOK, NEW p \in Procs, NEW bad \in BOOLEAN, Undone(p, bad)
  PROVE  cmd' \in [Procs -> Command] /\ said' \in {"failed", "restored"} /\ broken' \in BOOLEAN
<1>1. CASE bad
  BY <1>1, EndTyped DEF Undone, TypeOK, End
<1>2. CASE ~bad
  <2>1. "idle" \in Steps
    BY DEF Steps
  <2>2. cmd' = [cmd EXCEPT ![p].at = "idle"] /\ said' = "restored" /\ UNCHANGED broken
    BY <1>2 DEF Undone
  <2>3. cmd' \in [Procs -> Command]
    BY <2>1, <2>2, FieldTyped DEF TypeOK
  <2> QED
    BY <2>2, <2>3 DEF TypeOK
<1> QED
  BY <1>1, <1>2

LEMMA HeldTyped ==
  ASSUME cmd \in [Procs -> Command], NEW p \in Procs
  PROVE  /\ cmd[p].old \in Config \cup {NoFile} /\ cmd[p].next \in Config \cup {NoFile}
         /\ cmd[p].man \in Manifest \cup {NoManifest} /\ cmd[p].mgr \in Manager
         /\ cmd[p].file \in {"none", "ours", "foreign"}
  BY DEF Command

\* Every step keeps the types.
LEMMA TypeStep == InstallAssumption /\ TypeOK /\ [Next]_vars => TypeOK'
<1> SUFFICES ASSUME InstallAssumption, TypeOK, [Next]_vars PROVE TypeOK'
  OBVIOUS
<1> USE DEF files, user
<1>1. CASE UNCHANGED vars
  BY <1>1 DEF vars, TypeOK
<1>2. ASSUME NEW p \in Procs, SetupRead(p) PROVE TypeOK'
  <2> DEFINE new == [Idle EXCEPT !.at = "setup plan", !.old = config]
  <2>1. new \in Command
    BY DEF Command, Idle, Manager, Off, Steps, TypeOK
  <2> QED
    BY <2>1, <1>2 DEF SetupRead, TypeOK
<1>3. ASSUME NEW p \in Procs, SetupPlan(p) PROVE TypeOK'
  <2>1. UNCHANGED <<files, user, broken>>
    BY <1>3 DEF SetupPlan
  <2>2. cmd' \in [Procs -> Command] /\ said' \in {said, "refused", "setup ok"}
    BY <1>3, SetupPlanTyped
  <2> QED
    BY <2>1, <2>2 DEF TypeOK
<1>4. ASSUME NEW p \in Procs, SetupReconcile(p) PROVE TypeOK'
  <2>1. cmd' \in [Procs -> Command]
    BY GoTyped, EndTyped, <1>4 DEF SetupReconcile, TypeOK, Steps
  <2> QED
    BY <2>1, <1>4, HeldTyped DEF SetupReconcile, TypeOK, End
<1>5. ASSUME NEW p \in Procs, SetupBackup(p) PROVE TypeOK'
  <2>1. cmd' \in [Procs -> Command]
    BY GoTyped, EndTyped, <1>5 DEF SetupBackup, TypeOK, Steps
  <2>2. Contents(cmd[p].old) \in Config
    BY ContentsTyped DEF TypeOK, Command
  <2> QED
    BY <2>1, <2>2, <1>5 DEF SetupBackup, TypeOK, End
<1>6. ASSUME NEW p \in Procs, SetupWrite(p) PROVE TypeOK'
  <2>1. cmd' \in [Procs -> Command]
    BY GoTyped, EndTyped, <1>6 DEF SetupWrite, TypeOK, Steps
  <2> QED
    BY <2>1, <1>6, HeldTyped DEF SetupWrite, TypeOK, End
<1>7. ASSUME NEW p \in Procs, SetupRecord(p) PROVE TypeOK'
  <2>1. cmd' \in [Procs -> Command]
    BY GoTyped, EndTyped, <1>7 DEF SetupRecord, TypeOK, Steps
  <2> QED
    BY <2>1, <1>7, HeldTyped DEF SetupRecord, TypeOK, End
<1>8. ASSUME NEW p \in Procs, SetupUndo(p) PROVE TypeOK'
  <2>1. cmd' \in [Procs -> Command]
    BY GoTyped, EndTyped, <1>8 DEF SetupUndo, TypeOK, Steps
  <2>2. Contents(cmd[p].old) \in Config
    BY ContentsTyped DEF TypeOK, Command
  <2> QED
    BY <2>1, <2>2, <1>8 DEF SetupUndo, TypeOK, End
<1>9. ASSUME NEW p \in Procs, StartRead(p) PROVE TypeOK'
  <2>1. CASE Startable(manifest)
    <3> DEFINE new == [Idle EXCEPT
                 !.at  = IF manifest.service THEN "start manager" ELSE "start write",
                 !.man = [manifest EXCEPT !.service = TRUE]]
    <3>1. [manifest EXCEPT !.service = TRUE] \in Manifest
      BY <2>1 DEF TypeOK, Manifest, Startable
    <3>2. new \in Command
      BY <3>1 DEF Command, Idle, Manager, Off, Steps
    <3> QED
      BY <2>1, <3>2, <1>9 DEF StartRead, TypeOK
  <2> QED
    BY <2>1, <1>9 DEF StartRead, TypeOK
<1>10. ASSUME NEW p \in Procs, StartWrite(p) PROVE TypeOK'
  <2>1. cmd' \in [Procs -> Command]
    BY GoTyped, EndTyped, <1>10 DEF StartWrite, TypeOK, Steps
  <2> QED
    BY <2>1, <1>10, HeldTyped DEF StartWrite, TypeOK, End
<1>11. ASSUME NEW p \in Procs, StartRecord(p) PROVE TypeOK'
  <2>1. cmd' \in [Procs -> Command]
    BY GoTyped, EndTyped, <1>11 DEF StartRecord, TypeOK, Steps
  <2> QED
    BY <2>1, <1>11, HeldTyped DEF StartRecord, TypeOK, End
<1>12. ASSUME NEW p \in Procs, StartUndo(p) PROVE TypeOK'
  <2>1. cmd' \in [Procs -> Command]
    BY GoTyped, EndTyped, <1>12 DEF StartUndo, TypeOK, Steps
  <2> QED
    BY <2>1, <1>12, HeldTyped DEF StartUndo, TypeOK, End
<1>13. ASSUME NEW p \in Procs, StartManager(p) PROVE TypeOK'
  <2>1. cmd' \in [Procs -> Command]
    BY GoTyped, EndTyped, <1>13 DEF StartManager, TypeOK, Steps
  <2>2. manager' \in Manager
    <3>1. [active |-> TRUE, enabled |-> TRUE] \in Manager
      BY DEF Manager
    <3>2. [manager EXCEPT !.enabled = TRUE] \in Manager
      BY DEF Manager, TypeOK
    <3> QED
      BY <3>1, <3>2, <1>13 DEF StartManager, TypeOK
  <2> QED
    BY <2>1, <2>2, <1>13 DEF StartManager, TypeOK, End
<1>14. ASSUME NEW p \in Procs, StopOrRestart(p) PROVE TypeOK'
  <2>1. manager' \in Manager
    BY <1>14 DEF StopOrRestart, TypeOK, Manager
  <2> QED
    BY <2>1, <1>14 DEF StopOrRestart, TypeOK
<1>15. ASSUME NEW p \in Procs, RemoveRead(p) PROVE TypeOK'
  <2> DEFINE new == [Idle EXCEPT !.at = "remove plan", !.man = manifest]
  <2>1. new \in Command
    BY DEF Command, Idle, Manager, Off, Steps, TypeOK
  <2> QED
    BY <2>1, <1>15 DEF RemoveRead, TypeOK
<1>16. ASSUME NEW p \in Procs, RemovePlan(p) PROVE TypeOK'
  <2>1. UNCHANGED <<files, user, broken>>
    BY <1>16 DEF RemovePlan
  <2> QED
    BY ZenonT(60), <1>16, <2>1, RemovePlanTyped DEF TypeOK
<1>17. ASSUME NEW p \in Procs, RemoveStop(p) PROVE TypeOK'
  <2>1. CASE /\ cmd' = [cmd EXCEPT ![p].at = "remove backup", ![p].file = service]
             /\ UNCHANGED said
    <3> DEFINE f == [cmd EXCEPT ![p].at = "remove backup"]
    <3>1. f \in [Procs -> Command]
      BY FieldTyped DEF TypeOK, Steps
    <3>2. [f EXCEPT ![p].file = service] \in [Procs -> Command]
      <4> HIDE DEF f
      <4> QED
        BY <3>1, FieldTyped DEF TypeOK
    <3>3. cmd' \in [Procs -> Command]
      BY <2>1, <3>2
    <3>4. manager' \in Manager
      <4>1. Off \in Manager /\ [manager EXCEPT !.active = FALSE] \in Manager
        BY DEF TypeOK, Manager, Off
      <4> QED
        BY <4>1, <1>17 DEF RemoveStop, TypeOK
    <3> QED
      BY <2>1, <3>3, <3>4, <1>17 DEF RemoveStop, TypeOK
  <2>2. CASE End(p, "failed")
    <3>1. manager' \in Manager
      <4>1. Off \in Manager /\ [manager EXCEPT !.active = FALSE] \in Manager
        BY DEF TypeOK, Manager, Off
      <4> QED
        BY <4>1, <1>17 DEF RemoveStop, TypeOK
    <3>2. cmd' \in [Procs -> Command]
      BY <2>2, EndTyped DEF TypeOK
    <3> QED
      BY <2>2, <3>1, <3>2, <1>17 DEF RemoveStop, TypeOK, End
  <2> QED
    BY <2>1, <2>2, <1>17 DEF RemoveStop
<1>18. ASSUME NEW p \in Procs, RemoveBackup(p) PROVE TypeOK'
  <2>1. cmd' \in [Procs -> Command]
    BY GoTyped, EndTyped, <1>18 DEF RemoveBackup, TypeOK, Steps
  <2> QED
    BY <2>1, <1>18, HeldTyped DEF RemoveBackup, TypeOK, End
<1>19. ASSUME NEW p \in Procs, RemoveWrite(p) PROVE TypeOK'
  <2>1. cmd' \in [Procs -> Command]
    BY GoTyped, EndTyped, <1>19 DEF RemoveWrite, TypeOK, Steps
  <2>2. cmd[p].next \in Config \cup {NoFile}
    BY DEF TypeOK, Command
  <2> QED
    BY ZenonT(60), <2>1, <2>2, <1>19 DEF RemoveWrite, TypeOK
<1>20. ASSUME NEW p \in Procs, RemoveService(p) PROVE TypeOK'
  <2>1. cmd' \in [Procs -> Command]
    BY GoTyped, EndTyped, <1>20 DEF RemoveService, TypeOK, Steps
  <2> QED
    BY <2>1, <1>20, HeldTyped DEF RemoveService, TypeOK, End
<1>21. ASSUME NEW p \in Procs, RemoveManifest(p) PROVE TypeOK'
  <2>1. cmd' \in [Procs -> Command]
    BY GoTyped, EndTyped, <1>21 DEF RemoveManifest, TypeOK, Steps
  <2> QED
    BY <2>1, <1>21, HeldTyped DEF RemoveManifest, TypeOK, End
<1>22. ASSUME NEW p \in Procs, RestoreConfig(p) PROVE TypeOK'
  <2>1. config' \in Config \cup {NoFile}
    BY <1>22 DEF RestoreConfig, TypeOK, Command
  <2>2. cmd' \in [Procs -> Command] /\ said' \in {said, "failed", "restored"} /\ broken' \in BOOLEAN
    <3> PICK fails \in BOOLEAN :
          IF cmd[p].man.service
          THEN /\ cmd' = [cmd EXCEPT ![p].at = "restore service", ![p].bad = fails]
               /\ UNCHANGED <<said, broken>>
          ELSE Undone(p, fails)
      BY <1>22 DEF RestoreConfig
    <3>1. CASE /\ cmd' = [cmd EXCEPT ![p].at = "restore service", ![p].bad = fails]
               /\ UNCHANGED <<said, broken>>
      <4> DEFINE f == [cmd EXCEPT ![p].at = "restore service"]
      <4>1. f \in [Procs -> Command]
        BY FieldTyped DEF TypeOK, Steps
      <4>2. [f EXCEPT ![p].bad = fails] \in [Procs -> Command]
        <5> HIDE DEF f
        <5> QED
          BY <4>1, FieldTyped
      <4> QED
        BY <3>1, <4>2 DEF TypeOK
    <3>2. CASE Undone(p, fails)
      BY <3>2, UndoneTyped
    <3> QED
      BY <3>1, <3>2
  <2> QED
    BY <2>1, <2>2, <1>22 DEF RestoreConfig, TypeOK
<1>23. ASSUME NEW p \in Procs, RestoreService(p) PROVE TypeOK'
  <2>1. CASE Go(p, "restore manager")
    <3>1. cmd' \in [Procs -> Command] /\ service' \in {"none", "ours", "foreign"}
      BY <2>1, GoTyped, <1>23 DEF TypeOK, Steps, RestoreService, Undone, Command
    <3> QED
      BY <2>1, <3>1, UndoneTyped, <1>23 DEF RestoreService, TypeOK
  <2>2. CASE Undone(p, TRUE) /\ UNCHANGED service
    BY <2>2, UndoneTyped, <1>23 DEF RestoreService, TypeOK
  <2> QED
    BY <2>1, <2>2, <1>23 DEF RestoreService
<1>24. ASSUME NEW p \in Procs, RestoreManager(p) PROVE TypeOK'
  <2>1. manager' \in Manager
    BY <1>24 DEF RestoreManager, TypeOK, Manager, Command
  <2>2. cmd' \in [Procs -> Command] /\ said' \in {"failed", "restored"} /\ broken' \in BOOLEAN
    BY ZenonT(60), UndoneTyped, <1>24 DEF RestoreManager, TypeOK, Command
  <2> QED
    BY <2>1, <2>2, <1>24 DEF RestoreManager, TypeOK
<1>25. ASSUME NEW p \in Procs, Kill(p) PROVE TypeOK'
  <2>1. cmd' \in [Procs -> Command]
    BY GoTyped, EndTyped, <1>25 DEF Kill, TypeOK, Steps
  <2> QED
    BY <2>1, <1>25, HeldTyped DEF Kill, TypeOK, End
<1>26. ASSUME UserEdit PROVE TypeOK'
  <2>1. Contents(config) \in Config
    BY ContentsTyped DEF TypeOK
  <2>3. edits' \in 0 .. MaxEdits
    <3>1. edits < MaxEdits /\ edits' = edits + 1
      BY <1>26 DEF UserEdit
    <3>2. edits \in 0 .. MaxEdits /\ MaxEdits \in Nat
      BY DEF TypeOK, InstallAssumption
    <3> QED
      BY ONLY <3>1, <3>2
  <2>2. config' \in Config
    <3>1. [Contents(config) EXCEPT !.text = edits'] \in Config
      BY ONLY <2>1, <2>3 DEF Config
    <3>2. ASSUME NEW s \in Slots, NEW e \in Entries
          PROVE  [Contents(config) EXCEPT !.text = edits', !.entry[s] = e] \in Config
      <4> DEFINE c == Contents(config)
      <4>1. c.entry \in [Slots -> Entries] /\ c \in Config
        BY ONLY <2>1 DEF Config
      <4>2. [c.entry EXCEPT ![s] = e] \in [Slots -> Entries]
        BY ONLY <4>1, <3>2
      <4> HIDE DEF c
      <4>3. [c EXCEPT !.text = edits', !.entry[s] = e] \in Config
        BY ONLY <4>1, <4>2, <2>3 DEF Config
      <4> QED
        BY <4>3 DEF c
    <3>3. \/ config' = [Contents(config) EXCEPT !.text = edits'] /\ UNCHANGED touched
          \/ \E s \in Slots, e \in Entries \ {"ours"} :
                /\ config' = [Contents(config) EXCEPT !.text = edits', !.entry[s] = e]
                /\ touched' = touched \cup {s}
      BY <1>26 DEF UserEdit
    <3>4. CASE config' = [Contents(config) EXCEPT !.text = edits']
      BY ONLY <3>1, <3>4
    <3>5. ASSUME NEW s \in Slots, NEW e \in Entries,
                 config' = [Contents(config) EXCEPT !.text = edits', !.entry[s] = e]
          PROVE  config' \in Config
      BY ONLY <3>2, <3>5
    <3> QED
      BY ONLY <3>3, <3>4, <3>5
  <2>4. touched' \in SUBSET (Slots \cup {ServiceFile})
    BY <1>26 DEF UserEdit, TypeOK
  <2> QED
    BY <2>3, <2>2, <2>4, <1>26 DEF UserEdit, TypeOK
<1>27. ASSUME UserService PROVE TypeOK'
  BY <1>27 DEF UserService, TypeOK
<1> QED
  BY <1>1, <1>2, <1>3, <1>4, <1>5, <1>6, <1>7, <1>8, <1>9, <1>10, <1>11, <1>12, <1>13, <1>14, <1>15, <1>16, <1>17, <1>18, <1>19, <1>20, <1>21, <1>22, <1>23, <1>24, <1>25, <1>26, <1>27 DEF Next, Setup, Start, Uninstall

-----------------------------------------------------------------------------
(* What is the user's. *)

Foreign == {"same", "other"}

\* Two configs say the same but for the bridge's own blocks.
SameUser(c, d) ==
  /\ c.text = d.text
  /\ \A s \in Slots : c.entry[s] \in Foreign \/ d.entry[s] \in Foreign => c.entry[s] = d.entry[s]

LEMMA SameRefl == \A c : SameUser(c, c)
  BY DEF SameUser

LEMMA SameSym == \A c, d : SameUser(c, d) => SameUser(d, c)
  BY DEF SameUser

LEMMA SameTrans == \A c, d, e : SameUser(c, d) /\ SameUser(d, e) => SameUser(c, e)
  BY DEF SameUser

\* The steps of uninstall after its checks, and the steps at which a command
\* still needs the config it read, and the one it is going to write.
Removing == {"remove stop", "remove backup", "remove write", "remove service",
             "remove manifest", "restore config", "restore service", "restore manager"}
UsesOld  == {"setup plan", "setup backup", "setup write", "setup record", "setup undo"}
              \cup (Removing \ {"restore service", "restore manager"})
UsesNext == {"setup backup", "setup write", "remove stop", "remove backup", "remove write"}

\* A command that will use what it read of the config or the manifest has it.
Present ==
  \A p \in Procs : /\ cmd[p].at \in UsesNext => cmd[p].next # NoFile
                   /\ cmd[p].at \in Removing => cmd[p].old # NoFile
                   /\ cmd[p].at \notin {"idle", "setup plan"} => cmd[p].man # NoManifest

\* What setup read, and what it is going to write, is the config as far as the
\* user's part goes; and the config holds the user's latest text.
OldKept ==
  ~raced => \A p \in Procs : cmd[p].at \in UsesOld =>
              SameUser(Contents(cmd[p].old), Contents(config))

TextKept == ~raced => Contents(config).text = edits

NextKept ==
  ~raced => \A p \in Procs : cmd[p].at \in UsesNext => SameUser(cmd[p].next, Contents(config))

\* A step of a command, or its end by a kill.
Act(p) == Setup(p) \/ Start(p) \/ Uninstall(p) \/ Kill(p)

\* A step of one command leaves the others alone.
LEMMA GoIs ==
  ASSUME cmd \in [Procs -> Command], NEW p \in Procs, NEW step, Go(p, step)
  PROVE  /\ cmd'[p].at = step
         /\ cmd'[p].old = cmd[p].old /\ cmd'[p].next = cmd[p].next
         /\ cmd'[p].man = cmd[p].man /\ cmd'[p].mgr = cmd[p].mgr
         /\ cmd'[p].file = cmd[p].file /\ cmd'[p].bad = cmd[p].bad
         /\ \A q \in Procs : q # p => cmd'[q] = cmd[q]
  BY DEF Go, Command

LEMMA EndIs ==
  ASSUME cmd \in [Procs -> Command], NEW p \in Procs, NEW how, End(p, how)
  PROVE  cmd'[p] = Idle /\ \A q \in Procs : q # p => cmd'[q] = cmd[q]
  BY DEF End

LEMMA UndoneIs ==
  ASSUME cmd \in [Procs -> Command], NEW p \in Procs, NEW bad, Undone(p, bad)
  PROVE  cmd'[p].at = "idle" /\ \A q \in Procs : q # p => cmd'[q] = cmd[q]
<1>1. CASE bad
  BY <1>1 DEF Undone, End, Idle
<1>2. CASE ~bad
  BY <1>2 DEF Undone, Command
<1> QED
  BY <1>1, <1>2

LEMMA IdleIs == Idle.at = "idle" /\ Idle.file = "none" /\ Idle.old = NoFile
  BY DEF Idle

LEMMA ConfigStep ==
  ASSUME InstallAssumption, TypeOK, Present, OldKept, NextKept, ~raced, NEW p \in Procs, Act(p)
  PROVE  config' = config \/ (config' # NoFile /\ SameUser(Contents(config'), Contents(config)))
<1> USE DEF files
<1>1. CASE SetupWrite(p)
  <2>1. SameUser(cmd[p].next, Contents(config)) /\ cmd[p].next # NoFile
    BY <1>1 DEF SetupWrite, At, NextKept, Present, UsesNext
  <2> QED
    BY <1>1, <2>1 DEF SetupWrite, Contents
<1>2. CASE SetupUndo(p)
  <2>1. SameUser(Contents(cmd[p].old), Contents(config))
    BY <1>2 DEF SetupUndo, At, OldKept, UsesOld
  <2>2. Contents(cmd[p].old) \in Config
    BY ContentsTyped DEF TypeOK, Command
  <2>3. Contents(Contents(cmd[p].old)) = Contents(cmd[p].old) /\ Contents(cmd[p].old) # NoFile
    BY <2>2 DEF Contents, InstallAssumption
  <2> QED
    BY <1>2, <2>1, <2>3 DEF SetupUndo
<1>3. CASE RemoveWrite(p)
  <2>1. SameUser(cmd[p].next, Contents(config)) /\ cmd[p].next # NoFile
    BY <1>3 DEF RemoveWrite, At, NextKept, Present, UsesNext
  <2> QED
    BY <1>3, <2>1 DEF RemoveWrite, Contents
<1>4. CASE RestoreConfig(p)
  <2>1. SameUser(Contents(cmd[p].old), Contents(config)) /\ cmd[p].old # NoFile
    BY <1>4 DEF RestoreConfig, At, OldKept, Present, UsesOld, Removing
  <2> QED
    BY <1>4, <2>1 DEF RestoreConfig, Contents
<1>5. CASE SetupRead(p) \/ SetupPlan(p) \/ SetupReconcile(p) \/ SetupBackup(p) \/ SetupRecord(p)
  BY <1>5 DEF SetupRead, SetupPlan, SetupReconcile, SetupBackup, SetupRecord
<1>6. CASE Start(p)
  BY <1>6 DEF Start, StartRead, StartWrite, StartRecord, StartUndo, StartManager, StopOrRestart
<1>7. CASE RemoveRead(p) \/ RemovePlan(p) \/ RemoveStop(p) \/ RemoveBackup(p) \/ RemoveService(p)
           \/ RemoveManifest(p) \/ RestoreService(p) \/ RestoreManager(p)
  BY <1>7 DEF RemoveRead, RemovePlan, RemoveStop, RemoveBackup, RemoveService, RemoveManifest,
              RestoreService, RestoreManager
<1>8. CASE Kill(p)
  BY <1>8 DEF Kill
<1> QED
  BY <1>1, <1>2, <1>3, <1>4, <1>5, <1>6, <1>7, <1>8 DEF Act, Setup, Uninstall

\* What setup decides, by name.
PlanManifest == IF manifest = NoManifest THEN Fresh ELSE manifest
PlanKept(c) ==
  [PlanManifest EXCEPT !.blocks = @ \ (Relinquish(PlanManifest, c) \cup Migrate(PlanManifest, c))]
PlanMan(c) == [PlanKept(c) EXCEPT !.blocks = @ \cup Missing(c)]
PlanEntry(c) ==
  [s \in Slots |-> CASE s \in Missing(c)               -> "ours"
                     [] s \in Migrate(PlanManifest, c) -> "none"
                     [] OTHER                          -> c.entry[s]]
PlanNext(c) == [c EXCEPT !.entry = PlanEntry(c)]

LEMMA SetupPlanCases ==
  ASSUME NEW p \in Procs, SetupPlan(p)
  PROVE  LET c == Contents(cmd[p].old)
         IN  \/ End(p, "refused")
             \/ /\ End(p, "setup ok") /\ Relinquish(PlanManifest, c) = {}
                /\ Migrate(PlanManifest, c) = {} /\ Missing(c) = {}
             \/ /\ cmd' = [cmd EXCEPT ![p].at = "setup reconcile", ![p].man = PlanKept(c)]
                /\ Verified(PlanKept(c), c) /\ Migrate(PlanManifest, c) = {} /\ said' = said
             \/ /\ cmd' = [cmd EXCEPT ![p].at = "setup backup", ![p].man = PlanMan(c),
                                      ![p].next = PlanNext(c)]
                /\ Verified(PlanKept(c), c) /\ said' = said
<1> DEFINE c    == Contents(cmd[p].old)
           m    == IF manifest = NoManifest THEN Fresh ELSE manifest
           lost == Relinquish(m, c)
           move == Migrate(m, c)
           kept == [m EXCEPT !.blocks = @ \ (lost \cup move)]
           add  == Missing(c)
           man  == [kept EXCEPT !.blocks = @ \cup add]
           next == [c EXCEPT !.entry =
                      [s \in Slots |-> CASE s \in add  -> "ours"
                                         [] s \in move -> "none"
                                         [] OTHER      -> c.entry[s]]]
<1>1. m = PlanManifest /\ kept = PlanKept(c) /\ man = PlanMan(c) /\ next = PlanNext(c)
  BY DEF PlanManifest, PlanKept, PlanMan, PlanNext, PlanEntry
<1>2. \/ End(p, "refused")
      \/ End(p, "setup ok") /\ add \cup move \cup lost = {}
      \/ /\ cmd' = [cmd EXCEPT ![p].at = "setup reconcile", ![p].man = kept]
         /\ Verified(kept, c) /\ add \cup move = {} /\ said' = said
      \/ /\ cmd' = [cmd EXCEPT ![p].at = "setup backup", ![p].man = man, ![p].next = next]
         /\ Verified(kept, c) /\ said' = said
  BY DEF SetupPlan
<1> HIDE DEF m, kept, man, next, add
<1>3. add = Missing(c) /\ lost = Relinquish(PlanManifest, c) /\ move = Migrate(PlanManifest, c)
  BY <1>1 DEF add
<1> HIDE DEF lost, move, c
<1>4. /\ add \cup move \cup lost = {} => add = {} /\ move = {} /\ lost = {}
      /\ add \cup move = {} => move = {}
  OBVIOUS
<1>5. \/ End(p, "refused")
      \/ /\ End(p, "setup ok") /\ Relinquish(PlanManifest, c) = {}
         /\ Migrate(PlanManifest, c) = {} /\ Missing(c) = {}
      \/ /\ cmd' = [cmd EXCEPT ![p].at = "setup reconcile", ![p].man = PlanKept(c)]
         /\ Verified(PlanKept(c), c) /\ Migrate(PlanManifest, c) = {} /\ said' = said
      \/ /\ cmd' = [cmd EXCEPT ![p].at = "setup backup", ![p].man = PlanMan(c),
                               ![p].next = PlanNext(c)]
         /\ Verified(PlanKept(c), c) /\ said' = said
  BY <1>1, <1>2, <1>3, <1>4
<1> QED
  BY <1>5 DEF c

\* setup writes the bridge's blocks and takes them away, and nothing else.
LEMMA PlanIsAdditive ==
  ASSUME TypeOK, NEW c \in Config
  PROVE  SameUser(PlanNext(c), c) /\ PlanNext(c) \in Config
<1>1. PlanEntry(c) \in [Slots -> Entries]
  BY DEF PlanEntry, Entries, Config
<1>2. PlanNext(c) \in Config /\ PlanNext(c).text = c.text /\ PlanNext(c).entry = PlanEntry(c)
  BY <1>1 DEF PlanNext, Config
<1>3. \A s \in Slots : PlanEntry(c)[s] = c.entry[s] \/ (PlanEntry(c)[s] \notin Foreign /\ c.entry[s] \notin Foreign)
  BY DEF PlanEntry, Missing, Migrate, Foreign
<1> QED
  BY <1>2, <1>3 DEF SameUser

LEMMA RemoveIsAdditive ==
  ASSUME NEW c \in Config, NEW m, Verified(m, c), m.blocks \subseteq Slots,
         NEW d, d = [c EXCEPT !.entry = [s \in Slots |-> IF s \in m.blocks THEN "none" ELSE @[s]]]
  PROVE  SameUser(d, c) /\ d \in Config
<1> DEFINE ent == [s \in Slots |-> IF s \in m.blocks THEN "none" ELSE c.entry[s]]
<1>1. ent \in [Slots -> Entries]
  BY DEF Entries, Config
<1>2. d = [c EXCEPT !.entry = ent]
  OBVIOUS
<1>3. d \in Config /\ d.text = c.text /\ d.entry = ent
  <2> HIDE DEF ent
  <2> QED
    BY <1>1, <1>2 DEF Config
<1>4. \A s \in Slots : ent[s] = c.entry[s] \/ (ent[s] \notin Foreign /\ c.entry[s] \notin Foreign)
  BY DEF Verified, Foreign
<1> HIDE DEF ent
<1> QED
  BY <1>3, <1>4 DEF SameUser

LEMMA RemovePlanCases ==
  ASSUME InstallAssumption, TypeOK, NEW p \in Procs, RemovePlan(p)
  PROVE  \/ End(p, "refused")
         \/ /\ config \in Config /\ Verified(cmd[p].man, config)
            /\ cmd[p].man.service => service = "ours"
            /\ cmd'[p].at = IF cmd[p].man.service THEN "remove stop" ELSE "remove backup"
            /\ cmd'[p].old = config /\ cmd'[p].mgr = manager
            /\ cmd'[p].man = cmd[p].man /\ cmd'[p].file = cmd[p].file /\ cmd'[p].bad = cmd[p].bad
            /\ cmd'[p].next = [config EXCEPT !.entry =
                  [s \in Slots |-> IF s \in cmd[p].man.blocks THEN "none" ELSE @[s]]]
            /\ said' = said /\ \A q \in Procs : q # p => cmd'[q] = cmd[q]
<1> DEFINE m   == cmd[p].man
           at  == IF m.service THEN "remove stop" ELSE "remove backup"
           new == [config EXCEPT !.entry = [s \in Slots |-> IF s \in m.blocks THEN "none" ELSE @[s]]]
<1>1. \/ End(p, "refused")
      \/ /\ config # NoFile /\ Verified(m, config) /\ (m.service => service = "ours")
         /\ cmd' = [cmd EXCEPT ![p].at = at, ![p].old = config, ![p].next = new, ![p].mgr = manager]
         /\ said' = said
  BY DEF RemovePlan
<1>2. cmd \in [Procs -> Command] /\ (config # NoFile => config \in Config)
  BY DEF TypeOK
<1> HIDE DEF new, at
<1>3. CASE /\ config # NoFile /\ Verified(m, config) /\ (m.service => service = "ours")
           /\ cmd' = [cmd EXCEPT ![p].at = at, ![p].old = config, ![p].next = new, ![p].mgr = manager]
           /\ said' = said
  <2>1. /\ cmd'[p].at = at /\ cmd'[p].old = config /\ cmd'[p].next = new /\ cmd'[p].mgr = manager
        /\ cmd'[p].man = m /\ cmd'[p].file = cmd[p].file /\ cmd'[p].bad = cmd[p].bad
        /\ \A q \in Procs : q # p => cmd'[q] = cmd[q]
    BY <1>2, <1>3 DEF Command
  <2> QED
    BY <1>2, <1>3, <2>1 DEF new, at
<1> QED
  BY <1>1, <1>3

\* What a step of a command does to the configs it remembers.
Remembers(p) ==
  /\ \A q \in Procs : q # p => cmd'[q] = cmd[q]
  /\ cmd'[p].at \in UsesOld =>
       \/ cmd[p].at \in UsesOld /\ cmd'[p].old = cmd[p].old
       \/ Contents(cmd'[p].old) = Contents(config)
  /\ cmd'[p].at \in UsesNext =>
       \/ cmd[p].at \in UsesNext /\ cmd'[p].next = cmd[p].next
       \/ ~raced => SameUser(cmd'[p].next, Contents(config))
  /\ cmd'[p].at \in UsesNext =>
       \/ cmd[p].at \in UsesNext /\ cmd'[p].next = cmd[p].next
       \/ cmd'[p].next # NoFile
  /\ cmd'[p].at \in Removing =>
       \/ cmd[p].at \in Removing /\ cmd'[p].old = cmd[p].old
       \/ cmd'[p].old # NoFile
  /\ cmd'[p].at \notin {"idle", "setup plan"} => cmd'[p].man # NoManifest

LEMMA EndRemembers ==
  ASSUME TypeOK, NEW p \in Procs, NEW how, End(p, how)
  PROVE  Remembers(p)
  BY EndIs, IdleIs DEF Remembers, TypeOK, UsesOld, UsesNext, Removing

LEMMA UndoneRemembers ==
  ASSUME TypeOK, NEW p \in Procs, NEW bad, Undone(p, bad)
  PROVE  Remembers(p)
  BY UndoneIs DEF Remembers, TypeOK, UsesOld, UsesNext, Removing

LEMMA SetupPlanRemembers ==
  ASSUME InstallAssumption, TypeOK, OldKept, NEW p \in Procs, SetupPlan(p)
  PROVE  Remembers(p)
<1> DEFINE c == Contents(cmd[p].old)
<1>1. cmd[p].at = "setup plan" /\ cmd \in [Procs -> Command]
  BY DEF SetupPlan, At, TypeOK
<1>2. c \in Config
  BY ContentsTyped DEF TypeOK, Command
<1>3. SameUser(PlanNext(c), c) /\ PlanNext(c) # NoFile
  BY <1>2, PlanIsAdditive DEF InstallAssumption
<1>4. ~raced => SameUser(c, Contents(config))
  BY <1>1 DEF OldKept, UsesOld
<1>5. ~raced => SameUser(PlanNext(c), Contents(config))
  BY <1>3, <1>4, SameTrans
<1>9. PlanKept(c) \in Manifest /\ PlanMan(c) \in Manifest
  BY DEF PlanKept, PlanMan, PlanManifest, TypeOK, Manifest, Fresh, Missing
<1>10. PlanKept(c) # NoManifest /\ PlanMan(c) # NoManifest
  BY <1>9 DEF InstallAssumption
<1>6. CASE End(p, "refused") \/ End(p, "setup ok")
  BY <1>6, EndRemembers
<1> HIDE DEF c
<1>7. CASE cmd' = [cmd EXCEPT ![p].at = "setup reconcile", ![p].man = PlanKept(c)]
  <2>1. cmd'[p].at = "setup reconcile" /\ cmd'[p].man = PlanKept(c) /\ \A q \in Procs : q # p => cmd'[q] = cmd[q]
    BY <1>1, <1>7 DEF Command
  <2> QED
    BY <1>10, <2>1 DEF Remembers, UsesOld, UsesNext, Removing
<1>8. CASE cmd' = [cmd EXCEPT ![p].at = "setup backup", ![p].man = PlanMan(c), ![p].next = PlanNext(c)]
  <2>1. /\ cmd'[p].at = "setup backup" /\ cmd'[p].old = cmd[p].old /\ cmd'[p].next = PlanNext(c)
        /\ cmd'[p].man = PlanMan(c) /\ \A q \in Procs : q # p => cmd'[q] = cmd[q]
    BY <1>1, <1>8 DEF Command
  <2> QED
    BY <1>1, <1>3, <1>5, <1>10, <2>1 DEF Remembers, UsesOld, UsesNext, Removing
<1> QED
  BY <1>6, <1>7, <1>8, SetupPlanCases DEF c

LEMMA RemovePlanRemembers ==
  ASSUME InstallAssumption, TypeOK, Present, NEW p \in Procs, RemovePlan(p)
  PROVE  Remembers(p)
<1>1. CASE End(p, "refused")
  BY <1>1, EndRemembers
<1>2. CASE ~End(p, "refused")
  <2> DEFINE m == cmd[p].man
  <2>1. /\ config \in Config /\ Verified(m, config)
        /\ cmd'[p].at \in {"remove stop", "remove backup"}
        /\ cmd'[p].old = config
        /\ cmd'[p].next = [config EXCEPT !.entry =
              [s \in Slots |-> IF s \in m.blocks THEN "none" ELSE @[s]]]
        /\ \A q \in Procs : q # p => cmd'[q] = cmd[q]
    BY <1>2, RemovePlanCases
  <2>6. cmd'[p].man = m
    BY <1>2, RemovePlanCases
  <2>5. m # NoManifest
    BY DEF RemovePlan, At, Present
  <2>2. m.blocks \subseteq Slots
    <3>1. cmd \in [Procs -> Command]
      BY DEF TypeOK
    <3>2. m \in Manifest
      BY ONLY <3>1, <2>5, HeldTyped, p \in Procs
    <3> QED
      BY ONLY <3>2 DEF Manifest
  <2>3. SameUser(cmd'[p].next, config) /\ cmd'[p].next \in Config
    BY ZenonT(60), <2>1, <2>2, RemoveIsAdditive
  <2>4. Contents(config) = config /\ config # NoFile /\ cmd'[p].next # NoFile
    BY <2>1, <2>3 DEF Contents, InstallAssumption
  <2> HIDE DEF m
  <2> QED
    BY <2>1, <2>3, <2>4, <2>5, <2>6 DEF Remembers, UsesOld, UsesNext, Removing, m
<1> QED
  BY <1>1, <1>2

LEMMA ReadRemembers ==
  ASSUME InstallAssumption, TypeOK, NEW p \in Procs, SetupRead(p) \/ StartRead(p) \/ RemoveRead(p)
  PROVE  Remembers(p)
<1>1. cmd \in [Procs -> Command] /\ cmd[p].at = "idle"
  BY DEF TypeOK, SetupRead, StartRead, RemoveRead, At
<1>2. CASE SetupRead(p)
  <2>1. /\ cmd'[p].at = "setup plan" /\ cmd'[p].old = config
        /\ \A q \in Procs : q # p => cmd'[q] = cmd[q]
    BY <1>1, <1>2 DEF SetupRead, Idle
  <2> QED
    BY <2>1 DEF Remembers, UsesOld, UsesNext, Removing
<1>3. CASE StartRead(p) /\ ~Startable(manifest)
  BY <1>1, <1>3 DEF StartRead, Remembers, UsesOld, UsesNext, Removing
<1>4. CASE StartRead(p) /\ Startable(manifest)
  <2> DEFINE man == [manifest EXCEPT !.service = TRUE]
  <2>1. man # NoManifest
    <3>1. manifest \in Manifest
      BY <1>4 DEF Startable, TypeOK
    <3>2. man \in Manifest
      BY <3>1 DEF Manifest
    <3> QED
      BY <3>2 DEF InstallAssumption
  <2>2. /\ cmd'[p].at \in {"start manager", "start write"} /\ cmd'[p].man = man
        /\ \A q \in Procs : q # p => cmd'[q] = cmd[q]
    <3>1. cmd' = [cmd EXCEPT ![p] = [Idle EXCEPT
                   !.at  = IF manifest.service THEN "start manager" ELSE "start write", !.man = man]]
      BY <1>4 DEF StartRead
    <3> HIDE DEF man
    <3> QED
      BY <1>1, <3>1 DEF Idle
  <2> HIDE DEF man
  <2> QED
    BY <2>1, <2>2 DEF Remembers, UsesOld, UsesNext, Removing
<1>5. CASE RemoveRead(p)
  <2>1. CASE manifest = NoManifest
    BY <1>1, <1>5, <2>1 DEF RemoveRead, Remembers, UsesOld, UsesNext, Removing
  <2>2. CASE manifest # NoManifest
    <3>1. /\ cmd'[p].at = "remove plan" /\ cmd'[p].man = manifest
          /\ \A q \in Procs : q # p => cmd'[q] = cmd[q]
      BY <1>1, <1>5, <2>2 DEF RemoveRead, Idle
    <3> QED
      BY <2>2, <3>1 DEF Remembers, UsesOld, UsesNext, Removing
  <2> QED
    BY <2>1, <2>2
<1> QED
  BY <1>2, <1>3, <1>4, <1>5

LEMMA CommandRemembers ==
  ASSUME InstallAssumption, TypeOK, Present, OldKept, NEW p \in Procs, Act(p)
  PROVE  Remembers(p)
<1>1. cmd \in [Procs -> Command]
  BY DEF TypeOK
<1>2. CASE SetupRead(p) \/ StartRead(p) \/ RemoveRead(p)
  BY <1>2, ReadRemembers
<1>3. CASE SetupPlan(p)
  BY <1>3, SetupPlanRemembers
<1>4. CASE RemovePlan(p)
  BY <1>4, RemovePlanRemembers
<1>5. CASE Kill(p)
  BY <1>5, EndRemembers DEF Kill
<1>6. CASE StopOrRestart(p)
  BY <1>1, <1>6 DEF StopOrRestart, Remembers, Present, At
<1>7. ASSUME NEW step \in Steps, Go(p, step),
             cmd[p].at \notin {"idle", "setup plan"},
             step \in UsesOld => cmd[p].at \in UsesOld,
             step \in UsesNext => cmd[p].at \in UsesNext,
             step \in Removing => cmd[p].at \in Removing
      PROVE  Remembers(p)
  <2>1. /\ cmd'[p].at = step /\ cmd'[p].old = cmd[p].old /\ cmd'[p].next = cmd[p].next
        /\ cmd'[p].man = cmd[p].man /\ \A q \in Procs : q # p => cmd'[q] = cmd[q]
    BY <1>1, <1>7, GoIs
  <2> QED
    BY <1>7, <2>1 DEF Remembers, Present
<1>8. CASE SetupReconcile(p)
  BY <1>8, EndRemembers DEF SetupReconcile
<1>9. CASE SetupBackup(p)
  <2>1. cmd[p].at = "setup backup" /\ (Go(p, "setup write") \/ End(p, "failed"))
    BY <1>9 DEF SetupBackup, At
  <2> QED
    BY <1>7, <2>1, EndRemembers DEF Steps, UsesOld, UsesNext, Removing
<1>10. CASE SetupWrite(p)
  <2>1. cmd[p].at = "setup write" /\ (Go(p, "setup record") \/ End(p, "failed"))
    BY <1>10 DEF SetupWrite, At
  <2> QED
    BY <1>7, <2>1, EndRemembers DEF Steps, UsesOld, UsesNext, Removing
<1>11. CASE SetupRecord(p)
  <2>1. cmd[p].at = "setup record" /\ (Go(p, "setup undo") \/ End(p, "setup ok"))
    BY <1>11 DEF SetupRecord, At
  <2> QED
    BY <1>7, <2>1, EndRemembers DEF Steps, UsesOld, UsesNext, Removing
<1>12. CASE SetupUndo(p)
  BY <1>12, EndRemembers DEF SetupUndo
<1>13. CASE StartWrite(p)
  <2>1. cmd[p].at = "start write" /\ (Go(p, "start record") \/ End(p, "failed"))
    BY <1>13 DEF StartWrite, At
  <2> QED
    BY <1>7, <2>1, EndRemembers DEF Steps, UsesOld, UsesNext, Removing
<1>14. CASE StartRecord(p)
  <2>1. cmd[p].at = "start record" /\ (Go(p, "start manager") \/ Go(p, "start undo"))
    BY <1>14 DEF StartRecord, At
  <2> QED
    BY <1>7, <2>1, EndRemembers DEF Steps, UsesOld, UsesNext, Removing
<1>15. CASE StartUndo(p)
  BY <1>15, EndRemembers DEF StartUndo
<1>16. CASE StartManager(p)
  BY <1>16, EndRemembers DEF StartManager
<1>17. CASE RemoveBackup(p)
  <2>1. cmd[p].at = "remove backup" /\ (Go(p, "remove write") \/ Go(p, "restore config"))
    BY <1>17 DEF RemoveBackup, At
  <2> QED
    BY <1>7, <2>1, EndRemembers DEF Steps, UsesOld, UsesNext, Removing
<1>18. CASE RemoveWrite(p)
  <2>1. cmd[p].at = "remove write" /\ (Go(p, "remove service") \/ Go(p, "remove manifest") \/ Go(p, "restore config"))
    BY <1>18 DEF RemoveWrite, At
  <2> QED
    BY <1>7, <2>1, EndRemembers DEF Steps, UsesOld, UsesNext, Removing
<1>19. CASE RemoveService(p)
  <2>1. cmd[p].at = "remove service" /\ (Go(p, "remove manifest") \/ Go(p, "restore config"))
    BY <1>19 DEF RemoveService, At
  <2> QED
    BY <1>7, <2>1, EndRemembers DEF Steps, UsesOld, UsesNext, Removing
<1>20. CASE RemoveManifest(p)
  <2>1. cmd[p].at = "remove manifest" /\ (Go(p, "restore config") \/ End(p, "uninstalled"))
    BY <1>20 DEF RemoveManifest, At
  <2> QED
    BY <1>7, <2>1, EndRemembers DEF Steps, UsesOld, UsesNext, Removing
<1>21. CASE RemoveStop(p)
  <2>1. cmd[p].at = "remove stop"
    BY <1>21 DEF RemoveStop, At
  <2>2. CASE cmd' = [cmd EXCEPT ![p].at = "remove backup", ![p].file = service]
    <3>1. /\ cmd'[p].at = "remove backup" /\ cmd'[p].old = cmd[p].old /\ cmd'[p].next = cmd[p].next
          /\ cmd'[p].man = cmd[p].man /\ \A q \in Procs : q # p => cmd'[q] = cmd[q]
      BY <1>1, <2>2 DEF Command
    <3> QED
      BY <2>1, <3>1 DEF Remembers, Present, UsesOld, UsesNext, Removing
  <2> QED
    BY <1>21, <2>2, EndRemembers DEF RemoveStop
<1>22. CASE RestoreConfig(p)
  <2>1. cmd[p].at = "restore config"
    BY <1>22 DEF RestoreConfig, At
  <2> PICK fails \in BOOLEAN :
         \/ cmd' = [cmd EXCEPT ![p].at = "restore service", ![p].bad = fails]
         \/ Undone(p, fails)
    BY <1>22 DEF RestoreConfig
  <2>2. CASE cmd' = [cmd EXCEPT ![p].at = "restore service", ![p].bad = fails]
    <3>1. /\ cmd'[p].at = "restore service" /\ cmd'[p].old = cmd[p].old
          /\ cmd'[p].man = cmd[p].man /\ \A q \in Procs : q # p => cmd'[q] = cmd[q]
      BY <1>1, <2>2 DEF Command
    <3> QED
      BY <2>1, <3>1 DEF Remembers, Present, UsesOld, UsesNext, Removing
  <2> QED
    BY <2>2, UndoneRemembers
<1>23. CASE RestoreService(p)
  <2>1. cmd[p].at = "restore service" /\ (Go(p, "restore manager") \/ Undone(p, TRUE))
    BY <1>23 DEF RestoreService, At
  <2> QED
    BY <1>7, <2>1, UndoneRemembers DEF Steps, UsesOld, UsesNext, Removing
<1>24. CASE RestoreManager(p)
  BY <1>24, UndoneRemembers DEF RestoreManager
<1> QED
  BY <1>2, <1>3, <1>4, <1>5, <1>6, <1>8, <1>9, <1>10, <1>11, <1>12, <1>13, <1>14, <1>15, <1>16, <1>17, <1>18, <1>19, <1>20, <1>21, <1>22, <1>23, <1>24
     DEF Act, Setup, Start, Uninstall

LEMMA ActLeavesUser ==
  ASSUME NEW p \in Procs, Act(p)
  PROVE  UNCHANGED <<edits, touched, raced>>
<1> USE DEF user
<1>1. CASE Setup(p)
  BY <1>1 DEF Setup, SetupRead, SetupPlan, SetupReconcile, SetupBackup, SetupWrite, SetupRecord,
              SetupUndo
<1>2. CASE Start(p)
  BY <1>2 DEF Start, StartRead, StartWrite, StartRecord, StartUndo, StartManager, StopOrRestart
<1>3. CASE Uninstall(p)
  BY <1>3 DEF Uninstall, RemoveRead, RemovePlan, RemoveStop, RemoveBackup, RemoveWrite,
              RemoveService, RemoveManifest, RestoreConfig, RestoreService, RestoreManager
<1>4. CASE Kill(p)
  BY <1>4 DEF Kill
<1> QED
  BY <1>1, <1>2, <1>3, <1>4 DEF Act

ConfigInv == Present /\ OldKept /\ NextKept /\ TextKept

LEMMA EditedTyped ==
  ASSUME InstallAssumption, TypeOK, UserEdit
  PROVE  config' \in Config /\ config'.text = edits'
<1>1. Contents(config) \in Config
  BY ContentsTyped DEF TypeOK
<1>2. edits' \in 0 .. MaxEdits
  <2>1. edits < MaxEdits /\ edits' = edits + 1
    BY DEF UserEdit
  <2>2. edits \in 0 .. MaxEdits /\ MaxEdits \in Nat
    BY DEF TypeOK, InstallAssumption
  <2> QED
    BY ONLY <2>1, <2>2
<1>3. /\ [Contents(config) EXCEPT !.text = edits'] \in Config
      /\ [Contents(config) EXCEPT !.text = edits'].text = edits'
  BY <1>1, <1>2 DEF Config
<1>4. ASSUME NEW s \in Slots, NEW e \in Entries
      PROVE  /\ [Contents(config) EXCEPT !.text = edits', !.entry[s] = e] \in Config
             /\ [Contents(config) EXCEPT !.text = edits', !.entry[s] = e].text = edits'
  BY <1>1, <1>2 DEF Config
<1>5. \/ config' = [Contents(config) EXCEPT !.text = edits']
      \/ \E s \in Slots, e \in Entries : config' = [Contents(config) EXCEPT !.text = edits', !.entry[s] = e]
  BY DEF UserEdit
<1> QED
  BY ZenonT(60), <1>3, <1>4, <1>5

\* The invariant of the configs is kept by a command, and by the user.
LEMMA ConfigInvAct ==
  ASSUME InstallAssumption, TypeOK, ConfigInv, NEW p \in Procs, Act(p)
  PROVE  ConfigInv'
<1>1. Remembers(p)
  BY CommandRemembers DEF ConfigInv
<1>2. raced' = raced /\ edits' = edits
  BY ActLeavesUser
<1>3. ~raced => SameUser(Contents(config'), Contents(config))
  <2>1. ~raced => config' = config \/ (config' # NoFile /\ SameUser(Contents(config'), Contents(config)))
    BY ConfigStep DEF ConfigInv
  <2> QED
    BY <2>1, SameRefl
<1>4. ~raced => SameUser(Contents(config), Contents(config'))
  BY <1>3, SameSym
<1>5. Present'
  BY <1>1 DEF Present, Remembers, ConfigInv
<1>6. TextKept'
  BY <1>2, <1>3 DEF TextKept, SameUser, ConfigInv, Contents
<1>7. OldKept'
  <2> SUFFICES ASSUME ~raced', NEW q \in Procs, cmd'[q].at \in UsesOld
               PROVE  SameUser(Contents(cmd'[q].old), Contents(config'))
    BY DEF OldKept, Contents
  <2>1. CASE cmd'[q] = cmd[q] \/ (cmd[q].at \in UsesOld /\ cmd'[q].old = cmd[q].old)
    <3>1. SameUser(Contents(cmd[q].old), Contents(config))
      BY <1>2, <2>1 DEF OldKept, ConfigInv
    <3>2. cmd'[q].old = cmd[q].old
      BY <2>1
    <3> QED
      BY <1>2, <1>4, <3>1, <3>2, SameTrans
  <2>2. CASE Contents(cmd'[q].old) = Contents(config)
    BY <1>2, <1>4, <2>2
  <2> QED
    BY <1>1, <2>1, <2>2 DEF Remembers
<1>8. NextKept'
  <2> SUFFICES ASSUME ~raced', NEW q \in Procs, cmd'[q].at \in UsesNext
               PROVE  SameUser(cmd'[q].next, Contents(config'))
    BY DEF NextKept, Contents
  <2>1. CASE cmd'[q] = cmd[q] \/ (cmd[q].at \in UsesNext /\ cmd'[q].next = cmd[q].next)
    <3>1. SameUser(cmd[q].next, Contents(config))
      BY <1>2, <2>1 DEF NextKept, ConfigInv
    <3>2. cmd'[q].next = cmd[q].next
      BY <2>1
    <3> QED
      BY <1>2, <1>4, <3>1, <3>2, SameTrans
  <2>2. CASE SameUser(cmd'[q].next, Contents(config))
    BY <1>2, <1>4, <2>2, SameTrans
  <2> QED
    BY <1>1, <1>2, <2>1, <2>2 DEF Remembers
<1> QED
  BY <1>5, <1>6, <1>7, <1>8 DEF ConfigInv

LEMMA ConfigInvStep ==
  InstallAssumption /\ TypeOK /\ ConfigInv /\ [Next]_vars => ConfigInv'
<1> SUFFICES ASSUME InstallAssumption, TypeOK, ConfigInv, [Next]_vars
             PROVE  ConfigInv'
  OBVIOUS
<1>1. CASE UNCHANGED vars
  BY <1>1 DEF vars, ConfigInv, Present, OldKept, NextKept, TextKept, Contents
<1>2. ASSUME NEW p \in Procs, Act(p) PROVE ConfigInv'
  BY <1>2, ConfigInvAct
<1>3. CASE UserEdit
  <2>1. config' \in Config /\ config'.text = edits'
    BY <1>3, EditedTyped
  <2>2. cmd' = cmd /\ (~raced' => \A p \in Procs : cmd[p].at = "idle")
    BY <1>3 DEF UserEdit, Running
  <2>3. Present'
    BY <2>2 DEF Present, ConfigInv
  <2>4. TextKept'
    BY <2>1 DEF TextKept, Contents, InstallAssumption
  <2>5. OldKept' /\ NextKept'
    BY <2>2 DEF OldKept, NextKept, UsesOld, UsesNext, Removing
  <2> QED
    BY <2>3, <2>4, <2>5 DEF ConfigInv
<1>4. CASE UserService
  <2>1. UNCHANGED <<config, cmd, edits>> /\ (~raced' => ~raced)
    BY <1>4 DEF UserService
  <2> QED
    BY <2>1 DEF ConfigInv, Present, OldKept, NextKept, TextKept, Contents
<1> QED
  BY <1>1, <1>2, <1>3, <1>4 DEF Next, Act

-----------------------------------------------------------------------------
(* The service file. *)

StartSteps == {"start write", "start record", "start undo"}

\* A command that writes or removes the service file has seen that it is not the
\* user's, and remembers no file of the user's.
ServiceSeen(p) ==
  /\ cmd[p].at \in {"remove stop", "remove service", "restore service", "restore manager"} =>
       cmd[p].man.service
  /\ ~raced =>
       /\ cmd[p].file # "foreign"
       /\ cmd[p].at \in StartSteps => service # "foreign"
       /\ cmd[p].at \in Removing /\ cmd[p].man.service => service # "foreign"

ServiceInv == \A p \in Procs : ServiceSeen(p)

\* From it, no step changes a model table or a service file of the user's.
LEMMA ServiceStep ==
  ASSUME ServiceInv, ~raced, NEW p \in Procs, Act(p)
  PROVE  service = "foreign" <=> service' = "foreign"
<1> USE DEF files
<1>1. CASE StartWrite(p) \/ StartUndo(p)
  BY <1>1 DEF StartWrite, StartUndo, At, ServiceInv, ServiceSeen, StartSteps
<1>2. CASE RemoveService(p) \/ RestoreService(p)
  BY <1>2 DEF RemoveService, RestoreService, At, ServiceInv, ServiceSeen, Removing
<1>3. CASE Setup(p)
  BY <1>3 DEF Setup, SetupRead, SetupPlan, SetupReconcile, SetupBackup, SetupWrite, SetupRecord,
              SetupUndo
<1>4. CASE StartRead(p) \/ StartRecord(p) \/ StartManager(p) \/ StopOrRestart(p)
  BY <1>4 DEF StartRead, StartRecord, StartManager, StopOrRestart
<1>5. CASE RemoveRead(p) \/ RemovePlan(p) \/ RemoveStop(p) \/ RemoveBackup(p) \/ RemoveWrite(p)
           \/ RemoveManifest(p) \/ RestoreConfig(p) \/ RestoreManager(p)
  BY <1>5 DEF RemoveRead, RemovePlan, RemoveStop, RemoveBackup, RemoveWrite,
              RemoveManifest, RestoreConfig, RestoreManager
<1>6. CASE Kill(p)
  BY <1>6 DEF Kill
<1> QED
  BY <1>1, <1>2, <1>3, <1>4, <1>5, <1>6 DEF Act, Start, Uninstall

\* What a step of a command does to what it remembers of the service.
Tracks(p) ==
  /\ \A q \in Procs : q # p => cmd'[q] = cmd[q]
  /\ cmd'[p].at \in StartSteps => cmd[p].at \in StartSteps \/ service # "foreign"
  /\ cmd'[p].at \in Removing /\ cmd'[p].man.service =>
       \/ cmd[p].at \in Removing /\ cmd[p].man.service
       \/ service # "foreign"
  /\ cmd'[p].at \in {"remove stop", "remove service", "restore service", "restore manager"} =>
       cmd'[p].man.service
  /\ \/ cmd'[p].file \in {cmd[p].file, "none"}
     \/ cmd[p].at = "remove stop" /\ cmd'[p].file = service

LEMMA EndTracks ==
  ASSUME TypeOK, NEW p \in Procs, NEW how, End(p, how)
  PROVE  Tracks(p)
  BY EndIs, IdleIs DEF Tracks, TypeOK, StartSteps, Removing

LEMMA UndoneTracks ==
  ASSUME TypeOK, NEW p \in Procs, NEW bad, Undone(p, bad)
  PROVE  Tracks(p)
<1>1. cmd'[p].at = "idle" /\ (cmd'[p].file \in {cmd[p].file, "none"})
      /\ \A q \in Procs : q # p => cmd'[q] = cmd[q]
  <2>1. cmd \in [Procs -> Command]
    BY DEF TypeOK
  <2>2. CASE bad
    BY <2>1, <2>2 DEF Undone, End, Idle
  <2>3. CASE ~bad
    BY <2>1, <2>3 DEF Undone, Command
  <2> QED
    BY <2>2, <2>3
<1> QED
  BY <1>1 DEF Tracks, StartSteps, Removing

\* What two of the fields, or three, of a command are set to leaves the rest.
LEMMA SetTwo ==
  ASSUME cmd \in [Procs -> Command], NEW p \in Procs, NEW at, NEW m,
         cmd' = [cmd EXCEPT ![p].at = at, ![p].man = m]
  PROVE  /\ cmd'[p].at = at /\ cmd'[p].file = cmd[p].file
         /\ \A q \in Procs : q # p => cmd'[q] = cmd[q]
<1>1. cmd'[p] = [cmd[p] EXCEPT !.at = at, !.man = m]
  OBVIOUS
<1>2. cmd[p] \in Command
  OBVIOUS
<1>3. cmd'[p].at = at /\ cmd'[p].file = cmd[p].file
  BY ONLY <1>1, <1>2 DEF Command
<1>4. \A q \in Procs : q # p => cmd'[q] = cmd[q]
  OBVIOUS
<1> QED
  BY ONLY <1>3, <1>4

LEMMA SetThree ==
  ASSUME cmd \in [Procs -> Command], NEW p \in Procs, NEW at, NEW m, NEW n,
         cmd' = [cmd EXCEPT ![p].at = at, ![p].man = m, ![p].next = n]
  PROVE  /\ cmd'[p].at = at /\ cmd'[p].file = cmd[p].file
         /\ \A q \in Procs : q # p => cmd'[q] = cmd[q]
<1>1. cmd'[p] = [cmd[p] EXCEPT !.at = at, !.man = m, !.next = n]
  OBVIOUS
<1>2. cmd[p] \in Command
  OBVIOUS
<1>3. cmd'[p].at = at /\ cmd'[p].file = cmd[p].file
  BY ONLY <1>1, <1>2 DEF Command
<1>4. \A q \in Procs : q # p => cmd'[q] = cmd[q]
  OBVIOUS
<1> QED
  BY ONLY <1>3, <1>4

LEMMA SetupPlanTracks ==
  ASSUME TypeOK, NEW p \in Procs, SetupPlan(p)
  PROVE  Tracks(p)
<1> DEFINE c == Contents(cmd[p].old)
<1>1. cmd \in [Procs -> Command]
  BY DEF TypeOK
<1>2. \/ End(p, "refused") \/ End(p, "setup ok")
      \/ cmd' = [cmd EXCEPT ![p].at = "setup reconcile", ![p].man = PlanKept(c)]
      \/ cmd' = [cmd EXCEPT ![p].at = "setup backup", ![p].man = PlanMan(c), ![p].next = PlanNext(c)]
  BY SetupPlanCases
<1> HIDE DEF c
<1>3. CASE cmd' = [cmd EXCEPT ![p].at = "setup reconcile", ![p].man = PlanKept(c)]
  <2>1. /\ cmd'[p].at = "setup reconcile" /\ cmd'[p].file = cmd[p].file
        /\ \A q \in Procs : q # p => cmd'[q] = cmd[q]
    BY ONLY <1>1, <1>3, SetTwo, p \in Procs
  <2> QED
    BY ONLY <2>1 DEF Tracks, StartSteps, Removing
<1>4. CASE cmd' = [cmd EXCEPT ![p].at = "setup backup", ![p].man = PlanMan(c),
                             ![p].next = PlanNext(c)]
  <2>1. /\ cmd'[p].at = "setup backup" /\ cmd'[p].file = cmd[p].file
        /\ \A q \in Procs : q # p => cmd'[q] = cmd[q]
    BY ONLY <1>1, <1>4, SetThree, p \in Procs
  <2> QED
    BY ONLY <2>1 DEF Tracks, StartSteps, Removing
<1> QED
  BY <1>2, <1>3, <1>4, EndTracks

LEMMA ReadTracks ==
  ASSUME TypeOK, NEW p \in Procs, SetupRead(p) \/ StartRead(p) \/ RemoveRead(p)
  PROVE  Tracks(p)
<1>1. cmd \in [Procs -> Command]
  BY DEF TypeOK
<1>2. CASE cmd' = cmd
  BY <1>2, IdleIs DEF Tracks, SetupRead, StartRead, RemoveRead, At, StartSteps, Removing
<1>3. CASE SetupRead(p)
  <2>1. cmd'[p].at = "setup plan" /\ cmd'[p].file = "none" /\ \A q \in Procs : q # p => cmd'[q] = cmd[q]
    BY <1>1, <1>3 DEF SetupRead, Idle
  <2> QED
    BY <2>1 DEF Tracks, StartSteps, Removing
<1>4. CASE StartRead(p) /\ Startable(manifest)
  <2>1. service # "foreign"
    BY <1>4 DEF Startable
  <2>2. /\ cmd'[p].at \in {"start manager", "start write"} /\ cmd'[p].file = "none"
        /\ \A q \in Procs : q # p => cmd'[q] = cmd[q]
    BY <1>1, <1>4 DEF StartRead, Idle
  <2> QED
    BY <2>1, <2>2 DEF Tracks, StartSteps, Removing
<1>5. CASE RemoveRead(p) /\ manifest # NoManifest
  <2>1. cmd'[p].at = "remove plan" /\ cmd'[p].file = "none" /\ \A q \in Procs : q # p => cmd'[q] = cmd[q]
    BY <1>1, <1>5 DEF RemoveRead, Idle
  <2> QED
    BY <2>1 DEF Tracks, StartSteps, Removing
<1> QED
  BY <1>2, <1>3, <1>4, <1>5 DEF StartRead, RemoveRead

LEMMA CommandTracks ==
  ASSUME InstallAssumption, TypeOK, ServiceInv, NEW p \in Procs, Act(p)
  PROVE  Tracks(p)
<1>1. cmd \in [Procs -> Command]
  BY DEF TypeOK
<1>2. CASE SetupRead(p) \/ StartRead(p) \/ RemoveRead(p)
  BY <1>2, ReadTracks
<1>3. CASE SetupPlan(p)
  BY <1>3, SetupPlanTracks
<1>4. CASE RemovePlan(p)
  <2>1. CASE End(p, "refused")
    BY <2>1, EndTracks
  <2>2. CASE ~End(p, "refused")
    <3>1. /\ cmd[p].man.service => service = "ours"
          /\ cmd'[p].at = IF cmd[p].man.service THEN "remove stop" ELSE "remove backup"
          /\ cmd'[p].man = cmd[p].man /\ cmd'[p].file = cmd[p].file
          /\ \A q \in Procs : q # p => cmd'[q] = cmd[q]
      BY <1>4, <2>2, RemovePlanCases
    <3> QED
      BY <3>1 DEF Tracks, StartSteps, Removing
  <2> QED
    BY <2>1, <2>2
<1>5. CASE Kill(p)
  BY <1>5, EndTracks DEF Kill
<1>6. CASE StopOrRestart(p)
  BY <1>1, <1>6 DEF StopOrRestart, Tracks, At, StartSteps, Removing
<1>7. ASSUME NEW step \in Steps, Go(p, step),
             step \in StartSteps => cmd[p].at \in StartSteps,
             step \in Removing => cmd[p].at \in Removing,
             step \in {"remove stop", "remove service", "restore service", "restore manager"} =>
               cmd[p].man.service
      PROVE  Tracks(p)
  <2>1. /\ cmd'[p].at = step /\ cmd'[p].file = cmd[p].file
        /\ cmd'[p].man = cmd[p].man /\ \A q \in Procs : q # p => cmd'[q] = cmd[q]
    BY <1>1, <1>7, GoIs
  <2> QED
    BY <1>7, <2>1 DEF Tracks
<1>8. CASE SetupReconcile(p)
  BY <1>8, EndTracks DEF SetupReconcile
<1>9. CASE SetupBackup(p)
  <2>1. cmd[p].at = "setup backup" /\ (Go(p, "setup write") \/ End(p, "failed"))
    BY <1>9 DEF SetupBackup, At
  <2> QED
    BY <1>7, <2>1, EndTracks DEF Steps, StartSteps, Removing
<1>10. CASE SetupWrite(p)
  <2>1. cmd[p].at = "setup write" /\ (Go(p, "setup record") \/ End(p, "failed"))
    BY <1>10 DEF SetupWrite, At
  <2> QED
    BY <1>7, <2>1, EndTracks DEF Steps, StartSteps, Removing
<1>11. CASE SetupRecord(p)
  <2>1. cmd[p].at = "setup record" /\ (Go(p, "setup undo") \/ End(p, "setup ok"))
    BY <1>11 DEF SetupRecord, At
  <2> QED
    BY <1>7, <2>1, EndTracks DEF Steps, StartSteps, Removing
<1>12. CASE SetupUndo(p)
  BY <1>12, EndTracks DEF SetupUndo
<1>13. CASE StartWrite(p)
  <2>1. cmd[p].at = "start write" /\ (Go(p, "start record") \/ End(p, "failed"))
    BY <1>13 DEF StartWrite, At
  <2> QED
    BY <1>7, <2>1, EndTracks DEF Steps, StartSteps, Removing
<1>14. CASE StartRecord(p)
  <2>1. cmd[p].at = "start record" /\ (Go(p, "start manager") \/ Go(p, "start undo"))
    BY <1>14 DEF StartRecord, At
  <2> QED
    BY <1>7, <2>1, EndTracks DEF Steps, StartSteps, Removing
<1>15. CASE StartUndo(p)
  BY <1>15, EndTracks DEF StartUndo
<1>16. CASE StartManager(p)
  BY <1>16, EndTracks DEF StartManager
<1>17. CASE RemoveBackup(p)
  <2>1. cmd[p].at = "remove backup" /\ (Go(p, "remove write") \/ Go(p, "restore config"))
    BY <1>17 DEF RemoveBackup, At
  <2> QED
    BY <1>7, <2>1, EndTracks DEF Steps, StartSteps, Removing
<1>18. CASE RemoveWrite(p)
  <2>1. /\ cmd[p].at = "remove write"
        /\ \/ Go(p, IF cmd[p].man.service THEN "remove service" ELSE "remove manifest")
           \/ Go(p, "restore config")
    BY <1>18 DEF RemoveWrite, At
  <2>2. CASE Go(p, "remove service") /\ cmd[p].man.service
    BY <1>7, <2>1, <2>2 DEF Steps, StartSteps, Removing
  <2>3. CASE Go(p, "remove manifest") \/ Go(p, "restore config")
    BY <1>7, <2>1, <2>3 DEF Steps, StartSteps, Removing
  <2> QED
    BY <2>1, <2>2, <2>3
<1>19. CASE RemoveService(p)
  <2>1. cmd[p].at = "remove service" /\ (Go(p, "remove manifest") \/ Go(p, "restore config"))
    BY <1>19 DEF RemoveService, At
  <2> QED
    BY <1>7, <2>1, EndTracks DEF Steps, StartSteps, Removing
<1>20. CASE RemoveManifest(p)
  <2>1. cmd[p].at = "remove manifest" /\ (Go(p, "restore config") \/ End(p, "uninstalled"))
    BY <1>20 DEF RemoveManifest, At
  <2> QED
    BY <1>7, <2>1, EndTracks DEF Steps, StartSteps, Removing
<1>21. CASE RemoveStop(p)
  <2>1. cmd[p].at = "remove stop"
    BY <1>21 DEF RemoveStop, At
  <2>2. CASE cmd' = [cmd EXCEPT ![p].at = "remove backup", ![p].file = service]
    <3>1. /\ cmd'[p].at = "remove backup" /\ cmd'[p].file = service
          /\ cmd'[p].man = cmd[p].man /\ \A q \in Procs : q # p => cmd'[q] = cmd[q]
      BY <1>1, <2>2 DEF Command
    <3> QED
      BY <2>1, <3>1 DEF Tracks, ServiceInv, ServiceSeen, StartSteps, Removing
  <2> QED
    BY <1>21, <2>2, EndTracks DEF RemoveStop
<1>22. CASE RestoreConfig(p)
  <2>1. cmd[p].at = "restore config"
    BY <1>22 DEF RestoreConfig, At
  <2> PICK fails \in BOOLEAN :
         \/ cmd[p].man.service /\ cmd' = [cmd EXCEPT ![p].at = "restore service", ![p].bad = fails]
         \/ Undone(p, fails)
    BY <1>22 DEF RestoreConfig
  <2>2. CASE cmd[p].man.service /\ cmd' = [cmd EXCEPT ![p].at = "restore service", ![p].bad = fails]
    <3>1. /\ cmd'[p].at = "restore service" /\ cmd'[p].file = cmd[p].file
          /\ cmd'[p].man = cmd[p].man /\ \A q \in Procs : q # p => cmd'[q] = cmd[q]
      BY <1>1, <2>2 DEF Command
    <3> QED
      BY <2>1, <2>2, <3>1 DEF Tracks, StartSteps, Removing
  <2> QED
    BY <2>2, UndoneTracks
<1>23. CASE RestoreService(p)
  <2>1. cmd[p].at = "restore service" /\ (Go(p, "restore manager") \/ Undone(p, TRUE))
    BY <1>23 DEF RestoreService, At
  <2>2. cmd[p].man.service
    BY <2>1 DEF ServiceInv, ServiceSeen
  <2> QED
    BY <1>7, <2>1, <2>2, UndoneTracks DEF Steps, StartSteps, Removing
<1>24. CASE RestoreManager(p)
  BY <1>24, UndoneTracks DEF RestoreManager
<1> QED
  BY <1>2, <1>3, <1>4, <1>5, <1>6, <1>8, <1>9, <1>10, <1>11, <1>12, <1>13, <1>14, <1>15, <1>16, <1>17, <1>18, <1>19, <1>20, <1>21, <1>22, <1>23, <1>24
     DEF Act, Setup, Start, Uninstall

LEMMA ServiceInvStep ==
  InstallAssumption /\ TypeOK /\ ServiceInv /\ [Next]_vars => ServiceInv'
<1> SUFFICES ASSUME InstallAssumption, TypeOK, ServiceInv, [Next]_vars
             PROVE  ServiceInv'
  OBVIOUS
<1>1. CASE UNCHANGED vars
  BY <1>1 DEF vars, ServiceInv, ServiceSeen
<1>2. ASSUME NEW p \in Procs, Act(p) PROVE ServiceInv'
  <2>1. Tracks(p)
    BY <1>2, CommandTracks
  <2>2. raced' = raced /\ (~raced => (service = "foreign" <=> service' = "foreign"))
    BY <1>2, ActLeavesUser, ServiceStep
  <2> SUFFICES ASSUME NEW q \in Procs
               PROVE  ServiceSeen(q)'
    BY DEF ServiceInv
  <2>3. CASE q # p
    BY <2>1, <2>2, <2>3 DEF Tracks, ServiceInv, ServiceSeen
  <2>4. CASE q = p
    <3>1. cmd[p].at = "remove stop" => cmd[p].at \in Removing
      BY DEF Removing
    <3> QED
      BY <2>1, <2>2, <2>4, <3>1 DEF Tracks, ServiceInv, ServiceSeen
  <2> QED
    BY <2>3, <2>4
<1>3. CASE UserEdit
  <2>1. UNCHANGED <<cmd, service>> /\ (~raced' => ~raced)
    BY <1>3 DEF UserEdit
  <2> QED
    BY <2>1 DEF ServiceInv, ServiceSeen
<1>4. CASE UserService
  <2>1. cmd' = cmd /\ (~raced' => ~raced /\ \A p \in Procs : cmd[p].at = "idle")
    BY <1>4 DEF UserService, Running
  <2> QED
    BY <2>1 DEF ServiceInv, ServiceSeen, StartSteps, Removing
<1> QED
  BY <1>1, <1>2, <1>3, <1>4 DEF Next, Act

-----------------------------------------------------------------------------
(* Any number of commands at once. *)

\* The inductive invariant.
IInv == TypeOK /\ ConfigInv /\ ServiceInv

LEMMA InitConfigs ==
  ASSUME Init
  PROVE  \/ config = NoFile \/ config = Empty
         \/ \E s \in Slots, e \in {"same", "other"} : config = [Empty EXCEPT !.entry[s] = e]
         \/ config = [Empty EXCEPT !.entry = [s \in Slots |->
                         IF s[2] = "custom" THEN "same" ELSE "none"]]
         \/ config = [Empty EXCEPT !.entry = [s \in Slots |->
                         IF s[2] = "legacy" THEN "ours" ELSE "none"]]
<1> DEFINE A == [Empty EXCEPT !.entry = [s \in Slots |-> IF s[2] = "custom" THEN "same" ELSE "none"]]
           B == [Empty EXCEPT !.entry = [s \in Slots |-> IF s[2] = "legacy" THEN "ours" ELSE "none"]]
           One(s, e) == [Empty EXCEPT !.entry[s] = e]
<1>1. \/ config \in {NoFile, Empty} \cup {One(s, e) : s \in Slots, e \in {"same", "other"}} \cup {A}
      \/ config = B
  BY DEF Init
<1> HIDE DEF A, B, One
<1>2. config \in {One(s, e) : s \in Slots, e \in {"same", "other"}} =>
        \E s \in Slots, e \in {"same", "other"} : config = One(s, e)
  OBVIOUS
<1>3. \/ config = NoFile \/ config = Empty \/ config = A \/ config = B
      \/ \E s \in Slots, e \in {"same", "other"} : config = One(s, e)
  BY <1>1, <1>2
<1> QED
  BY <1>3 DEF A, B, One

LEMMA InitType == InstallAssumption /\ Init => TypeOK
<1> SUFFICES ASSUME InstallAssumption, Init PROVE TypeOK
  OBVIOUS
<1>1. Empty \in Config
  BY EmptyTyped
<1>2. ASSUME NEW f \in [Slots -> Entries] PROVE [Empty EXCEPT !.entry = f] \in Config
  BY <1>1, EntryTyped
<1>3. ASSUME NEW s \in Slots, NEW e \in {"same", "other"}
      PROVE  [Empty EXCEPT !.entry[s] = e] \in Config
  BY <1>1 DEF Config, Empty, Entries
<1>4. [s \in Slots |-> IF s[2] = "custom" THEN "same" ELSE "none"] \in [Slots -> Entries]
  BY DEF Entries
<1>5. [s \in Slots |-> IF s[2] = "legacy" THEN "ours" ELSE "none"] \in [Slots -> Entries]
  BY DEF Entries
<1>6. config \in Config \cup {NoFile}
  BY <1>1, <1>2, <1>3, <1>4, <1>5, InitConfigs
<1>7. [Fresh EXCEPT !.blocks = Aliases \X {"legacy"}] \in Manifest
  BY DEF Fresh, Manifest, Slots
<1>8. manifest \in Manifest \cup {NoManifest}
  <2>1. manifest = NoManifest \/ manifest = [Fresh EXCEPT !.blocks = Aliases \X {"legacy"}]
    BY DEF Init
  <2> QED
    BY <1>7, <2>1
<1>9. manager \in Manager /\ cmd \in [Procs -> Command]
  BY IdleTyped DEF Init, Manager, Off
<1>10. edits \in 0 .. MaxEdits
  BY DEF Init, InstallAssumption
<1>11. /\ service \in {"none", "foreign"} /\ saved = NoFile /\ said = "nothing"
       /\ touched = {} /\ raced = FALSE /\ broken = FALSE /\ killed = FALSE
  BY DEF Init
<1> QED
  BY <1>6, <1>8, <1>9, <1>10, <1>11 DEF TypeOK

LEMMA InitInv == InstallAssumption /\ Init => IInv
<1> SUFFICES ASSUME InstallAssumption, Init PROVE IInv
  OBVIOUS
<1>1. TypeOK
  BY InitType
<1>2. ~raced /\ edits = 0 /\ \A p \in Procs : cmd[p] = Idle
  BY DEF Init
<1>3. Present /\ OldKept /\ NextKept /\ ServiceInv
  <2>1. \A p \in Procs : cmd[p].at = "idle" /\ cmd[p].file = "none"
    BY <1>2, IdleIs
  <2> QED
    BY <2>1 DEF Present, OldKept, NextKept, ServiceInv, ServiceSeen, UsesOld, UsesNext, Removing,
                StartSteps
<1>4. Contents(config).text = 0
  <2>1. ASSUME NEW f PROVE [Empty EXCEPT !.entry = f].text = 0
    BY DEF Empty
  <2>2. ASSUME NEW s, NEW e PROVE [Empty EXCEPT !.entry[s] = e].text = 0
    BY DEF Empty
  <2>3. Empty.text = 0
    BY DEF Empty
  <2> QED
    BY <2>1, <2>2, <2>3, InitConfigs DEF Contents
<1>5. TextKept
  BY <1>2, <1>4 DEF TextKept
<1> QED
  BY <1>1, <1>3, <1>5 DEF IInv, ConfigInv

\* However many commands run, fail and are killed, the invariant holds.
THEOREM Invariant == Spec => []IInv
<1>1. Init => IInv
  BY InitInv, InstallAssumption
<1>2. IInv /\ [Next]_vars => IInv'
  BY TypeStep, ConfigInvStep, ServiceInvStep, InstallAssumption DEF IInv
<1> QED
  BY <1>1, <1>2, PTL DEF Spec

\* Every variable of Install, and what each command remembers, has its type.
THEOREM TypeCorrect == Spec => []TypeOK
<1>1. IInv => TypeOK
  BY DEF IInv
<1> QED
  BY <1>1, Invariant, PTL

\* setup is additive: for any models, any number of commands at once, and any
\* failures and kills, the user's own text in the config is never lost, but to an
\* edit made while a command runs.
THEOREM SetupIsAdditive == Spec => []UserTextKept
<1>1. IInv => UserTextKept
  <2> SUFFICES ASSUME IInv, ~raced PROVE IF config = NoFile THEN edits = 0 ELSE config.text = edits
    BY DEF UserTextKept
  <2>1. Contents(config).text = edits
    BY DEF IInv, ConfigInv, TextKept
  <2> QED
    BY <2>1 DEF Contents, Empty
<1> QED
  BY <1>1, Invariant, PTL

\* No step of any command changes a model table or a service file of the user's.
THEOREM NothingForeignIsTouched == Spec => ForeignKept
<1>1. IInv /\ [Next]_vars =>
        [cmd' # cmd /\ ~raced =>
           /\ config # NoFile => \A s \in Slots :
                config.entry[s] \in {"same", "other"} => config'.entry[s] = config.entry[s]
           /\ service = "foreign" => service' = "foreign"]_vars
  <2> SUFFICES ASSUME IInv, Next, cmd' # cmd, ~raced
               PROVE  /\ config # NoFile => \A s \in Slots :
                           config.entry[s] \in {"same", "other"} => config'.entry[s] = config.entry[s]
                      /\ service = "foreign" => service' = "foreign"
    OBVIOUS
  <2>1. PICK p \in Procs : Act(p)
    BY DEF Next, Act, UserEdit, UserService
  <2>2. config' = config \/ (config' # NoFile /\ SameUser(Contents(config'), Contents(config)))
    BY <2>1, ConfigStep, InstallAssumption DEF IInv, ConfigInv
  <2>3. service = "foreign" => service' = "foreign"
    BY <2>1, ServiceStep DEF IInv
  <2> QED
    BY <2>2, <2>3 DEF SameUser, Contents, Foreign
<1> QED
  BY <1>1, Invariant, PTL DEF Spec, ForeignKept

-----------------------------------------------------------------------------
(* One command at a time: Procs = {p}, for any number of edits and with every *)
(* failure; a kill or an edit during the command is excluded only where the   *)
(* property says so.                                                          *)

\* Going on to a step keeps what the command holds.

Moves(p, step) ==
  /\ cmd'[p].at = step
  /\ cmd'[p].old = cmd[p].old /\ cmd'[p].next = cmd[p].next
  /\ cmd'[p].man = cmd[p].man /\ cmd'[p].mgr = cmd[p].mgr
  /\ cmd'[p].file = cmd[p].file /\ cmd'[p].bad = cmd[p].bad

LEMMA GoMoves ==
  ASSUME TypeOK, NEW p \in Procs, NEW step, Go(p, step)
  PROVE  Moves(p, step)
  BY GoIs DEF TypeOK, Moves

LEMMA EndEnds ==
  ASSUME TypeOK, NEW p \in Procs, NEW how, End(p, how)
  PROVE  cmd'[p].at = "idle" /\ said' = how
  BY EndIs, IdleIs DEF TypeOK, End

LEMMA UndoneEnds ==
  ASSUME TypeOK, NEW p \in Procs, NEW bad, Undone(p, bad)
  PROVE  \/ bad /\ cmd'[p].at = "idle" /\ said' = "failed" /\ broken'
         \/ ~bad /\ Moves(p, "idle") /\ said' = "restored" /\ broken' = broken
<1>1. cmd \in [Procs -> Command]
  BY DEF TypeOK
<1>2. CASE bad
  BY <1>2, EndEnds DEF Undone
<1>3. CASE ~bad
  BY <1>1, <1>3 DEF Undone, Moves, Command
<1> QED
  BY <1>2, <1>3

\* What each step does, in terms of the command's record.
LEMMA SetupReadIs ==
  ASSUME TypeOK, NEW p \in Procs, SetupRead(p)
  PROVE  /\ cmd[p].at = "idle" /\ cmd'[p].at = "setup plan" /\ cmd'[p].old = config
         /\ said' = "nothing" /\ UNCHANGED <<config, manifest, service, manager, saved>>
         /\ UNCHANGED <<touched, raced, broken, killed>>
  BY DEF SetupRead, TypeOK, Idle, At, files, user

LEMMA SetupPlanIs ==
  ASSUME TypeOK, NEW p \in Procs, SetupPlan(p), NEW c, c = Contents(cmd[p].old)
  PROVE  /\ cmd[p].at = "setup plan" /\ UNCHANGED <<config, manifest, service, manager, saved>>
         /\ UNCHANGED <<touched, raced, broken, killed>>
         /\ \/ cmd'[p].at = "idle" /\ said' \in {"refused", "setup ok"}
            \/ /\ cmd'[p].at = "setup reconcile" /\ cmd'[p].old = cmd[p].old
               /\ cmd'[p].man = PlanKept(c) /\ said' = said
               /\ Verified(PlanKept(c), c) /\ Migrate(PlanManifest, c) = {}
            \/ /\ cmd'[p].at = "setup backup" /\ cmd'[p].old = cmd[p].old
               /\ cmd'[p].man = PlanMan(c) /\ cmd'[p].next = PlanNext(c) /\ said' = said
               /\ Verified(PlanKept(c), c)
<1>1. cmd \in [Procs -> Command] /\ cmd[p].at = "setup plan"
  BY DEF TypeOK, SetupPlan, At
<1>2. UNCHANGED <<config, manifest, service, manager, saved, touched, raced, broken, killed>>
  BY DEF SetupPlan, files, user
<1>3. CASE End(p, "refused") \/ End(p, "setup ok")
  BY <1>1, <1>2, <1>3, EndEnds
<1>4. CASE /\ cmd' = [cmd EXCEPT ![p].at = "setup reconcile", ![p].man = PlanKept(c)]
           /\ Verified(PlanKept(c), c) /\ Migrate(PlanManifest, c) = {} /\ said' = said
  <2>1. cmd'[p].at = "setup reconcile" /\ cmd'[p].old = cmd[p].old /\ cmd'[p].man = PlanKept(c)
    BY <1>1, <1>4 DEF Command
  <2> QED
    BY <1>1, <1>2, <1>4, <2>1
<1>5. CASE /\ cmd' = [cmd EXCEPT ![p].at = "setup backup", ![p].man = PlanMan(c),
                                 ![p].next = PlanNext(c)]
           /\ Verified(PlanKept(c), c) /\ said' = said
  <2>1. /\ cmd'[p].at = "setup backup" /\ cmd'[p].old = cmd[p].old
        /\ cmd'[p].man = PlanMan(c) /\ cmd'[p].next = PlanNext(c)
    BY <1>1, <1>5 DEF Command
  <2> QED
    BY <1>1, <1>2, <1>5, <2>1
<1> QED
  BY <1>3, <1>4, <1>5, SetupPlanCases

LEMMA StartReadIs ==
  ASSUME TypeOK, NEW p \in Procs, StartRead(p)
  PROVE  /\ cmd[p].at = "idle" /\ UNCHANGED <<config, manifest, service, manager, saved>>
         /\ UNCHANGED <<touched, raced, broken, killed>>
         /\ \/ cmd'[p] = cmd[p] /\ said' = "refused"
            \/ /\ said' = "nothing" /\ manifest # NoManifest
               /\ service = IF manifest.service THEN "ours" ELSE "none"
               /\ cmd'[p].at = IF manifest.service THEN "start manager" ELSE "start write"
               /\ cmd'[p].man = [manifest EXCEPT !.service = TRUE]
<1>1. cmd \in [Procs -> Command]
  BY DEF TypeOK
<1> QED
  BY <1>1 DEF StartRead, Startable, Idle, At, files, user

LEMMA RemoveReadIs ==
  ASSUME TypeOK, NEW p \in Procs, RemoveRead(p)
  PROVE  /\ cmd[p].at = "idle" /\ UNCHANGED <<config, manifest, service, manager, saved>>
         /\ UNCHANGED <<touched, raced, broken, killed>>
         /\ \/ cmd'[p] = cmd[p] /\ said' = "refused"
            \/ /\ said' = "nothing" /\ manifest # NoManifest
               /\ cmd'[p].at = "remove plan" /\ cmd'[p].man = manifest
<1>1. cmd \in [Procs -> Command]
  BY DEF TypeOK
<1> QED
  BY <1>1 DEF RemoveRead, Idle, At, files, user

LEMMA RemovePlanIs ==
  ASSUME InstallAssumption, TypeOK, NEW p \in Procs, RemovePlan(p)
  PROVE  /\ cmd[p].at = "remove plan" /\ UNCHANGED <<config, manifest, service, manager, saved>>
         /\ UNCHANGED <<touched, raced, broken, killed>>
         /\ \/ cmd'[p].at = "idle" /\ said' = "refused"
            \/ /\ said' = said /\ config \in Config /\ Verified(cmd[p].man, config)
               /\ cmd[p].man.service => service = "ours"
               /\ cmd'[p].at = IF cmd[p].man.service THEN "remove stop" ELSE "remove backup"
               /\ cmd'[p].old = config /\ cmd'[p].mgr = manager /\ cmd'[p].man = cmd[p].man
               /\ cmd'[p].next = [config EXCEPT !.entry =
                     [s \in Slots |-> IF s \in cmd[p].man.blocks THEN "none" ELSE @[s]]]
<1>1. /\ cmd[p].at = "remove plan" /\ UNCHANGED <<config, manifest, service, manager, saved>>
      /\ UNCHANGED <<touched, raced, broken, killed>>
  BY DEF RemovePlan, At, files, user
<1>2. CASE End(p, "refused")
  BY <1>1, <1>2, EndEnds
<1> QED
  BY <1>1, <1>2, RemovePlanCases

LEMMA RemoveStopIs ==
  ASSUME TypeOK, NEW p \in Procs, RemoveStop(p)
  PROVE  /\ cmd[p].at = "remove stop" /\ UNCHANGED <<config, manifest, service, saved>>
         /\ UNCHANGED <<touched, raced, broken, killed>>
         /\ \/ /\ manager' = Off /\ service # "none" /\ said' = said
               /\ cmd'[p].at = "remove backup" /\ cmd'[p].file = service
               /\ cmd'[p].old = cmd[p].old /\ cmd'[p].next = cmd[p].next
               /\ cmd'[p].man = cmd[p].man /\ cmd'[p].mgr = cmd[p].mgr
            \/ cmd'[p].at = "idle" /\ said' = "failed"
<1>1. cmd \in [Procs -> Command]
  BY DEF TypeOK
<1>2. /\ cmd[p].at = "remove stop" /\ UNCHANGED <<config, manifest, service, saved>>
      /\ UNCHANGED <<touched, raced, broken, killed>>
  BY DEF RemoveStop, At, user
<1>3. CASE End(p, "failed")
  BY <1>2, <1>3, EndEnds
<1>4. CASE /\ manager' = Off /\ service # "none" /\ said' = said
           /\ cmd' = [cmd EXCEPT ![p].at = "remove backup", ![p].file = service]
  <2>1. /\ cmd'[p].at = "remove backup" /\ cmd'[p].file = service
        /\ cmd'[p].old = cmd[p].old /\ cmd'[p].next = cmd[p].next
        /\ cmd'[p].man = cmd[p].man /\ cmd'[p].mgr = cmd[p].mgr
    BY <1>1, <1>4 DEF Command
  <2> QED
    BY <1>2, <1>4, <2>1
<1> QED
  BY <1>3, <1>4 DEF RemoveStop

LEMMA RestoreConfigIs ==
  ASSUME TypeOK, NEW p \in Procs, RestoreConfig(p)
  PROVE  /\ cmd[p].at = "restore config" /\ UNCHANGED <<manifest, service, manager, saved>>
         /\ UNCHANGED <<touched, raced, killed>>
         /\ \/ /\ cmd[p].man.service /\ cmd'[p].at = "restore service"
               /\ cmd'[p].old = cmd[p].old /\ cmd'[p].man = cmd[p].man
               /\ cmd'[p].mgr = cmd[p].mgr /\ cmd'[p].file = cmd[p].file
               /\ config' = cmd[p].old \/ cmd'[p].bad
               /\ said' = said /\ broken' = broken
            \/ /\ ~cmd[p].man.service /\ config' = cmd[p].old
               /\ Moves(p, "idle") /\ said' = "restored" /\ broken' = broken
            \/ cmd'[p].at = "idle" /\ said' = "failed" /\ broken'
<1>1. cmd \in [Procs -> Command]
  BY DEF TypeOK
<1>2. /\ cmd[p].at = "restore config" /\ UNCHANGED <<manifest, service, manager, saved>>
      /\ UNCHANGED <<touched, raced, killed>>
  BY DEF RestoreConfig, At, user
<1> PICK fails \in BOOLEAN :
       /\ config' = IF fails THEN config ELSE cmd[p].old
       /\ IF cmd[p].man.service
          THEN /\ cmd' = [cmd EXCEPT ![p].at = "restore service", ![p].bad = fails]
               /\ UNCHANGED <<said, broken>>
          ELSE Undone(p, fails)
  BY DEF RestoreConfig
<1>3. CASE cmd[p].man.service
  <2>1. /\ cmd'[p].at = "restore service" /\ cmd'[p].old = cmd[p].old /\ cmd'[p].man = cmd[p].man
        /\ cmd'[p].mgr = cmd[p].mgr /\ cmd'[p].file = cmd[p].file /\ cmd'[p].bad = fails
    <3>1. cmd' = [cmd EXCEPT ![p].at = "restore service", ![p].bad = fails]
      BY <1>3
    <3> QED
      BY <1>1, <3>1 DEF Command
  <2> QED
    BY <1>2, <1>3, <2>1
<1>4. CASE ~cmd[p].man.service
  BY <1>2, <1>4, UndoneEnds
<1> QED
  BY <1>3, <1>4

LEMMA SetupReconcileIs ==
  ASSUME TypeOK, NEW p \in Procs, SetupReconcile(p)
  PROVE  /\ cmd[p].at = "setup reconcile" /\ UNCHANGED <<config, service, manager, saved>>
         /\ UNCHANGED <<touched, raced, broken, killed>> /\ cmd'[p].at = "idle"
         /\ \/ manifest' = cmd[p].man /\ said' = "setup ok"
            \/ manifest' = manifest /\ said' = "failed"
  BY EndEnds DEF SetupReconcile, At, user

LEMMA SetupBackupIs ==
  ASSUME TypeOK, NEW p \in Procs, SetupBackup(p)
  PROVE  /\ cmd[p].at = "setup backup" /\ UNCHANGED <<config, manifest, service, manager>>
         /\ UNCHANGED <<touched, raced, broken, killed>>
         /\ \/ /\ saved' = IF config = NoFile THEN saved ELSE Contents(cmd[p].old)
               /\ Moves(p, "setup write") /\ said' = said
            \/ cmd'[p].at = "idle" /\ said' = "failed"
  BY GoMoves, EndEnds DEF SetupBackup, At, user

LEMMA SetupWriteIs ==
  ASSUME TypeOK, NEW p \in Procs, SetupWrite(p)
  PROVE  /\ cmd[p].at = "setup write" /\ UNCHANGED <<manifest, service, manager, saved>>
         /\ UNCHANGED <<touched, raced, broken, killed>>
         /\ \/ config' = cmd[p].next /\ Moves(p, "setup record") /\ said' = said
            \/ config' = config /\ cmd'[p].at = "idle" /\ said' = "failed"
  BY GoMoves, EndEnds DEF SetupWrite, At, user

LEMMA SetupRecordIs ==
  ASSUME TypeOK, NEW p \in Procs, SetupRecord(p)
  PROVE  /\ cmd[p].at = "setup record" /\ UNCHANGED <<config, service, manager, saved>>
         /\ UNCHANGED <<touched, raced, broken, killed>>
         /\ \/ manifest' = cmd[p].man /\ cmd'[p].at = "idle" /\ said' = "setup ok"
            \/ manifest' = manifest /\ Moves(p, "setup undo") /\ said' = said
  BY GoMoves, EndEnds DEF SetupRecord, At, user

LEMMA SetupUndoIs ==
  ASSUME TypeOK, NEW p \in Procs, SetupUndo(p)
  PROVE  /\ cmd[p].at = "setup undo" /\ UNCHANGED <<manifest, service, manager, saved>>
         /\ UNCHANGED <<touched, raced, killed>> /\ cmd'[p].at = "idle" /\ said' = "failed"
         /\ (config' = Contents(cmd[p].old) /\ broken' = broken) \/ broken'
  BY EndEnds DEF SetupUndo, At, user

LEMMA StartWriteIs ==
  ASSUME TypeOK, NEW p \in Procs, StartWrite(p)
  PROVE  /\ cmd[p].at = "start write" /\ UNCHANGED <<config, manifest, manager, saved>>
         /\ UNCHANGED <<touched, raced, broken, killed>>
         /\ \/ service' = "ours" /\ Moves(p, "start record") /\ said' = said
            \/ service' = service /\ cmd'[p].at = "idle" /\ said' = "failed"
  BY GoMoves, EndEnds DEF StartWrite, At, user

LEMMA StartRecordIs ==
  ASSUME TypeOK, NEW p \in Procs, StartRecord(p)
  PROVE  /\ cmd[p].at = "start record" /\ UNCHANGED <<config, service, manager, saved>>
         /\ UNCHANGED <<touched, raced, broken, killed>> /\ said' = said
         /\ \/ manifest' = cmd[p].man /\ Moves(p, "start manager")
            \/ manifest' = manifest /\ Moves(p, "start undo")
  BY GoMoves DEF StartRecord, At, user

LEMMA StartUndoIs ==
  ASSUME TypeOK, NEW p \in Procs, StartUndo(p)
  PROVE  /\ cmd[p].at = "start undo" /\ UNCHANGED <<config, manifest, manager, saved>>
         /\ UNCHANGED <<touched, raced, killed>> /\ cmd'[p].at = "idle" /\ said' = "failed"
         /\ (service' = "none" /\ broken' = broken) \/ broken'
  BY EndEnds DEF StartUndo, At, user

LEMMA StartManagerIs ==
  ASSUME TypeOK, NEW p \in Procs, StartManager(p)
  PROVE  /\ cmd[p].at = "start manager" /\ UNCHANGED <<config, manifest, service, saved>>
         /\ UNCHANGED <<touched, raced, broken, killed>>
         /\ cmd'[p].at = "idle" /\ said' \in {"start ok", "failed"}
  BY EndEnds DEF StartManager, At, user

LEMMA StopOrRestartIs ==
  ASSUME TypeOK, NEW p \in Procs, StopOrRestart(p)
  PROVE  /\ cmd[p].at = "idle" /\ UNCHANGED <<config, manifest, service, saved>>
         /\ UNCHANGED <<touched, raced, broken, killed>> /\ cmd' = cmd /\ said' = "nothing"
  BY DEF StopOrRestart, At, user

LEMMA RemoveBackupIs ==
  ASSUME TypeOK, NEW p \in Procs, RemoveBackup(p)
  PROVE  /\ cmd[p].at = "remove backup" /\ UNCHANGED <<config, manifest, service, manager>>
         /\ UNCHANGED <<touched, raced, broken, killed>> /\ said' = said
         /\ \/ /\ saved' = IF config = NoFile THEN saved ELSE cmd[p].old
               /\ Moves(p, "remove write")
            \/ Moves(p, "restore config")
  BY GoMoves DEF RemoveBackup, At, user

LEMMA RemoveWriteIs ==
  ASSUME TypeOK, NEW p \in Procs, RemoveWrite(p)
  PROVE  /\ cmd[p].at = "remove write" /\ UNCHANGED <<manifest, service, manager, saved>>
         /\ UNCHANGED <<touched, raced, broken, killed>> /\ said' = said
         /\ \/ /\ config' = cmd[p].next
               /\ \/ cmd[p].man.service /\ Moves(p, "remove service")
                  \/ ~cmd[p].man.service /\ Moves(p, "remove manifest")
            \/ config' = config /\ Moves(p, "restore config")
  BY GoMoves DEF RemoveWrite, At, user

LEMMA RemoveServiceIs ==
  ASSUME TypeOK, NEW p \in Procs, RemoveService(p)
  PROVE  /\ cmd[p].at = "remove service" /\ UNCHANGED <<config, manifest, manager, saved>>
         /\ UNCHANGED <<touched, raced, broken, killed>> /\ said' = said
         /\ \/ service' = "none" /\ Moves(p, "remove manifest")
            \/ Moves(p, "restore config")
  BY GoMoves DEF RemoveService, At, user

LEMMA RemoveManifestIs ==
  ASSUME TypeOK, NEW p \in Procs, RemoveManifest(p)
  PROVE  /\ cmd[p].at = "remove manifest" /\ UNCHANGED <<config, service, manager, saved>>
         /\ UNCHANGED <<touched, raced, broken, killed>>
         /\ \/ manifest' = NoManifest /\ cmd'[p].at = "idle" /\ said' = "uninstalled"
            \/ manifest' = manifest /\ Moves(p, "restore config") /\ said' = said
  BY GoMoves, EndEnds DEF RemoveManifest, At, user

LEMMA RestoreServiceIs ==
  ASSUME TypeOK, NEW p \in Procs, RestoreService(p)
  PROVE  /\ cmd[p].at = "restore service" /\ UNCHANGED <<config, manifest, manager, saved>>
         /\ UNCHANGED <<touched, raced, killed>>
         /\ \/ /\ service' = cmd[p].file /\ Moves(p, "restore manager")
               /\ said' = said /\ broken' = broken
            \/ cmd'[p].at = "idle" /\ said' = "failed" /\ broken'
  BY GoMoves, UndoneEnds DEF RestoreService, At, user

LEMMA RestoreManagerIs ==
  ASSUME TypeOK, NEW p \in Procs, RestoreManager(p)
  PROVE  /\ cmd[p].at = "restore manager" /\ UNCHANGED <<config, manifest, service, saved>>
         /\ UNCHANGED <<touched, raced, killed>>
         /\ \/ /\ manager' = [[manager EXCEPT !.enabled = @ \/ cmd[p].mgr.enabled]
                                EXCEPT !.active = @ \/ cmd[p].mgr.active]
               /\ ~cmd[p].bad /\ Moves(p, "idle") /\ said' = "restored" /\ broken' = broken
            \/ cmd'[p].at = "idle" /\ said' = "failed" /\ broken'
<1>1. /\ cmd[p].at = "restore manager" /\ UNCHANGED <<config, manifest, service, saved>>
      /\ UNCHANGED <<touched, raced, killed>>
  BY DEF RestoreManager, At, user
<1>2. \/ /\ manager' = [[manager EXCEPT !.enabled = @ \/ cmd[p].mgr.enabled]
                          EXCEPT !.active = @ \/ cmd[p].mgr.active]
         /\ Undone(p, cmd[p].bad)
      \/ Undone(p, TRUE)
  BY DEF RestoreManager
<1>3. Undone(p, TRUE) => cmd'[p].at = "idle" /\ said' = "failed" /\ broken'
  BY UndoneEnds
<1>4. Undone(p, cmd[p].bad) =>
         \/ cmd'[p].at = "idle" /\ said' = "failed" /\ broken'
         \/ ~cmd[p].bad /\ Moves(p, "idle") /\ said' = "restored" /\ broken' = broken
  BY UndoneEnds
<1> QED
  BY <1>1, <1>2, <1>3, <1>4

LEMMA KillIs ==
  ASSUME TypeOK, NEW p \in Procs, Kill(p)
  PROVE  /\ UNCHANGED <<config, manifest, service, manager, saved>>
         /\ UNCHANGED <<touched, raced, broken>> /\ killed'
         /\ cmd'[p].at = "idle" /\ said' = "killed"
  BY EndEnds DEF Kill, files

-----------------------------------------------------------------------------
\* The steps of uninstall after the service is stopped.
Stopped == Removing \ {"remove stop"}

\* The steps at which the memory of the config is the config, and the backup too.
BackupInv(p) ==
  ~raced =>
    /\ cmd[p].at \in {"setup plan", "setup backup", "remove stop", "remove backup"} =>
         cmd[p].old = config
    /\ cmd[p].at = "setup write" /\ config # NoFile => saved = config
    /\ cmd[p].at = "remove write" => saved = config

\* What a command has read of the manifest stays true of it.
ManifestInv(p) ==
  /\ cmd[p].at \in Removing \cup {"remove plan"} => manifest = cmd[p].man
  /\ cmd[p].at \in Removing => Verified(cmd[p].man, cmd[p].old)
  /\ cmd[p].at \in {"start write", "start record"} =>
       manifest # NoManifest /\ manifest.blocks = cmd[p].man.blocks

\* An uninstall that owns the service file has it, and knows it was the bridge's.
FileInv(p) ==
  (~raced \/ ServiceFile \notin touched) /\ cmd[p].man.service =>
    /\ cmd[p].at = "remove stop" => service = "ours"
    /\ cmd[p].at \in Stopped => cmd[p].file = "ours"

\* It works on the files of a service it has stopped and disabled.
ManagerInv(p) == cmd[p].at \in Stopped /\ cmd[p].man.service => manager = Off

\* What uninstall has restored is what it found.
AsBefore(p) ==
  /\ config = cmd[p].old /\ manifest = cmd[p].man /\ Verified(manifest, config)
  /\ manifest.service => service = "ours" /\ manager = cmd[p].mgr

RestoredInv(p) ==
  /\ cmd[p].at # "idle" => said # "restored"
  /\ ~raced =>
       /\ cmd[p].at \in {"restore service", "restore manager"} /\ ~cmd[p].bad => config = cmd[p].old
       /\ cmd[p].at = "restore manager" => service = "ours"
       /\ said = "restored" => AsBefore(p)

\* The manifest owns the service file exactly when it is there, or at the steps
\* between the two writes the command knows which of them it did.
Listed == manifest # NoManifest /\ manifest.service
Agree  == service = "ours" <=> Listed

SetupSteps == {"setup reconcile", "setup backup", "setup write", "setup record", "setup undo"}

AgreeInv(p) ==
  /\ cmd[p].at \in {"start write", "start record"} => cmd[p].man.service
  /\ ~broken /\ ~killed /\ ServiceFile \notin touched =>
       /\ cmd[p].at \in SetupSteps \cup {"idle", "setup plan", "remove plan", "start manager",
            "remove stop", "remove backup", "remove write", "restore manager"} => Agree
       /\ cmd[p].at \in SetupSteps => (cmd[p].man.service <=> Listed)
       /\ cmd[p].at = "start write" => service = "none" /\ ~Listed
       /\ cmd[p].at \in {"start record", "start undo"} => service = "ours" /\ ~Listed
       /\ cmd[p].at = "remove manifest" => service # "ours"
       /\ cmd[p].at = "restore config" /\ ~cmd[p].man.service => Agree

\* The manifest m owns exactly the bridge's blocks of c, but for those the user touched.
Good(c, m, t) ==
  /\ \A s \in Slots : c.entry[s] = "ours" => m # NoManifest /\ s \in m.blocks
  /\ m # NoManifest => \A s \in m.blocks : c.entry[s] = "ours" \/ s \in t

OursWithin(c, d) == \A s \in Slots : c.entry[s] = "ours" => d.entry[s] = "ours"

\* The steps between which no block is written without its record.
Whole == {"idle", "setup plan", "setup reconcile", "setup backup", "setup write",
          "start write", "start record", "start undo", "start manager",
          "remove plan", "remove stop", "remove backup", "remove write"}

\* There the manifest on disk owns exactly the blocks on disk; elsewhere what the
\* command is about to write owns what it has just written.
BlocksInv(p) ==
  ~broken /\ ~killed =>
    /\ cmd[p].at \in Whole => Good(Contents(config), manifest, touched)
    /\ cmd[p].at \in {"restore service", "restore manager"} /\ ~cmd[p].bad =>
         Good(Contents(config), manifest, touched)
    /\ cmd[p].at \in UsesOld => Good(Contents(cmd[p].old), manifest, touched)
    /\ cmd[p].at = "setup plan" => OursWithin(Contents(config), Contents(cmd[p].old))
    /\ cmd[p].at \in {"setup reconcile", "setup record"} => Good(Contents(config), cmd[p].man, touched)
    /\ cmd[p].at \in {"setup backup", "setup write"} => Good(cmd[p].next, cmd[p].man, touched)
    /\ cmd[p].at \in {"remove stop", "remove backup", "remove write"} =>
         Good(cmd[p].next, NoManifest, touched)
    /\ cmd[p].at \in {"remove service", "remove manifest"} => Good(Contents(config), NoManifest, touched)

\* Each part is kept by every step of the command.
LEMMA BackupAct ==
  ASSUME NEW p \in Procs, Act(p), BackupInv(p),
         InstallAssumption, TypeOK, Present
  PROVE  BackupInv(p)'
<1> USE DEF Moves, BackupInv, Contents
<1>1. CASE SetupRead(p)
  BY <1>1, SetupReadIs
<1>2. CASE SetupPlan(p)
  BY <1>2, SetupPlanIs
<1>3. CASE SetupReconcile(p)
  BY <1>3, SetupReconcileIs
<1>4. CASE SetupBackup(p)
  BY <1>4, SetupBackupIs
<1>5. CASE SetupWrite(p)
  BY <1>5, SetupWriteIs
<1>6. CASE SetupRecord(p)
  BY <1>6, SetupRecordIs
<1>7. CASE SetupUndo(p)
  BY <1>7, SetupUndoIs
<1>8. CASE StartRead(p)
  BY <1>8, StartReadIs
<1>9. CASE StartWrite(p)
  BY <1>9, StartWriteIs
<1>10. CASE StartRecord(p)
  BY <1>10, StartRecordIs
<1>11. CASE StartUndo(p)
  BY <1>11, StartUndoIs
<1>12. CASE StartManager(p)
  BY <1>12, StartManagerIs
<1>13. CASE StopOrRestart(p)
  BY <1>13, StopOrRestartIs
<1>14. CASE RemoveRead(p)
  BY <1>14, RemoveReadIs
<1>15. CASE RemovePlan(p)
  BY <1>15, RemovePlanIs
<1>16. CASE RemoveStop(p)
  BY <1>16, RemoveStopIs
<1>17. CASE RemoveBackup(p)
  <2>1. cmd[p].old # NoFile
    BY <1>17, RemoveBackupIs DEF Present, Removing
  <2> QED
    BY <1>17, <2>1, RemoveBackupIs
<1>18. CASE RemoveWrite(p)
  BY <1>18, RemoveWriteIs
<1>19. CASE RemoveService(p)
  BY <1>19, RemoveServiceIs
<1>20. CASE RemoveManifest(p)
  BY <1>20, RemoveManifestIs
<1>21. CASE RestoreConfig(p)
  BY <1>21, RestoreConfigIs
<1>22. CASE RestoreService(p)
  BY <1>22, RestoreServiceIs
<1>23. CASE RestoreManager(p)
  BY <1>23, RestoreManagerIs
<1>24. CASE Kill(p)
  BY <1>24, KillIs
<1> QED
  BY <1>1, <1>2, <1>3, <1>4, <1>5, <1>6, <1>7, <1>8, <1>9, <1>10, <1>11, <1>12, <1>13, <1>14, <1>15, <1>16, <1>17, <1>18, <1>19, <1>20, <1>21, <1>22, <1>23, <1>24
     DEF Act, Setup, Start, Uninstall

LEMMA ManifestAct ==
  ASSUME NEW p \in Procs, Act(p), ManifestInv(p),
         InstallAssumption, TypeOK
  PROVE  ManifestInv(p)'
<1> USE DEF Moves, ManifestInv, Removing
<1>1. CASE SetupRead(p)
  BY <1>1, SetupReadIs
<1>2. CASE SetupPlan(p)
  BY <1>2, SetupPlanIs
<1>3. CASE SetupReconcile(p)
  BY <1>3, SetupReconcileIs
<1>4. CASE SetupBackup(p)
  BY <1>4, SetupBackupIs
<1>5. CASE SetupWrite(p)
  BY <1>5, SetupWriteIs
<1>6. CASE SetupRecord(p)
  BY <1>6, SetupRecordIs
<1>7. CASE SetupUndo(p)
  BY <1>7, SetupUndoIs
<1>8. CASE StartRead(p)
  <2>1. manifest # NoManifest => [manifest EXCEPT !.service = TRUE].blocks = manifest.blocks
    BY DEF TypeOK, Manifest
  <2> QED
    BY <1>8, <2>1, StartReadIs
<1>9. CASE StartWrite(p)
  BY <1>9, StartWriteIs
<1>10. CASE StartRecord(p)
  BY <1>10, StartRecordIs
<1>11. CASE StartUndo(p)
  BY <1>11, StartUndoIs
<1>12. CASE StartManager(p)
  BY <1>12, StartManagerIs
<1>13. CASE StopOrRestart(p)
  BY <1>13, StopOrRestartIs
<1>14. CASE RemoveRead(p)
  BY <1>14, RemoveReadIs
<1>15. CASE RemovePlan(p)
  BY <1>15, RemovePlanIs
<1>16. CASE RemoveStop(p)
  BY <1>16, RemoveStopIs
<1>17. CASE RemoveBackup(p)
  BY <1>17, RemoveBackupIs
<1>18. CASE RemoveWrite(p)
  BY <1>18, RemoveWriteIs
<1>19. CASE RemoveService(p)
  BY <1>19, RemoveServiceIs
<1>20. CASE RemoveManifest(p)
  BY <1>20, RemoveManifestIs
<1>21. CASE RestoreConfig(p)
  BY <1>21, RestoreConfigIs
<1>22. CASE RestoreService(p)
  BY <1>22, RestoreServiceIs
<1>23. CASE RestoreManager(p)
  BY <1>23, RestoreManagerIs
<1>24. CASE Kill(p)
  BY <1>24, KillIs
<1> QED
  BY <1>1, <1>2, <1>3, <1>4, <1>5, <1>6, <1>7, <1>8, <1>9, <1>10, <1>11, <1>12, <1>13, <1>14, <1>15, <1>16, <1>17, <1>18, <1>19, <1>20, <1>21, <1>22, <1>23, <1>24
     DEF Act, Setup, Start, Uninstall

LEMMA FileAct ==
  ASSUME NEW p \in Procs, Act(p), FileInv(p),
         InstallAssumption, TypeOK
  PROVE  FileInv(p)'
<1> USE DEF Moves, FileInv, Removing, Stopped
<1>1. CASE SetupRead(p)
  BY <1>1, SetupReadIs
<1>2. CASE SetupPlan(p)
  BY <1>2, SetupPlanIs
<1>3. CASE SetupReconcile(p)
  BY <1>3, SetupReconcileIs
<1>4. CASE SetupBackup(p)
  BY <1>4, SetupBackupIs
<1>5. CASE SetupWrite(p)
  BY <1>5, SetupWriteIs
<1>6. CASE SetupRecord(p)
  BY <1>6, SetupRecordIs
<1>7. CASE SetupUndo(p)
  BY <1>7, SetupUndoIs
<1>8. CASE StartRead(p)
  BY <1>8, StartReadIs
<1>9. CASE StartWrite(p)
  BY <1>9, StartWriteIs
<1>10. CASE StartRecord(p)
  BY <1>10, StartRecordIs
<1>11. CASE StartUndo(p)
  BY <1>11, StartUndoIs
<1>12. CASE StartManager(p)
  BY <1>12, StartManagerIs
<1>13. CASE StopOrRestart(p)
  BY <1>13, StopOrRestartIs
<1>14. CASE RemoveRead(p)
  BY <1>14, RemoveReadIs
<1>15. CASE RemovePlan(p)
  BY <1>15, RemovePlanIs
<1>16. CASE RemoveStop(p)
  BY <1>16, RemoveStopIs
<1>17. CASE RemoveBackup(p)
  BY <1>17, RemoveBackupIs
<1>18. CASE RemoveWrite(p)
  BY <1>18, RemoveWriteIs
<1>19. CASE RemoveService(p)
  BY <1>19, RemoveServiceIs
<1>20. CASE RemoveManifest(p)
  BY <1>20, RemoveManifestIs
<1>21. CASE RestoreConfig(p)
  BY <1>21, RestoreConfigIs
<1>22. CASE RestoreService(p)
  BY <1>22, RestoreServiceIs
<1>23. CASE RestoreManager(p)
  BY <1>23, RestoreManagerIs
<1>24. CASE Kill(p)
  BY <1>24, KillIs
<1> QED
  BY <1>1, <1>2, <1>3, <1>4, <1>5, <1>6, <1>7, <1>8, <1>9, <1>10, <1>11, <1>12, <1>13, <1>14, <1>15, <1>16, <1>17, <1>18, <1>19, <1>20, <1>21, <1>22, <1>23, <1>24
     DEF Act, Setup, Start, Uninstall

LEMMA ManagerAct ==
  ASSUME NEW p \in Procs, Act(p), ManagerInv(p),
         InstallAssumption, TypeOK
  PROVE  ManagerInv(p)'
<1> USE DEF Moves, ManagerInv, Removing, Stopped
<1>1. CASE SetupRead(p)
  BY <1>1, SetupReadIs
<1>2. CASE SetupPlan(p)
  BY <1>2, SetupPlanIs
<1>3. CASE SetupReconcile(p)
  BY <1>3, SetupReconcileIs
<1>4. CASE SetupBackup(p)
  BY <1>4, SetupBackupIs
<1>5. CASE SetupWrite(p)
  BY <1>5, SetupWriteIs
<1>6. CASE SetupRecord(p)
  BY <1>6, SetupRecordIs
<1>7. CASE SetupUndo(p)
  BY <1>7, SetupUndoIs
<1>8. CASE StartRead(p)
  BY <1>8, StartReadIs
<1>9. CASE StartWrite(p)
  BY <1>9, StartWriteIs
<1>10. CASE StartRecord(p)
  BY <1>10, StartRecordIs
<1>11. CASE StartUndo(p)
  BY <1>11, StartUndoIs
<1>12. CASE StartManager(p)
  BY <1>12, StartManagerIs
<1>13. CASE StopOrRestart(p)
  BY <1>13, StopOrRestartIs
<1>14. CASE RemoveRead(p)
  BY <1>14, RemoveReadIs
<1>15. CASE RemovePlan(p)
  BY <1>15, RemovePlanIs
<1>16. CASE RemoveStop(p)
  BY <1>16, RemoveStopIs
<1>17. CASE RemoveBackup(p)
  BY <1>17, RemoveBackupIs
<1>18. CASE RemoveWrite(p)
  BY <1>18, RemoveWriteIs
<1>19. CASE RemoveService(p)
  BY <1>19, RemoveServiceIs
<1>20. CASE RemoveManifest(p)
  BY <1>20, RemoveManifestIs
<1>21. CASE RestoreConfig(p)
  BY <1>21, RestoreConfigIs
<1>22. CASE RestoreService(p)
  BY <1>22, RestoreServiceIs
<1>23. CASE RestoreManager(p)
  BY <1>23, RestoreManagerIs
<1>24. CASE Kill(p)
  BY <1>24, KillIs
<1> QED
  BY <1>1, <1>2, <1>3, <1>4, <1>5, <1>6, <1>7, <1>8, <1>9, <1>10, <1>11, <1>12, <1>13, <1>14, <1>15, <1>16, <1>17, <1>18, <1>19, <1>20, <1>21, <1>22, <1>23, <1>24
     DEF Act, Setup, Start, Uninstall

LEMMA PlanService ==
  ASSUME TypeOK, NEW c
  PROVE  (PlanKept(c).service <=> Listed) /\ (PlanMan(c).service <=> Listed)
<1>1. PlanManifest \in Manifest
  BY DEF TypeOK, PlanManifest, Fresh, Manifest
<1>2. PlanKept(c).service = PlanManifest.service /\ PlanMan(c).service = PlanManifest.service
  BY <1>1 DEF PlanKept, PlanMan, Manifest
<1>3. PlanManifest.service <=> Listed
  BY DEF PlanManifest, Listed, Fresh
<1> QED
  BY <1>2, <1>3

LEMMA ManagerRestored ==
  ASSUME TypeOK, NEW p \in Procs, manager = Off,
         manager' = [[manager EXCEPT !.enabled = @ \/ cmd[p].mgr.enabled]
                       EXCEPT !.active = @ \/ cmd[p].mgr.active]
  PROVE  manager' = cmd[p].mgr
<1> DEFINE m == cmd[p].mgr
<1>1. m \in [active : BOOLEAN, enabled : BOOLEAN]
  BY DEF TypeOK, Command, Manager
<1>2. manager' = [active |-> FALSE \/ m.active, enabled |-> FALSE \/ m.enabled]
  BY DEF Off
<1>3. (FALSE \/ m.active) = m.active /\ (FALSE \/ m.enabled) = m.enabled
  BY <1>1
<1>4. m = [active |-> m.active, enabled |-> m.enabled]
  BY <1>1
<1> QED
  BY <1>2, <1>3, <1>4

LEMMA RestoredAct ==
  ASSUME NEW p \in Procs, Act(p), RestoredInv(p),
         InstallAssumption, TypeOK, ServiceInv, ManifestInv(p), FileInv(p), ManagerInv(p)
  PROVE  RestoredInv(p)'
<1> USE DEF Moves, RestoredInv
<1>1. CASE SetupRead(p)
  BY <1>1, SetupReadIs
<1>2. CASE SetupPlan(p)
  BY <1>2, SetupPlanIs
<1>3. CASE SetupReconcile(p)
  BY <1>3, SetupReconcileIs
<1>4. CASE SetupBackup(p)
  BY <1>4, SetupBackupIs
<1>5. CASE SetupWrite(p)
  BY <1>5, SetupWriteIs
<1>6. CASE SetupRecord(p)
  BY <1>6, SetupRecordIs
<1>7. CASE SetupUndo(p)
  BY <1>7, SetupUndoIs
<1>8. CASE StartRead(p)
  BY <1>8, StartReadIs
<1>9. CASE StartWrite(p)
  BY <1>9, StartWriteIs
<1>10. CASE StartRecord(p)
  BY <1>10, StartRecordIs
<1>11. CASE StartUndo(p)
  BY <1>11, StartUndoIs
<1>12. CASE StartManager(p)
  BY <1>12, StartManagerIs
<1>13. CASE StopOrRestart(p)
  BY <1>13, StopOrRestartIs
<1>14. CASE RemoveRead(p)
  BY <1>14, RemoveReadIs
<1>15. CASE RemovePlan(p)
  BY <1>15, RemovePlanIs
<1>16. CASE RemoveStop(p)
  BY <1>16, RemoveStopIs
<1>17. CASE RemoveBackup(p)
  BY <1>17, RemoveBackupIs
<1>18. CASE RemoveWrite(p)
  BY <1>18, RemoveWriteIs
<1>19. CASE RemoveService(p)
  BY <1>19, RemoveServiceIs
<1>20. CASE RemoveManifest(p)
  BY <1>20, RemoveManifestIs
<1>21. CASE RestoreConfig(p)
  <2>1. manifest = cmd[p].man /\ Verified(cmd[p].man, cmd[p].old)
    BY <1>21, RestoreConfigIs DEF ManifestInv, Removing
  <2> QED
    BY <1>21, <2>1, RestoreConfigIs DEF AsBefore
<1>22. CASE RestoreService(p)
  <2>1. ~raced => cmd[p].file = "ours"
    BY <1>22, RestoreServiceIs DEF ServiceInv, ServiceSeen, FileInv, Removing, Stopped
  <2> QED
    BY <1>22, <2>1, RestoreServiceIs
<1>23. CASE RestoreManager(p)
  <2>1. /\ manifest = cmd[p].man /\ Verified(cmd[p].man, cmd[p].old) /\ cmd[p].man.service
        /\ manager = Off
    BY <1>23, RestoreManagerIs DEF ManifestInv, ManagerInv, ServiceInv, ServiceSeen, Removing, Stopped
  <2>2. manager' = cmd[p].mgr \/ said' = "failed"
    BY <1>23, <2>1, RestoreManagerIs, ManagerRestored
  <2>3. /\ cmd[p].at = "restore manager" /\ cmd'[p].at = "idle"
        /\ UNCHANGED <<config, manifest, service, raced>>
        /\ said' = "failed" \/ (~cmd[p].bad /\ Moves(p, "idle") /\ said' = "restored")
    BY <1>23, RestoreManagerIs
  <2>4. CASE said' = "failed"
    BY <2>3, <2>4
  <2>5. CASE ~cmd[p].bad /\ Moves(p, "idle") /\ said' = "restored"
    <3>1. ~raced => config = cmd[p].old /\ service = "ours"
      BY <2>3, <2>5
    <3>2. ~raced' => AsBefore(p)'
      BY <2>1, <2>2, <2>3, <2>5, <3>1 DEF AsBefore
    <3> QED
      BY <2>3, <3>2
  <2> QED
    BY <2>3, <2>4, <2>5
<1>24. CASE Kill(p)
  BY <1>24, KillIs
<1> QED
  BY <1>1, <1>2, <1>3, <1>4, <1>5, <1>6, <1>7, <1>8, <1>9, <1>10, <1>11, <1>12, <1>13, <1>14, <1>15, <1>16, <1>17, <1>18, <1>19, <1>20, <1>21, <1>22, <1>23, <1>24
     DEF Act, Setup, Start, Uninstall

LEMMA AgreeAct ==
  ASSUME NEW p \in Procs, Act(p), AgreeInv(p),
         InstallAssumption, TypeOK, Present, ServiceInv, ManifestInv(p), FileInv(p)
  PROVE  AgreeInv(p)'
<1> USE DEF Moves, AgreeInv, SetupSteps, Agree, Listed
<1>1. CASE SetupRead(p)
  BY <1>1, SetupReadIs
<1>2. CASE SetupPlan(p)
  <2> DEFINE c == Contents(cmd[p].old)
  <2>1. (PlanKept(c).service <=> Listed) /\ (PlanMan(c).service <=> Listed)
    BY PlanService
  <2> HIDE DEF c
  <2>2. c = Contents(cmd[p].old)
    BY DEF c
  <2> QED
    BY <1>2, <2>1, <2>2, SetupPlanIs
<1>3. CASE SetupReconcile(p)
  <2>1. cmd[p].man # NoManifest
    BY <1>3, SetupReconcileIs DEF Present
  <2> QED
    BY <1>3, <2>1, SetupReconcileIs
<1>4. CASE SetupBackup(p)
  BY <1>4, SetupBackupIs
<1>5. CASE SetupWrite(p)
  BY <1>5, SetupWriteIs
<1>6. CASE SetupRecord(p)
  <2>1. cmd[p].man # NoManifest
    BY <1>6, SetupRecordIs DEF Present
  <2> QED
    BY <1>6, <2>1, SetupRecordIs
<1>7. CASE SetupUndo(p)
  BY <1>7, SetupUndoIs
<1>8. CASE StartRead(p)
  <2>1. manifest # NoManifest => [manifest EXCEPT !.service = TRUE].service
    BY DEF TypeOK, Manifest
  <2> QED
    BY <1>8, <2>1, StartReadIs
<1>9. CASE StartWrite(p)
  BY <1>9, StartWriteIs
<1>10. CASE StartRecord(p)
  <2>1. cmd[p].man # NoManifest
    BY <1>10, StartRecordIs DEF Present
  <2> QED
    BY <1>10, <2>1, StartRecordIs
<1>11. CASE StartUndo(p)
  BY <1>11, StartUndoIs
<1>12. CASE StartManager(p)
  BY <1>12, StartManagerIs
<1>13. CASE StopOrRestart(p)
  BY <1>13, StopOrRestartIs
<1>14. CASE RemoveRead(p)
  BY <1>14, RemoveReadIs
<1>15. CASE RemovePlan(p)
  BY <1>15, RemovePlanIs
<1>16. CASE RemoveStop(p)
  BY <1>16, RemoveStopIs
<1>17. CASE RemoveBackup(p)
  BY <1>17, RemoveBackupIs
<1>18. CASE RemoveWrite(p)
  <2>1. manifest = cmd[p].man /\ cmd[p].man # NoManifest
    BY <1>18, RemoveWriteIs DEF ManifestInv, Present, Removing
  <2> QED
    BY <1>18, <2>1, RemoveWriteIs
<1>19. CASE RemoveService(p)
  <2>1. cmd[p].man.service
    BY <1>19, RemoveServiceIs DEF ServiceInv, ServiceSeen
  <2> QED
    BY <1>19, <2>1, RemoveServiceIs
<1>20. CASE RemoveManifest(p)
  <2>1. manifest = cmd[p].man /\ cmd[p].man # NoManifest
    BY <1>20, RemoveManifestIs DEF ManifestInv, Present, Removing
  <2> QED
    BY <1>20, <2>1, RemoveManifestIs
<1>21. CASE RestoreConfig(p)
  BY <1>21, RestoreConfigIs
<1>22. CASE RestoreService(p)
  <2>1. /\ manifest = cmd[p].man /\ cmd[p].man.service /\ cmd[p].man # NoManifest
        /\ ServiceFile \notin touched => cmd[p].file = "ours"
    BY <1>22, RestoreServiceIs DEF ServiceInv, ServiceSeen, FileInv, ManifestInv, Present, Removing, Stopped
  <2> QED
    BY <1>22, <2>1, RestoreServiceIs
<1>23. CASE RestoreManager(p)
  BY <1>23, RestoreManagerIs
<1>24. CASE Kill(p)
  BY <1>24, KillIs
<1> QED
  BY <1>1, <1>2, <1>3, <1>4, <1>5, <1>6, <1>7, <1>8, <1>9, <1>10, <1>11, <1>12, <1>13, <1>14, <1>15, <1>16, <1>17, <1>18, <1>19, <1>20, <1>21, <1>22, <1>23, <1>24
     DEF Act, Setup, Start, Uninstall

\* What setup and uninstall write is owned by the manifest they write.
LEMMA ContentsTwice ==
  InstallAssumption => \A c \in Config : Contents(c) = c
  BY DEF InstallAssumption, Contents

LEMMA PlanKeptGood ==
  ASSUME TypeOK, NEW c, NEW d, NEW t, OursWithin(d, c), Good(d, manifest, t),
         Verified(PlanKept(c), c), Migrate(PlanManifest, c) = {}
  PROVE  Good(d, PlanKept(c), t)
<1>1. PlanKept(c).blocks = PlanManifest.blocks \ Relinquish(PlanManifest, c)
  BY DEF PlanKept, PlanManifest, TypeOK, Manifest, Fresh
<1>2. \A s \in Slots : d.entry[s] = "ours" =>
        PlanManifest.blocks = manifest.blocks /\ s \in PlanManifest.blocks /\ c.entry[s] = "ours"
  BY DEF Good, OursWithin, PlanManifest
<1>3. \A s \in Slots : d.entry[s] = "ours" => s \in PlanKept(c).blocks
  BY <1>1, <1>2 DEF Relinquish
<1>4. \A s \in PlanKept(c).blocks : d.entry[s] = "ours" \/ s \in t
  <2>1. CASE manifest = NoManifest
    BY <1>1, <2>1 DEF PlanManifest, Fresh
  <2>2. CASE manifest # NoManifest
    BY <1>1, <2>2 DEF PlanManifest, Good
  <2> QED
    BY <2>1, <2>2
<1>5. PlanKept(c) \in Manifest
  BY DEF PlanKept, PlanManifest, TypeOK, Manifest, Fresh
<1>6. PlanKept(c) # NoManifest
  BY <1>5, InstallAssumption DEF InstallAssumption
<1> QED
  BY <1>3, <1>4, <1>6 DEF Good

LEMMA PlanNextGood ==
  ASSUME TypeOK, NEW c \in Config, NEW t, Good(c, manifest, t), Verified(PlanKept(c), c)
  PROVE  Good(PlanNext(c), PlanMan(c), t)
<1>1. PlanEntry(c) \in [Slots -> Entries]
  BY DEF PlanEntry, Entries, Config
<1>2. PlanNext(c).entry = PlanEntry(c)
  BY <1>1 DEF PlanNext, Config
<1>3. PlanManifest \in Manifest
  BY DEF PlanManifest, TypeOK, Manifest, Fresh
<1>4. PlanKept(c).blocks =
        PlanManifest.blocks \ (Relinquish(PlanManifest, c) \cup Migrate(PlanManifest, c))
  BY <1>3 DEF PlanKept, Manifest
<1>5. PlanMan(c).blocks = PlanKept(c).blocks \cup Missing(c) /\ PlanMan(c) \in Manifest
  BY <1>3 DEF PlanMan, PlanKept, Manifest, Missing
<1>6. PlanMan(c) # NoManifest
  BY <1>5, InstallAssumption DEF InstallAssumption
<1>7. ASSUME NEW s \in Slots, PlanEntry(c)[s] = "ours" PROVE s \in PlanMan(c).blocks
  <2>1. CASE s \in Missing(c)
    BY <1>5, <2>1
  <2>2. CASE s \notin Missing(c)
    <3>1. s \notin Migrate(PlanManifest, c) /\ c.entry[s] = "ours"
      BY <1>7, <2>2 DEF PlanEntry
    <3>2. s \in PlanManifest.blocks
      BY <3>1 DEF Good, PlanManifest
    <3>3. s \notin Relinquish(PlanManifest, c)
      BY <3>1 DEF Relinquish
    <3> QED
      BY <1>4, <1>5, <3>1, <3>2, <3>3
  <2> QED
    BY <2>1, <2>2
<1>8. ASSUME NEW s \in PlanMan(c).blocks PROVE PlanEntry(c)[s] = "ours"
  <2>1. s \in Slots
    BY <1>5 DEF Manifest
  <2>2. CASE s \in Missing(c)
    <3>1. s \notin Migrate(PlanManifest, c)
      BY <2>2 DEF Missing, Migrate
    <3> QED
      BY <2>1, <2>2, <3>1 DEF PlanEntry
  <2>3. CASE s \notin Missing(c)
    <3>1. s \in PlanKept(c).blocks /\ s \notin Migrate(PlanManifest, c)
      BY <1>4, <1>5, <2>3
    <3>2. c.entry[s] = "ours"
      BY <3>1 DEF Verified
    <3> QED
      BY <2>1, <2>3, <3>1, <3>2 DEF PlanEntry
  <2> QED
    BY <2>2, <2>3
<1> QED
  BY <1>2, <1>6, <1>7, <1>8 DEF Good

LEMMA RemovedGood ==
  ASSUME NEW c \in Config, NEW m, NEW t, Good(c, m, t),
         NEW d, d = [c EXCEPT !.entry = [s \in Slots |-> IF s \in m.blocks THEN "none" ELSE @[s]]]
  PROVE  Good(d, NoManifest, t)
<1> DEFINE ent == [s \in Slots |-> IF s \in m.blocks THEN "none" ELSE c.entry[s]]
<1>1. d = [c EXCEPT !.entry = ent]
  OBVIOUS
<1>2. \A s \in Slots : ent[s] # "ours"
  BY DEF Good
<1>3. d.entry = ent
  <2> HIDE DEF ent
  <2> QED
    BY <1>1 DEF Config
<1> HIDE DEF ent
<1> QED
  BY <1>2, <1>3 DEF Good

LEMMA GoodKept ==
  ASSUME NEW c \in Config, NEW m \in Manifest \cup {NoManifest}, NEW t, Good(c, m, t)
  PROVE  /\ \A u : t \subseteq u => Good(c, m, u)
         /\ \A x : Good([c EXCEPT !.text = x], m, t)
<1>1. ASSUME NEW u, t \subseteq u PROVE Good(c, m, u)
  BY <1>1 DEF Good
<1>2. ASSUME NEW x PROVE Good([c EXCEPT !.text = x], m, t)
  BY DEF Good, Config
<1> QED
  BY <1>1, <1>2

LEMMA GoodEdited ==
  ASSUME NEW c \in Config, NEW m \in Manifest \cup {NoManifest}, NEW t, Good(c, m, t),
         NEW s \in Slots, NEW e \in Entries \ {"ours"}, NEW u, t \cup {s} \subseteq u,
         NEW d, d.entry = [c.entry EXCEPT ![s] = e]
  PROVE  Good(d, m, u)
<1>1. c.entry \in [Slots -> Entries]
  BY DEF Config
<1>2. d.entry[s] = e /\ \A r \in Slots : r # s => d.entry[r] = c.entry[r]
  BY <1>1
<1>3. \A r \in Slots : d.entry[r] = "ours" => m # NoManifest /\ r \in m.blocks
  BY <1>2 DEF Good
<1>4. m # NoManifest => \A r \in m.blocks : d.entry[r] = "ours" \/ r \in u
  BY <1>2 DEF Good, Manifest
<1> QED
  BY <1>3, <1>4 DEF Good

LEMMA BlocksAct ==
  ASSUME NEW p \in Procs, Act(p), BlocksInv(p),
         InstallAssumption, TypeOK, Present, ServiceInv, ManifestInv(p)
  PROVE  BlocksInv(p)'
<1> USE DEF Moves, BlocksInv, Whole, UsesOld, Removing
<1>1. CASE SetupRead(p)
  BY <1>1, SetupReadIs DEF OursWithin
<1>2. CASE SetupPlan(p)
  <2> DEFINE c == Contents(cmd[p].old)
  <2>1. c \in Config /\ c = Contents(cmd[p].old)
    BY ContentsTyped DEF TypeOK, Command
  <2> HIDE DEF c
  <2>2. cmd[p].at = "setup plan"
    BY <1>2, SetupPlanIs
  <2>3. ~broken /\ ~killed =>
          /\ Good(Contents(config), manifest, touched) /\ Good(c, manifest, touched)
          /\ OursWithin(Contents(config), c)
    BY <2>1, <2>2
  <2>4. ~broken /\ ~killed /\ Verified(PlanKept(c), c) =>
          Good(PlanNext(c), PlanMan(c), touched)
    BY <2>1, <2>3, PlanNextGood
  <2>5. ~broken /\ ~killed /\ Verified(PlanKept(c), c) /\ Migrate(PlanManifest, c) = {} =>
          Good(Contents(config), PlanKept(c), touched)
    BY <2>3, PlanKeptGood
  <2> QED
    BY <1>2, <2>1, <2>3, <2>4, <2>5, SetupPlanIs
<1>3. CASE SetupReconcile(p)
  BY <1>3, SetupReconcileIs
<1>4. CASE SetupBackup(p)
  BY <1>4, SetupBackupIs
<1>5. CASE SetupWrite(p)
  <2>1. Contents(cmd[p].next) = cmd[p].next
    BY <1>5, SetupWriteIs, ContentsTwice DEF Present, UsesNext, TypeOK, Command
  <2> QED
    BY <1>5, <2>1, SetupWriteIs
<1>6. CASE SetupRecord(p)
  BY <1>6, SetupRecordIs
<1>7. CASE SetupUndo(p)
  <2>1. Contents(Contents(cmd[p].old)) = Contents(cmd[p].old)
    BY ContentsTwice, ContentsTyped DEF TypeOK, Command
  <2> QED
    BY <1>7, <2>1, SetupUndoIs
<1>8. CASE StartRead(p)
  BY <1>8, StartReadIs
<1>9. CASE StartWrite(p)
  BY <1>9, StartWriteIs
<1>10. CASE StartRecord(p)
  <2>1. /\ cmd[p].man # NoManifest /\ manifest # NoManifest
        /\ manifest.blocks = cmd[p].man.blocks
    BY <1>10, StartRecordIs DEF ManifestInv, Present
  <2>2. Good(Contents(config), manifest, touched) => Good(Contents(config), cmd[p].man, touched)
    BY <2>1 DEF Good
  <2> QED
    BY <1>10, <2>1, <2>2, StartRecordIs
<1>11. CASE StartUndo(p)
  BY <1>11, StartUndoIs
<1>12. CASE StartManager(p)
  BY <1>12, StartManagerIs
<1>13. CASE StopOrRestart(p)
  BY <1>13, StopOrRestartIs
<1>14. CASE RemoveRead(p)
  BY <1>14, RemoveReadIs
<1>15. CASE RemovePlan(p)
  <2>1. cmd[p].at = "remove plan" /\ manifest = cmd[p].man
    BY <1>15, RemovePlanIs DEF ManifestInv
  <2>2. CASE cmd'[p].at = "idle"
    BY <1>15, <2>1, <2>2, RemovePlanIs
  <2>3. CASE cmd'[p].at # "idle"
    <3>1. /\ config \in Config /\ cmd'[p].old = config /\ cmd'[p].man = cmd[p].man
          /\ cmd'[p].at \in {"remove stop", "remove backup"}
          /\ cmd'[p].next = [config EXCEPT !.entry =
                [s \in Slots |-> IF s \in cmd[p].man.blocks THEN "none" ELSE @[s]]]
      BY <1>15, <2>3, RemovePlanIs
    <3>2. Contents(config) = config
      BY <3>1, ContentsTwice
    <3>3. ~broken /\ ~killed => Good(config, cmd[p].man, touched)
      BY <2>1, <3>2
    <3>4. ~broken /\ ~killed => Good(cmd'[p].next, NoManifest, touched)
      BY ZenonT(60), <3>1, <3>3, RemovedGood
    <3>5. UNCHANGED <<config, manifest, touched, broken, killed>>
      BY <1>15, RemovePlanIs
    <3> QED
      BY <2>1, <3>1, <3>2, <3>3, <3>4, <3>5
  <2> QED
    BY <2>2, <2>3
<1>16. CASE RemoveStop(p)
  BY <1>16, RemoveStopIs
<1>17. CASE RemoveBackup(p)
  BY <1>17, RemoveBackupIs
<1>18. CASE RemoveWrite(p)
  <2>3. cmd[p].at = "remove write"
    BY <1>18, RemoveWriteIs
  <2>2. cmd[p].next \in Config
    BY <2>3 DEF Present, UsesNext, TypeOK, Command
  <2>1. Contents(cmd[p].next) = cmd[p].next
    BY <2>2, ContentsTwice
  <2> QED
    BY <1>18, <2>1, RemoveWriteIs
<1>19. CASE RemoveService(p)
  BY <1>19, RemoveServiceIs
<1>20. CASE RemoveManifest(p)
  BY <1>20, RemoveManifestIs
<1>21. CASE RestoreConfig(p)
  <2>1. cmd[p].at = "restore config" /\ cmd[p].old # NoFile
    BY <1>21, RestoreConfigIs DEF Present
  <2>2. Contents(cmd[p].old) = cmd[p].old
    BY <2>1 DEF Contents
  <2>3. ~broken /\ ~killed => Good(cmd[p].old, manifest, touched)
    BY <2>1, <2>2
  <2> QED
    BY <1>21, <2>1, <2>2, <2>3, RestoreConfigIs
<1>22. CASE RestoreService(p)
  BY <1>22, RestoreServiceIs
<1>23. CASE RestoreManager(p)
  BY <1>23, RestoreManagerIs
<1>24. CASE Kill(p)
  BY <1>24, KillIs
<1> QED
  BY <1>1, <1>2, <1>3, <1>4, <1>5, <1>6, <1>7, <1>8, <1>9, <1>10, <1>11, <1>12, <1>13, <1>14, <1>15, <1>16, <1>17, <1>18, <1>19, <1>20, <1>21, <1>22, <1>23, <1>24
     DEF Act, Setup, Start, Uninstall

\* The invariant of one command alone, kept by the command and by the user.
AloneInv(p) ==
  /\ BackupInv(p) /\ ManifestInv(p) /\ FileInv(p) /\ ManagerInv(p)
  /\ RestoredInv(p) /\ AgreeInv(p) /\ BlocksInv(p)

LEMMA AloneAct ==
  ASSUME NEW p \in Procs, IInv, AloneInv(p), Act(p)
  PROVE  AloneInv(p)'
<1> USE InstallAssumption DEF AloneInv, IInv, ConfigInv
<1>1. BackupInv(p)' /\ ManifestInv(p)' /\ FileInv(p)' /\ ManagerInv(p)'
  BY BackupAct, ManifestAct, FileAct, ManagerAct
<1>2. RestoredInv(p)'
  BY RestoredAct
<1>3. AgreeInv(p)'
  BY AgreeAct
<1>4. BlocksInv(p)'
  BY BlocksAct
<1> QED
  BY <1>1, <1>2, <1>3, <1>4

LEMMA EditKeepsGood ==
  ASSUME TypeOK, UserEdit, NEW m \in Manifest \cup {NoManifest}
  PROVE  /\ Good(Contents(config), m, touched) => Good(Contents(config'), m, touched')
         /\ \A d : OursWithin(Contents(config), d) => OursWithin(Contents(config'), d)
<1> DEFINE c == Contents(config)
<1>1. c \in Config
  BY InstallAssumption, ContentsTyped DEF TypeOK
<1>2. config' \in Config /\ Contents(config') = config'
  BY InstallAssumption, EditedTyped, ContentsTwice
<1> HIDE DEF c
<1>3. \/ config' = [c EXCEPT !.text = edits'] /\ touched' = touched
      \/ \E s \in Slots, e \in Entries \ {"ours"} :
           /\ config' = [c EXCEPT !.text = edits', !.entry[s] = e]
           /\ touched' = touched \cup {s}
  BY DEF UserEdit, c
<1>4. CASE config' = [c EXCEPT !.text = edits'] /\ touched' = touched
  <2>1. Good(c, m, touched) => Good(config', m, touched')
    BY <1>1, <1>4, GoodKept
  <2>2. config'.entry = c.entry
    BY <1>1, <1>4 DEF Config
  <2> QED
    BY <1>2, <2>1, <2>2 DEF OursWithin, c
<1>5. ASSUME NEW s \in Slots, NEW e \in Entries \ {"ours"},
             config' = [c EXCEPT !.text = edits', !.entry[s] = e], touched' = touched \cup {s}
      PROVE  /\ Good(c, m, touched) => Good(config', m, touched')
             /\ \A d : OursWithin(c, d) => OursWithin(config', d)
  <2>1. config'.entry = [c.entry EXCEPT ![s] = e] /\ c.entry \in [Slots -> Entries]
    BY <1>1, <1>5 DEF Config
  <2>2. Good(c, m, touched) => Good(config', m, touched')
    <3>1. touched \cup {s} \subseteq touched'
      BY <1>5
    <3>2. ASSUME Good(c, m, touched) PROVE Good(config', m, touched')
      BY ONLY <1>1, <2>1, <3>1, <3>2, m \in Manifest \cup {NoManifest}, s \in Slots,
              e \in Entries \ {"ours"}, GoodEdited
    <3> QED
      BY <3>2
  <2>3. \A r \in Slots : config'.entry[r] = "ours" => c.entry[r] = "ours"
    BY <2>1
  <2> QED
    BY <2>2, <2>3 DEF OursWithin
<1> QED
  BY <1>2, <1>3, <1>4, <1>5 DEF c

LEMMA AloneEdit ==
  ASSUME NEW p \in Procs, IInv, AloneInv(p), UserEdit
  PROVE  AloneInv(p)'
<1>1. /\ UNCHANGED <<manifest, service, manager, saved, cmd, broken, killed>> /\ said' = "nothing"
      /\ ~raced' => ~raced /\ cmd[p].at = "idle"
  BY DEF UserEdit, Running
<1>2. touched \subseteq touched' /\ (ServiceFile \in touched' => ServiceFile \in touched)
  <2>1. ServiceFile \notin Slots
    BY DEF ServiceFile, Slots
  <2> QED
    BY <2>1 DEF UserEdit
<1>3. BackupInv(p)' /\ ManifestInv(p)' /\ FileInv(p)' /\ ManagerInv(p)'
  BY <1>1, <1>2 DEF AloneInv, BackupInv, ManifestInv, FileInv, ManagerInv, Removing, Stopped
<1>4. RestoredInv(p)'
  BY <1>1 DEF AloneInv, RestoredInv
<1>5. AgreeInv(p)'
  BY <1>1, <1>2 DEF AloneInv, AgreeInv, Agree, Listed
<1>6. BlocksInv(p)'
  <2>1. \A m \in Manifest \cup {NoManifest} :
          Good(Contents(config), m, touched) => Good(Contents(config'), m, touched')
    BY EditKeepsGood DEF IInv
  <2>2. \A d : OursWithin(Contents(config), d) => OursWithin(Contents(config'), d)
    BY EditKeepsGood DEF IInv
  <2>3. \A c \in Config, m \in Manifest \cup {NoManifest} : Good(c, m, touched) => Good(c, m, touched')
    BY <1>2, GoodKept
  <2>4. /\ manifest \in Manifest \cup {NoManifest} /\ cmd[p].man \in Manifest \cup {NoManifest}
        /\ NoManifest \in Manifest \cup {NoManifest}
        /\ Contents(cmd[p].old) \in Config
        /\ cmd[p].at \in UsesNext => cmd[p].next \in Config
    BY InstallAssumption, ContentsTyped DEF IInv, TypeOK, Command, ConfigInv, Present
  <2>5. BlocksInv(p)
    BY DEF AloneInv
  <2> QED
    BY <1>1, <2>1, <2>2, <2>3, <2>4, <2>5 DEF BlocksInv, UsesNext
<1> QED
  BY <1>3, <1>4, <1>5, <1>6 DEF AloneInv

LEMMA AloneService ==
  ASSUME NEW p \in Procs, IInv, AloneInv(p), UserService
  PROVE  AloneInv(p)'
<1>1. /\ UNCHANGED <<config, manifest, manager, saved, cmd, broken, killed>> /\ said' = "nothing"
      /\ ~raced' => ~raced /\ cmd[p].at = "idle"
      /\ touched \subseteq touched' /\ ServiceFile \in touched'
  BY DEF UserService, Running
<1>2. BackupInv(p)' /\ ManifestInv(p)' /\ FileInv(p)' /\ ManagerInv(p)'
  BY <1>1 DEF AloneInv, BackupInv, ManifestInv, FileInv, ManagerInv, Removing, Stopped
<1>3. RestoredInv(p)' /\ AgreeInv(p)'
  BY <1>1 DEF AloneInv, RestoredInv, AgreeInv
<1>4. BlocksInv(p)'
  <2>1. \A c \in Config, m \in Manifest \cup {NoManifest} : Good(c, m, touched) => Good(c, m, touched')
    BY <1>1, GoodKept
  <2>2. /\ manifest \in Manifest \cup {NoManifest} /\ cmd[p].man \in Manifest \cup {NoManifest}
        /\ NoManifest \in Manifest \cup {NoManifest}
        /\ Contents(config) \in Config /\ Contents(cmd[p].old) \in Config
        /\ cmd[p].at \in UsesNext => cmd[p].next \in Config
    BY InstallAssumption, ContentsTyped DEF IInv, TypeOK, Command, ConfigInv, Present
  <2>3. BlocksInv(p)
    BY DEF AloneInv
  <2> QED
    BY <1>1, <2>1, <2>2, <2>3 DEF BlocksInv, UsesNext
<1> QED
  BY <1>2, <1>3, <1>4 DEF AloneInv

LEMMA AloneInit ==
  ASSUME NEW p \in Procs, Init
  PROVE  AloneInv(p)
<1>1. cmd[p] = Idle /\ Idle.at = "idle" /\ said = "nothing" /\ service # "ours" /\ touched = {}
  BY IdleIs DEF Init
<1>2. ~Listed
  BY DEF Init, Listed, Fresh
<1>3. Good(Contents(config), manifest, touched)
  <2> DEFINE One(s, e) == [Empty EXCEPT !.entry[s] = e]
             Theirs == [Empty EXCEPT !.entry = [s \in Slots |->
                          IF s[2] = "custom" THEN "same" ELSE "none"]]
             Ours   == [Empty EXCEPT !.entry = [s \in Slots |->
                          IF s[2] = "legacy" THEN "ours" ELSE "none"]]
             Own    == [Fresh EXCEPT !.blocks = Aliases \X {"legacy"}]
  <2>1. \/ /\ manifest = NoManifest
           /\ config \in {NoFile, Empty}
                \cup {One(s, e) : s \in Slots, e \in {"same", "other"}} \cup {Theirs}
        \/ manifest = Own /\ config = Ours
    BY DEF Init
  <2>2. CASE manifest = NoManifest
    <3>1. \A s \in Slots : Empty.entry[s] # "ours"
      BY DEF Empty
    <3>2. \A s \in Slots : Theirs.entry[s] # "ours"
      BY DEF Empty
    <3>3. ASSUME NEW r \in Slots, NEW e \in {"same", "other"}
          PROVE  \A s \in Slots : One(r, e).entry[s] # "ours"
      BY DEF Empty
    <3>4. Own \in Manifest /\ Own # NoManifest
      <4>1. Own \in Manifest
        BY DEF Fresh, Manifest, Slots
      <4> QED
        BY <4>1, InstallAssumption DEF InstallAssumption
    <3> HIDE DEF Theirs, One, Own, Ours
    <3>5. config \in {One(s, e) : s \in Slots, e \in {"same", "other"}} =>
            \E s \in Slots, e \in {"same", "other"} : config = One(s, e)
      OBVIOUS
    <3>6. \A s \in Slots : Contents(config).entry[s] # "ours"
      BY <2>1, <2>2, <3>1, <3>2, <3>3, <3>4, <3>5 DEF Contents
    <3> QED
      BY <2>2, <3>6 DEF Good
  <2>3. CASE manifest = Own /\ config = Ours
    <3>1. Ours \in Config /\ Ours.entry = [s \in Slots |->
                                 IF s[2] = "legacy" THEN "ours" ELSE "none"]
      <4>1. [s \in Slots |-> IF s[2] = "legacy" THEN "ours" ELSE "none"] \in [Slots -> Entries]
        BY DEF Entries
      <4>2. Empty \in Config
        BY EmptyTyped, InstallAssumption
      <4>3. Ours \in Config
        BY <4>1, <4>2, EntryTyped
      <4> QED
        BY <4>2, <4>3 DEF Config
    <3>2. Contents(config) = Ours
      BY <2>3, <3>1, InstallAssumption, ContentsTwice
    <3>3. Own.blocks = Aliases \X {"legacy"} /\ Own \in Manifest
      BY DEF Fresh, Manifest, Slots
    <3>4. Own # NoManifest
      BY <3>3, InstallAssumption DEF InstallAssumption
    <3>5. \A s \in Slots : Ours.entry[s] = "ours" => s \in Own.blocks
      BY <3>1, <3>3 DEF Slots
    <3>6. \A s \in Own.blocks : s \in Slots /\ Ours.entry[s] = "ours"
      BY <3>1, <3>3 DEF Slots
    <3> HIDE DEF Ours, Own
    <3> QED
      BY <2>3, <3>2, <3>4, <3>5, <3>6 DEF Good
  <2> QED
    BY <2>1, <2>2, <2>3
<1>4. BackupInv(p) /\ ManifestInv(p) /\ FileInv(p) /\ ManagerInv(p) /\ RestoredInv(p)
  <2>1. said # "restored" /\ cmd[p].at = "idle"
    BY <1>1
  <2> QED
    BY <2>1 DEF BackupInv, ManifestInv, FileInv, ManagerInv, RestoredInv, Removing, Stopped
<1>5. AgreeInv(p) /\ BlocksInv(p)
  <2>1. cmd[p].at = "idle" /\ service # "ours"
    BY <1>1
  <2> QED
    BY <1>2, <1>3, <2>1 DEF AgreeInv, BlocksInv, Agree, SetupSteps, UsesOld, Removing
<1> QED
  BY <1>4, <1>5 DEF AloneInv

\* When p is the only command, the whole invariant holds through every failure, kill
\* and edit.
THEOREM AloneInvariant == ASSUME NEW p, Procs = {p} PROVE Spec => [](IInv /\ AloneInv(p))
<1> p \in Procs
  OBVIOUS
<1>1. Init => IInv /\ AloneInv(p)
  BY InitInv, AloneInit, InstallAssumption
<1>2. IInv /\ AloneInv(p) /\ [Next]_vars => (IInv /\ AloneInv(p))'
  <2> SUFFICES ASSUME IInv, AloneInv(p), [Next]_vars PROVE IInv' /\ AloneInv(p)'
    OBVIOUS
  <2>1. IInv'
    BY TypeStep, ConfigInvStep, ServiceInvStep, InstallAssumption DEF IInv
  <2>2. CASE UNCHANGED vars
    <3> USE <2>2 DEF vars, AloneInv
    <3>1. BackupInv(p)' /\ ManifestInv(p)'
      BY DEF BackupInv, ManifestInv
    <3>2. FileInv(p)' /\ ManagerInv(p)'
      BY DEF FileInv, ManagerInv
    <3>3. RestoredInv(p)'
      BY DEF RestoredInv, AsBefore
    <3>4. AgreeInv(p)'
      BY DEF AgreeInv, Agree, Listed
    <3>5. BlocksInv(p)'
      BY DEF BlocksInv
    <3> QED
      BY <2>1, <3>1, <3>2, <3>3, <3>4, <3>5
  <2>3. ASSUME NEW q \in Procs, Act(q) PROVE AloneInv(p)'
    <3>1. q = p
      OBVIOUS
    <3> QED
      BY <2>3, <3>1, AloneAct
  <2>4. ASSUME UserEdit \/ UserService PROVE AloneInv(p)'
    BY <2>4, AloneEdit, AloneService
  <2> QED
    BY <2>1, <2>2, <2>3, <2>4 DEF Next, Act
<1> QED
  BY <1>1, <1>2, PTL DEF Spec

\* The action of the property BackupFirst.
BackupStep ==
  cmd' # cmd /\ ~raced /\ config # NoFile /\ config' # config =>
    \/ saved' = config
    \/ \E p \in Procs : /\ cmd[p].at \in {"setup undo", "restore config"}
                        /\ config' = Contents(cmd[p].old)

\* When one command runs at a time, the newest backup holds exactly the bytes of
\* the config that a command replaces, and a rollback puts back what was read.
THEOREM BackupComesFirst == ASSUME NEW p, Procs = {p} PROVE Spec => BackupFirst
<1> p \in Procs
  OBVIOUS
<1>1. IInv /\ AloneInv(p) /\ [Next]_vars => [BackupStep]_vars
  <2> SUFFICES ASSUME IInv, AloneInv(p), Next, cmd' # cmd, ~raced, config # NoFile, config' # config
               PROVE  \/ saved' = config
                      \/ /\ cmd[p].at \in {"setup undo", "restore config"}
                         /\ config' = Contents(cmd[p].old)
    BY DEF BackupStep
  <2> USE DEF IInv
  <2>1. Act(p)
    BY DEF Next, Act, UserEdit, UserService
  <2>2. BackupInv(p) /\ Present
    BY DEF AloneInv, ConfigInv
  <2>3. CASE SetupWrite(p) \/ RemoveWrite(p)
    BY <2>2, <2>3, SetupWriteIs, RemoveWriteIs DEF BackupInv
  <2>4. CASE SetupUndo(p)
    <3>1. cmd[p].at = "setup undo" /\ config' = Contents(cmd[p].old)
      BY <2>4 DEF SetupUndo, At
    <3> QED
      BY <3>1
  <2>5. CASE RestoreConfig(p)
    <3>1. cmd[p].at = "restore config" /\ config' = cmd[p].old
      BY <2>5 DEF RestoreConfig, At
    <3>2. cmd[p].old # NoFile
      BY <2>2, <3>1 DEF Present, Removing
    <3> QED
      BY <3>1, <3>2 DEF Contents
  <2>6. CASE SetupRead(p) \/ SetupPlan(p) \/ SetupReconcile(p) \/ SetupBackup(p) \/ SetupRecord(p)
    BY <2>6 DEF SetupRead, SetupPlan, SetupReconcile, SetupBackup, SetupRecord, files
  <2>7. CASE Start(p)
    BY <2>7 DEF Start, StartRead, StartWrite, StartRecord, StartUndo, StartManager, StopOrRestart,
                files
  <2>8. CASE RemoveRead(p) \/ RemovePlan(p) \/ RemoveStop(p) \/ RemoveBackup(p) \/ RemoveService(p)
             \/ RemoveManifest(p) \/ RestoreService(p) \/ RestoreManager(p)
    BY <2>8 DEF RemoveRead, RemovePlan, RemoveStop, RemoveBackup, RemoveService, RemoveManifest,
                RestoreService, RestoreManager, files
  <2>9. CASE Kill(p)
    BY <2>9 DEF Kill, files
  <2> QED
    BY <2>1, <2>3, <2>4, <2>5, <2>6, <2>7, <2>8, <2>9 DEF Act, Setup, Uninstall
<1> QED
  BY <1>1, AloneInvariant, PTL DEF Spec, BackupFirst, BackupStep

\* When one command runs at a time and none is killed, the manifest owns exactly
\* the bridge's blocks whenever none runs, but for what the user changed and for a
\* rollback that was reported as incomplete.
THEOREM ConfigIsTransactional == ASSUME NEW p, Procs = {p} PROVE Spec => []ConfigTransactional
<1> p \in Procs
  OBVIOUS
<1>1. IInv /\ AloneInv(p) => ConfigTransactional
  <2> SUFFICES ASSUME IInv, AloneInv(p), ~killed, Running = {}, ~broken
               PROVE  Unlisted = {} /\ Dangling \subseteq touched
    BY DEF ConfigTransactional, Transactional
  <2>1. cmd[p].at = "idle"
    BY DEF Running
  <2>2. Good(Contents(config), manifest, touched)
    BY <2>1 DEF AloneInv, BlocksInv, Whole
  <2>3. \A s \in Slots : Empty.entry[s] # "ours"
    BY DEF Empty
  <2>4. Unlisted = {}
    BY <2>2 DEF Unlisted, Good, Contents
  <2>5. Dangling \subseteq touched
    BY <2>2, <2>3 DEF Dangling, Good, Contents
  <2> QED
    BY <2>4, <2>5
<1> QED
  BY <1>1, AloneInvariant, PTL

\* Under the same conditions the manifest owns the service file exactly when it is there.
THEOREM ServiceIsOwned == ASSUME NEW p, Procs = {p} PROVE Spec => []ServiceOwned
<1> p \in Procs
  OBVIOUS
<1>1. IInv /\ AloneInv(p) => ServiceOwned
  BY DEF AloneInv, AgreeInv, Agree, Listed, ServiceOwned, Running
<1> QED
  BY <1>1, AloneInvariant, PTL

\* After "uninstall failed and artifacts were restored; retry is safe" the config,
\* the manifest, the service file and the running service are as uninstall found them.
THEOREM RetryAfterRestore == ASSUME NEW p, Procs = {p} PROVE Spec => []RetryIsSafe
<1> p \in Procs
  OBVIOUS
<1>1. IInv /\ AloneInv(p) => RetryIsSafe
  BY DEF AloneInv, RestoredInv, AsBefore, RetryIsSafe
<1> QED
  BY <1>1, AloneInvariant, PTL

=============================================================================

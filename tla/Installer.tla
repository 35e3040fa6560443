------------------------------ MODULE Installer ------------------------------
(***************************************************************************)
(* Installation on the television, scripts/install_tv_lowspace.sh (the     *)
(* other install scripts call it), and what native/native_main.c finds     *)
(* when the application is launched at any moment of it.  The script       *)
(* uploads to a temporary directory, copies each file beside its           *)
(* destination, renames it into place, and sets the links to the renderer. *)
(* It may be stopped between two commands, or in the middle of a copy, by  *)
(* a lost connection, a full disk or the user, and is then run again,      *)
(* perhaps with other options.                                             *)
(*                                                                         *)
(* Left out: the check of the options and of the local build, stopping the *)
(* running application, logs, and power failures, against which only the   *)
(* sync at the end guards.  A remote shell is taken to end with its        *)
(* connection.                                                             *)
(***************************************************************************)
EXTENDS Naturals, Sequences

CONSTANT MaxRuns   \* bound: runs of the script

ASSUME InstallerAssumption == MaxRuns \in Nat \ {0}

Stress == "wayland_egl_stress"
Programs == <<"native_main", "wayland_rect", "wayland_egl">>
Metadata == <<"appinfo", "packageinfo", "icon">>
Files == {Programs[i] : i \in 1 .. 3} \cup {Metadata[i] : i \in 1 .. 3} \cup {Stress}
Renderers == {"wayland_egl", "wayland_rect", Stress}
Nothing == "none"

VARIABLES
  android,  \* the application is org.webosbrew.android
  options,  \* RENDERER and INCLUDE_STRESS of this run
  todo,     \* the commands this run still has to execute
  runs,     \* runs begun
  status,   \* "never", "running", "stopped", "finished"
  disk      \* see Disk

installVars == <<android, options, todo, runs, status, disk>>

Offered == {o \in [renderer : Renderers, stress : BOOLEAN] :
              o.renderer = Stress => o.stress}

\* A file is absent, cut off, whole, or whole with its mode set, if it is of
\* this script's making; or it is of the installation before.
Contents == {Nothing, "part", "whole", "ready", "old"}

\* The uploads, the copies named .new, what is installed, and where the links
\* bin/client and bin/android_backend lead.
Disk == [tmp : [Files -> Contents], fresh : [Files -> Contents],
         bin : [Files -> Contents],
         client : Renderers \cup {Nothing}, backend : Renderers \cup {Nothing}]

Empty == [f \in Files |-> Nothing]
Old(stress) == [f \in Files |-> IF f # Stress \/ stress THEN "old" ELSE Nothing]
Backend == IF android THEN "wayland_rect" ELSE Nothing

\* A first installation, or one over an older one.
InstallerInit ==
  /\ android \in BOOLEAN /\ options \in Offered
  /\ todo = <<>> /\ runs = 0 /\ status = "never"
  /\ \E first \in BOOLEAN :
       disk = [tmp |-> Empty, fresh |-> Empty,
               bin |-> IF first THEN Empty ELSE Old(options.stress),
               client |-> IF first THEN Nothing ELSE options.renderer,
               backend |-> IF first THEN Nothing ELSE Backend]

-----------------------------------------------------------------------------
(* The script                                                              *)

Do(command, files) == [i \in DOMAIN files |-> [do |-> command, file |-> files[i]]]
Once(command) == Do(command, <<Nothing>>)

Extra(o) == IF o.stress THEN <<Stress>> ELSE <<>>

Upload(o) ==
  Once("clean tmp") \o Do("scp", Metadata \o Programs \o Extra(o))

\* Mutant: the modes are set when the files are in place.
Replace_ModeLast(o) ==
  Once("clean new") \o Do("cp", Programs \o Metadata \o Extra(o))
  \o Do("mv", Programs \o Metadata) \o Once("mv stress") \o Once("chmod")

\* Mutant: an older stress renderer is left where it is.
Replace_KeepsStress(o) ==
  Once("clean new") \o Do("cp", Programs \o Metadata \o Extra(o))
  \o Once("chmod")
  \o Do("mv", Programs \o Metadata \o Extra(o))

\* The .new files, their modes, and the renaming; without a .new stress
\* renderer the installed one is removed.
Replace(o) ==
  Once("clean new") \o Do("cp", Programs \o Metadata \o Extra(o))
  \o Once("chmod")
  \o Do("mv", Programs \o Metadata) \o Once("mv stress")

Link ==
  Once("rm client") \o Once("rm backend") \o Once("ln client")
  \o (IF android THEN Once("ln backend") ELSE <<>>)

Script(o) == Upload(o) \o Replace(o) \o Link \o Once("clean tmp")

\* The script is run, for the first time or again.
Begin ==
  /\ status # "running" /\ runs < MaxRuns
  /\ options' \in Offered
  /\ todo' = Script(options')
  /\ runs' = runs + 1 /\ status' = "running"
  /\ UNCHANGED <<android, disk>>

Moved(f) == [disk EXCEPT !.bin[f] = disk.fresh[f], !.fresh[f] = Nothing]

\* The disk after command c.
Effect(c) ==
  CASE c.do = "clean tmp"  -> [disk EXCEPT !.tmp = Empty]
    [] c.do = "scp"        -> [disk EXCEPT !.tmp[c.file] = "whole"]
    [] c.do = "clean new"  -> [disk EXCEPT !.fresh = Empty]
    [] c.do = "cp"         -> [disk EXCEPT !.fresh[c.file] = disk.tmp[c.file]]
    [] c.do = "chmod"      -> [disk EXCEPT !.fresh =
         [f \in Files |-> IF disk.fresh[f] = "whole" THEN "ready" ELSE disk.fresh[f]]]
    [] c.do = "mv"         -> Moved(c.file)
    [] c.do = "mv stress"  -> Moved(Stress)
    [] c.do = "rm client"  -> [disk EXCEPT !.client = Nothing]
    [] c.do = "rm backend" -> [disk EXCEPT !.backend = Nothing]
    [] c.do = "ln client"  -> [disk EXCEPT !.client = options.renderer]
    [] c.do = "ln backend" -> [disk EXCEPT !.backend = "wayland_rect"]

Step ==
  /\ status = "running"
  /\ disk' = Effect(Head(todo))
  /\ todo' = Tail(todo)
  /\ status' = IF Len(todo) = 1 THEN "finished" ELSE "running"
  /\ UNCHANGED <<android, options, runs>>

\* A copy that is cut off leaves a part of the file; the script ends.
Stop ==
  /\ status = "running" /\ runs < MaxRuns
  /\ LET c == Head(todo) IN
     \/ UNCHANGED disk
     \/ c.do = "scp" /\ disk' = [disk EXCEPT !.tmp[c.file] = "part"]
     \/ c.do = "cp"  /\ disk' = [disk EXCEPT !.fresh[c.file] = "part"]
  /\ todo' = <<>> /\ status' = "stopped"
  /\ UNCHANGED <<android, options, runs>>

InstallerNext == Begin \/ Step \/ Stop

\* A command ends, and a script that was stopped is run again.
InstallerSpec ==
  /\ InstallerInit /\ [][InstallerNext]_installVars
  /\ WF_installVars(Step) /\ WF_installVars(status # "finished" /\ Begin)

-----------------------------------------------------------------------------
(* The launcher                                                            *)

Usable(f) == disk.bin[f] \in {"ready", "old"}

\* What the launcher tries, in order: links are followed, and a name that
\* leads to no file makes exec fail.
Tried ==
  (IF android THEN <<disk.backend>> ELSE <<>>)
  \o <<disk.client, "wayland_egl", "wayland_rect">>
Leads(i) == Tried[i] # Nothing /\ disk.bin[Tried[i]] # Nothing

\* The program the launcher becomes, if it becomes one.
Launched ==
  {Tried[i] : i \in {k \in DOMAIN Tried : Leads(k) /\ \A j \in 1 .. k - 1 : ~Leads(j)}}

\* The application manager finds whole metadata and a whole launcher, and the
\* launcher a whole renderer.
Launchable ==
  /\ \A f \in {"appinfo", "packageinfo", "native_main"} : Usable(f)
  /\ Launched # {} /\ \A f \in Launched : Usable(f)

-----------------------------------------------------------------------------

\* Types, and: an application that can be launched can be launched at every
\* moment of every later installation, stopped where it may be, also while
\* its link is gone or leads to a renderer that has been removed.
StaysLaunchable ==
  [][(Launchable => Launchable') /\ disk' \in Disk]_installVars

\* The installation its options ask for, with nothing of an earlier one.
Complete ==
  /\ status = "finished"
  /\ \A f \in Files : disk.bin[f] = IF f # Stress \/ options.stress THEN "ready" ELSE Nothing
  /\ Launched = {IF android THEN "wayland_rect" ELSE options.renderer}
  /\ disk.client = options.renderer
  /\ disk.tmp = Empty /\ disk.fresh = Empty

\* However often it is stopped, a script that is run again until it is not
\* leaves the installation of its last options, whatever was there before.
RerunConverges == <>[]Complete

=============================================================================

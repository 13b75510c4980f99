------------------------------- MODULE Runner -------------------------------
(***************************************************************************)
(* runner/src/main.rs: the host tool that installs its dependencies, makes *)
(* a disk image of the kernel, and boots it in QEMU or writes it to a      *)
(* device.  Each step runs a command of the host, which may not be there,  *)
(* fail, or be killed.  `home' is the directory above the tool's crate, in *)
(* which QEMU runs; the tool itself may run elsewhere.                     *)
(***************************************************************************)
EXTENDS Naturals, Option

ASSUME RunnerConstants == None # "ok"

Modes == {"build", "boot", "write", "unknown"}
Inputs == {"path", "blank", "error"}

VARIABLES
  stage,
  mode,      \* the first argument
  input,     \* the device to write to: a path, a blank line, or none read
  tools,     \* the package managers of the host
  atHome,    \* the tool runs in `home'
  ovmf,      \* where the firmware is: "cwd", "home", "extracted"
  image,     \* the disk image: "absent", "old", "partial" or "new"
  ran,       \* what QEMU or dd did, or None
  exit       \* how the tool ended, or None

host == <<mode, input, tools, atHome>>
runnerVars == <<stage, host, ovmf, image, ran, exit>>

RunnerInit ==
  /\ stage = "distro"
  /\ mode \in Modes /\ input \in Inputs
  /\ tools \in SUBSET {"apt-get", "pacman"} /\ atHome \in BOOLEAN
  /\ ovmf \in SUBSET {"cwd", "home", "extracted"}
  /\ atHome => ("cwd" \in ovmf <=> "home" \in ovmf)
  /\ image \in {"absent", "old"}
  /\ ran = None /\ exit = None

-----------------------------------------------------------------------------
(* How a command may end. *)
Outcomes == {"unspawned", "failed", "killed", "ok"}

End(code) == stage' = "end" /\ exit' = code
Go(label) == stage' = label /\ UNCHANGED exit

(* status(), and exit with the code of a command that failed; the code of  *)
(* one that was killed is None, and unwrapping it panics.                  *)
Checked(outcome, unspawned, label) ==
  CASE outcome = "ok" -> Go(label)
    [] outcome = "failed" -> End("error")
    [] outcome = "killed" -> End("panic")
    [] outcome = "unspawned" -> End(unspawned)

(* HostDistro::new: `which' for each package manager. *)
HostDistro(label) ==
  \E spawned \in BOOLEAN :
    IF spawned /\ tools # {} THEN Go(label) ELSE End("panic")

Distro ==
  /\ stage = "distro" /\ HostDistro("install")
  /\ UNCHANGED <<host, ovmf, image, ran>>

(* The dependencies are installed when `which' cannot be run; how many of  *)
(* the three is the only difference between the branches.                  *)
InstallDeps ==
  \E missing \in BOOLEAN, outcome \in Outcomes :
    IF missing THEN Checked(outcome, "error", "image") ELSE Go("image")

InstallUbuntuDeps ==
  /\ stage = "install" /\ "apt-get" \in tools /\ InstallDeps
  /\ UNCHANGED <<host, ovmf, image, ran>>

InstallArchDeps ==
  /\ stage = "install" /\ "apt-get" \notin tools /\ InstallDeps
  /\ UNCHANGED <<host, ovmf, image, ran>>

ImageFailureIgnored(new) == Go("run")

(* create_disk_image fails: exit. *)
ImageFailure(new) == IF new THEN Go("run") ELSE End("error")

CreateDiskImage ==
  /\ stage = "image" /\ mode # "unknown"
  /\ \E new \in BOOLEAN :
       /\ image' = (IF new THEN "new" ELSE "partial")
       /\ ImageFailure(new)
  /\ UNCHANGED <<host, ovmf, ran>>

UnknownArgument ==
  /\ stage = "image" /\ mode = "unknown"
  /\ End("error")
  /\ UNCHANGED <<host, ovmf, image, ran>>

BuildOnly ==
  /\ stage = "run" /\ mode = "build"
  /\ End("ok")
  /\ UNCHANGED <<host, ovmf, image, ran>>

-----------------------------------------------------------------------------
(* --boot: the firmware is looked for in the current directory. *)
FindOvmf ==
  /\ stage = "run" /\ mode = "boot"
  /\ Go(IF "cwd" \in ovmf THEN "qemu" ELSE "download")
  /\ UNCHANGED <<host, ovmf, image, ran>>

(* download_ovmf: the command's status is not looked at. *)
DownloadOvmf ==
  /\ stage = "download"
  /\ \E outcome \in Outcomes :
       /\ ovmf' = (IF outcome = "ok" THEN ovmf \cup {"extracted"} ELSE ovmf)
       /\ IF outcome = "unspawned" THEN End("panic") ELSE Go("copy")
  /\ UNCHANGED <<host, image, ran>>

CopyOvmfUnchecked ==
  /\ stage = "copy"
  /\ \E outcome \in Outcomes :
       /\ outcome = "ok" => "extracted" \in ovmf
       /\ ovmf' = (IF outcome = "ok" THEN ovmf \cup {"home"} \cup (IF atHome THEN {"cwd"} ELSE {})
                   ELSE ovmf)
       /\ IF outcome = "unspawned" THEN End("panic") ELSE Go("qemu")
  /\ UNCHANGED <<host, image, ran>>

(* download_ovmf: cp from what was extracted to `home'. *)
CopyOvmf ==
  /\ stage = "copy"
  /\ \E outcome \in Outcomes :
       /\ outcome = "ok" => "extracted" \in ovmf
       /\ ovmf' = (IF outcome = "ok" THEN ovmf \cup {"home"} \cup (IF atHome THEN {"cwd"} ELSE {})
                   ELSE ovmf)
       /\ Checked(outcome, "panic", "qemu")
  /\ UNCHANGED <<host, image, ran>>

(* run_qemu asks for the distribution again. *)
SnapWorkaround ==
  /\ stage = "qemu" /\ HostDistro("spawn")
  /\ UNCHANGED <<host, ovmf, image, ran>>

(* QEMU cannot run without its firmware. *)
RunQemu ==
  /\ stage = "spawn"
  /\ \E outcome \in Outcomes :
       /\ outcome = "ok" => "home" \in ovmf
       /\ ran' = outcome
       /\ IF outcome = "ok" THEN End("ok") ELSE Checked(outcome, "panic", "end")
  /\ UNCHANGED <<host, ovmf, image>>

-----------------------------------------------------------------------------
(* --write: a line that cannot be read is a cancellation; any other, also  *)
(* a blank one, goes to dd, whose status is not looked at.                 *)
WriteImage ==
  /\ stage = "run" /\ mode = "write"
  /\ \/ /\ input = "error"
        /\ End("ok") /\ UNCHANGED ran
     \/ /\ input # "error"
        /\ \E outcome \in Outcomes :
             /\ ran' = outcome
             /\ End(IF outcome = "unspawned" THEN "error" ELSE "ok")
  /\ UNCHANGED <<host, ovmf, image>>

Ended == stage = "end" /\ UNCHANGED runnerVars

RunnerNext ==
  \/ Distro \/ InstallUbuntuDeps \/ InstallArchDeps
  \/ CreateDiskImage \/ UnknownArgument \/ BuildOnly
  \/ FindOvmf \/ DownloadOvmf \/ CopyOvmf \/ SnapWorkaround \/ RunQemu \/ WriteImage
  \/ Ended

RunnerSpec == RunnerInit /\ [][RunnerNext]_runnerVars

-----------------------------------------------------------------------------
(* When the tool runs in `home', QEMU is started only with the firmware in *)
(* place, whatever becomes of the download and the copy; an old extracted  *)
(* copy will do.                                                           *)
FirmwareInPlace == (atHome /\ stage = "spawn") => "home" \in ovmf

(* Nothing is booted or written but the image made by this run, and the    *)
(* tool reports success only if there is one and QEMU, where it was asked  *)
(* for, has run to its end.                                                *)
SuccessMeansDone ==
  /\ ran # None => image = "new"
  /\ exit = "ok" => image = "new" /\ (mode = "boot" => ran = "ok")
=============================================================================

---------------------------- MODULE ModelDeploy ----------------------------
(***************************************************************************)
(* How a model gets to classify: install_model.sh and install.sh put files *)
(* in place, possibly interrupted, while daemons are started and stopped;  *)
(* a daemon reads aie.conf once, and OnnxClassifier loads the model at its *)
(* first classification, for good or not at all; each inference may fail.  *)
(***************************************************************************)
EXTENDS FiniteSets

CONSTANTS
    Names,       (* names of model files in share/aie-os                   *)
    DefaultName, (* the one config/aie.conf has                            *)
    Unset        (* "no such line", "no name"                              *)

ASSUME DeployAssumption ==
    /\ DefaultName \in Names
    /\ Unset \notin Names \cup {"heuristic", "onnx", "model"}

\* A "bad" file makes the session's constructor throw; a "misfit" is a model
\* whose session may throw when it is asked for its names and shape.
Contents == {"good", "misfit", "bad"}
FileStates == Contents \cup {"absent", "partial"}

Confs == [classifier : {Unset, "heuristic", "onnx"}, model_path : Names \cup {Unset}]
NoConf == [classifier |-> Unset, model_path |-> Unset]

VARIABLES
    file,    (* the model files                                            *)
    exists,  (* whether /etc/aie-os/aie.conf does                          *)
    conf,    (* its settings                                               *)
    script,  (* the script that runs, its next step and its argument       *)
    daemon,  (* the daemon: its step, its settings, its OnnxClassifier     *)
    last     (* who made its last decision                                 *)

vars == <<file, exists, conf, script, daemon, last>>

NoScript == [at |-> "idle", name |-> Unset, content |-> "bad"]
Off == [at |-> "off", classifier |-> Unset, model_path |-> Unset,
        loaded |-> FALSE, load_failed |-> FALSE, session |-> "absent"]

Init ==
    /\ file = [n \in Names |-> "absent"]
    /\ exists = FALSE /\ conf = NoConf
    /\ script = NoScript
    /\ daemon = Off
    /\ last = Unset

Then(at) == script' = [script EXCEPT !.at = at]
-----------------------------------------------------------------------------
(* install_model.sh                                                        *)

InstallModel(n, c) ==
    /\ script.at = "idle"
    /\ script' = [at |-> "copy", name |-> n, content |-> c]
    /\ UNCHANGED <<file, exists, conf, daemon, last>>

\* cp truncates the file, and writes it.
CopyBegins ==
    /\ script.at = "copy"
    /\ file' = [file EXCEPT ![script.name] = "partial"]
    /\ Then("copying")
    /\ UNCHANGED <<exists, conf, daemon, last>>

CopyEnds ==
    /\ script.at = "copying"
    /\ file' = [file EXCEPT ![script.name] = script.content]
    /\ Then("configure")
    /\ UNCHANGED <<exists, conf, daemon, last>>

\* "Failed to copy model": exit 1.
AfterFailureGoesOn == "configure"
AfterFailure == "idle"

CopyFails ==
    /\ script.at = "copying"
    /\ Then(AfterFailure)
    /\ UNCHANGED <<file, exists, conf, daemon, last>>

\* sed replaces a line that is there; it never touches "classifier".
SedModelPath ==
    /\ script.at = "configure" /\ exists
    /\ conf' = IF conf.model_path = Unset THEN conf
               ELSE [conf EXCEPT !.model_path = script.name]
    /\ script' = NoScript
    /\ UNCHANGED <<file, exists, daemon, last>>

\* cat makes an empty file first.
CreateConf ==
    /\ script.at = "configure" /\ ~exists
    /\ exists' = TRUE /\ conf' = NoConf
    /\ Then("write")
    /\ UNCHANGED <<file, daemon, last>>

WriteConf ==
    /\ script.at = "write"
    /\ conf' = [classifier |-> "onnx", model_path |-> script.name]
    /\ script' = NoScript
    /\ UNCHANGED <<file, exists, daemon, last>>
-----------------------------------------------------------------------------
(* install_config of install.sh: "install" removes the file and makes it   *)
(* anew from config/aie.conf.                                              *)

RemoveConf ==
    /\ script.at = "idle"
    /\ exists' = FALSE /\ conf' = NoConf
    /\ script' = [NoScript EXCEPT !.at = "default"]
    /\ UNCHANGED <<file, daemon, last>>

DefaultConf ==
    /\ script.at = "default"
    /\ exists' = TRUE
    /\ conf' = [classifier |-> "heuristic", model_path |-> DefaultName]
    /\ script' = NoScript
    /\ UNCHANGED <<file, daemon, last>>

\* A script is killed, or the machine goes down.
Interrupt ==
    /\ script.at # "idle"
    /\ script' = NoScript
    /\ UNCHANGED <<file, exists, conf, daemon, last>>

\* The administrator follows the comment in aie.conf.
EditConf(c) ==
    /\ script.at = "idle" /\ exists
    /\ conf' = [conf EXCEPT !.classifier = c]
    /\ UNCHANGED <<file, exists, script, daemon, last>>
-----------------------------------------------------------------------------
(* The daemon                                                              *)

\* Config::get: what is not set has a default.
ClassifierOf(c) == IF c.classifier = Unset THEN "heuristic" ELSE c.classifier

\* init() loads aie.conf and makes the classifier.
StartDaemon ==
    /\ daemon.at = "off"
    /\ daemon' = [Off EXCEPT !.at = "ready", !.classifier = ClassifierOf(conf),
                             !.model_path = conf.model_path]
    /\ UNCHANGED <<file, exists, conf, script, last>>

StopDaemon ==
    /\ daemon.at # "off"
    /\ daemon' = Off /\ last' = Unset
    /\ UNCHANGED <<file, exists, conf, script>>

\* Classifier::classify decides.
Heuristic(d) == daemon' = [d EXCEPT !.at = "ready"] /\ last' = "heuristic"

\* The session decides, unless this call of Run throws.
Infer(d) == daemon' = [d EXCEPT !.at = "ready"] /\ last' \in {"model", "heuristic"}

\* load_failed_ keeps a daemon from trying again.
FailedForgotten(d) == d
Failed(d) == [d EXCEPT !.load_failed = TRUE, !.loaded = FALSE]

MayLoad == ~daemon.loaded /\ ~daemon.load_failed

Classify ==
    /\ daemon.at = "ready"
    /\ IF daemon.classifier = "heuristic" THEN Heuristic(daemon)
       ELSE IF MayLoad THEN daemon' = [daemon EXCEPT !.at = "open"] /\ UNCHANGED last
       ELSE IF daemon.loaded THEN Infer(daemon)
       ELSE Heuristic(daemon)
    /\ UNCHANGED <<file, exists, conf, script>>

FileNow == IF daemon.model_path = Unset THEN "absent" ELSE file[daemon.model_path]

\* load_model: is the file there?
OpenedAsLoaded(d) == [d EXCEPT !.at = "session", !.loaded = TRUE]
Opened(d) == [d EXCEPT !.at = "session"]

OpenModel ==
    /\ daemon.at = "open"
    /\ IF FileNow = "absent" THEN Heuristic(Failed(daemon))
       ELSE daemon' = Opened(daemon) /\ UNCHANGED last
    /\ UNCHANGED <<file, exists, conf, script>>

\* Ort::Session reads it, whatever it is by now.
OpenSession ==
    /\ daemon.at = "session"
    /\ IF FileNow \in {"good", "misfit"}
       THEN daemon' = [daemon EXCEPT !.at = "names", !.session = FileNow] /\ UNCHANGED last
       ELSE Heuristic(Failed(daemon))
    /\ UNCHANGED <<file, exists, conf, script>>

\* The names and the shape are cached, loaded_ is set, and classify goes on.
LoadedForgotten(d) == d
Loaded(d) == [d EXCEPT !.loaded = TRUE]

CacheNames ==
    /\ daemon.at = "names"
    /\ LET d == Loaded(daemon) IN IF d.loaded THEN Infer(d) ELSE Heuristic(d)
    /\ UNCHANGED <<file, exists, conf, script>>

\* One of these queries throws: the session stays, unused.
NamesFail ==
    /\ daemon.at = "names" /\ daemon.session = "misfit"
    /\ Heuristic(Failed(daemon))
    /\ UNCHANGED <<file, exists, conf, script>>
-----------------------------------------------------------------------------
Work == Classify \/ OpenModel \/ OpenSession \/ CacheNames \/ NamesFail

Next ==
    \/ \E n \in Names, c \in Contents : InstallModel(n, c)
    \/ CopyBegins \/ CopyEnds \/ CopyFails
    \/ SedModelPath \/ CreateConf \/ WriteConf
    \/ RemoveConf \/ DefaultConf \/ Interrupt
    \/ \E c \in {"heuristic", "onnx"} : EditConf(c)
    \/ StartDaemon \/ StopDaemon \/ Work

Spec == Init /\ [][Next]_vars

\* Every poll of the ring that times out gives the daemon something to
\* classify (AieDaemon), so classifications do not end.
FairSpec == Spec /\ WF_vars(Work)
-----------------------------------------------------------------------------
\* The type invariant.  A daemon that loaded a model has a session and has not
\* given up; without aie.conf there are no settings.
TypeOK ==
    /\ file \in [Names -> FileStates]
    /\ exists \in BOOLEAN /\ conf \in Confs /\ (~exists => conf = NoConf)
    /\ script \in [at : {"idle", "copy", "copying", "configure", "write", "default"},
                   name : Names \cup {Unset}, content : Contents]
    /\ daemon \in [at : {"off", "ready", "open", "session", "names"},
                   classifier : {Unset, "heuristic", "onnx"}, model_path : Names \cup {Unset},
                   loaded : BOOLEAN, load_failed : BOOLEAN,
                   session : {"absent", "good", "misfit"}]
    /\ daemon.loaded => daemon.session # "absent" /\ ~daemon.load_failed
    /\ last \in {Unset, "heuristic", "model"}

\* After its first decision a daemon neither loads, drops nor replaces a model,
\* whatever is installed, replaced or half copied while it runs; a failed load
\* is final, wherever it failed, and a model's decision takes a loaded model.
\* With one, single calls may still fall back to the heuristic.
LoadSettled ==
    [][daemon.at # "off" /\ daemon'.at # "off" /\ last # Unset =>
          /\ daemon'.loaded = daemon.loaded /\ daemon'.session = daemon.session
          /\ last' = "model" => daemon.loaded]_vars

\* aie.conf is made to select a model by install_model.sh only once the model
\* is there, complete, though the copy may fail and the script be interrupted.
SelectedIsWhole ==
    [][conf'.classifier = "onnx" /\ conf'.model_path # conf.model_path
          => file[conf'.model_path] \in Contents]_vars

\* A daemon that was started with the classifier enabled and a good model in
\* place, and has not looked at the file before, comes to load it, so that every
\* later classification asks it first, unless the file is touched again.
EnabledModelUsed ==
    (/\ daemon.at = "ready" /\ daemon.classifier = "onnx" /\ MayLoad
     /\ FileNow = "good")
        ~> (daemon.loaded \/ daemon.at = "off" \/ FileNow # "good")
=============================================================================

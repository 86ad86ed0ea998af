------------------------- MODULE ModelDeployProofs -------------------------
(***************************************************************************)
(* For any names of models: the types of ModelDeploy, that the model of a  *)
(* daemon is settled by its first decision, and that aie.conf comes to     *)
(* select complete files only.                                             *)
(***************************************************************************)
EXTENDS ModelDeploy, TLAPS

Scripts == [at : {"idle", "copy", "copying", "configure", "write", "default"},
            name : Names \cup {Unset}, content : Contents]

Daemons == [at : {"off", "ready", "open", "session", "names"},
            classifier : {Unset, "heuristic", "onnx"}, model_path : Names \cup {Unset},
            loaded : BOOLEAN, load_failed : BOOLEAN,
            session : {"absent", "good", "misfit"}]

\* What the scripts rely on: a model is named while it is copied, and whole
\* before aie.conf is touched; the file that is written was made.
ScriptInv ==
    /\ script.at \in {"copy", "copying", "configure", "write"} => script.name \in Names
    /\ script.at \in {"configure", "write"} => file[script.name] \in Contents
    /\ script.at = "write" => exists

\* A daemon that is loading has neither a model nor given up, and it got past a
\* session only with one in hand.
LoadInv ==
    /\ daemon.at \in {"open", "session", "names"} =>
          ~daemon.loaded /\ ~daemon.load_failed /\ daemon.classifier # "heuristic"
    /\ daemon.at = "names" => daemon.session # "absent"

\* A daemon that has decided is not loading, and will not: it has a model, gave
\* up or was not asked to.  A model's decision takes a loaded one.
DecidedInv ==
    /\ last # Unset => /\ daemon.at = "ready"
                       /\ \/ daemon.classifier = "heuristic"
                          \/ daemon.loaded \/ daemon.load_failed
    /\ last = "model" => daemon.loaded

IInv == TypeOK /\ ScriptInv /\ LoadInv /\ DecidedInv

\* The actions of the scripts, and of whoever interrupts them or edits aie.conf.
ScriptStep ==
    \/ \E n \in Names, c \in Contents : InstallModel(n, c)
    \/ CopyBegins \/ CopyEnds \/ CopyFails
    \/ SedModelPath \/ CreateConf \/ WriteConf
    \/ RemoveConf \/ DefaultConf \/ Interrupt
    \/ \E c \in {"heuristic", "onnx"} : EditConf(c)
-----------------------------------------------------------------------------
LEMMA Initial == Init => IInv
<1> SUFFICES ASSUME Init PROVE IInv
  OBVIOUS
<1> USE DeployAssumption DEF Init
<1>1. TypeOK
  BY DEF TypeOK, NoScript, Off, NoConf, Confs, FileStates, Contents
<1>2. ScriptInv /\ LoadInv /\ DecidedInv
  BY DEF ScriptInv, LoadInv, DecidedInv, NoScript, Off
<1> QED
  BY <1>1, <1>2 DEF IInv

\* The scripts leave daemons alone, and keep their own promise.
LEMMA ScriptsKeep == IInv /\ ScriptStep => IInv'
<1> SUFFICES ASSUME IInv, ScriptStep PROVE IInv'
  OBVIOUS
<1> USE DeployAssumption
<1>1. UNCHANGED <<daemon, last>>
  BY DEF ScriptStep, InstallModel, CopyBegins, CopyEnds, CopyFails, SedModelPath,
         CreateConf, WriteConf, RemoveConf, DefaultConf, Interrupt, EditConf
<1>2. LoadInv' /\ DecidedInv'
  BY <1>1 DEF IInv, LoadInv, DecidedInv
<1> DEFINE Typed == /\ file \in [Names -> FileStates]
                    /\ exists \in BOOLEAN /\ conf \in Confs /\ (~exists => conf = NoConf)
                    /\ script \in Scripts
<1>3. Typed /\ ScriptInv
  BY DEF IInv, TypeOK, Scripts
<1>4. Typed' /\ ScriptInv'
  <2> USE <1>3 DEF ScriptInv, Scripts, Confs, FileStates, Contents, NoConf, NoScript, Then
  <2>1. ASSUME NEW n \in Names, NEW c \in Contents, InstallModel(n, c)
        PROVE  Typed' /\ ScriptInv'
    BY <2>1 DEF InstallModel
  <2>2. CASE CopyBegins
    BY <2>2 DEF CopyBegins
  <2>3. CASE CopyEnds
    BY <2>3 DEF CopyEnds
  <2>4. CASE CopyFails
    BY <2>4 DEF CopyFails, AfterFailure
  <2>5. CASE SedModelPath
    BY <2>5 DEF SedModelPath
  <2>6. CASE CreateConf
    BY <2>6 DEF CreateConf
  <2>7. CASE WriteConf
    BY <2>7 DEF WriteConf
  <2>8. CASE RemoveConf
    BY <2>8 DEF RemoveConf
  <2>9. CASE DefaultConf
    BY <2>9 DEF DefaultConf
  <2>10. CASE Interrupt
    BY <2>10 DEF Interrupt
  <2>11. ASSUME NEW c \in {"heuristic", "onnx"}, EditConf(c)
         PROVE  Typed' /\ ScriptInv'
    BY <2>11 DEF EditConf
  <2> QED
    BY <2>1, <2>2, <2>3, <2>4, <2>5, <2>6, <2>7, <2>8, <2>9, <2>10, <2>11 DEF ScriptStep
<1>5. TypeOK'
  BY <1>1, <1>4 DEF IInv, TypeOK, Scripts
<1> QED
  BY <1>2, <1>4, <1>5 DEF IInv

\* The steps of a daemon.  What it reads of a file decides what it becomes.
LEMMA DaemonKeeps == IInv /\ (StartDaemon \/ StopDaemon \/ Work) => IInv'
<1> SUFFICES ASSUME IInv, StartDaemon \/ StopDaemon \/ Work PROVE IInv'
  OBVIOUS
<1> USE DeployAssumption
<1>1. UNCHANGED <<file, exists, conf, script>>
  BY DEF StartDaemon, StopDaemon, Work, Classify, OpenModel, OpenSession, CacheNames,
         NamesFail
<1>2. ScriptInv'
  BY <1>1 DEF IInv, ScriptInv
<1> DEFINE Typed == /\ daemon \in Daemons
                    /\ daemon.loaded => daemon.session # "absent" /\ ~daemon.load_failed
                    /\ last \in {Unset, "heuristic", "model"}
           D == Typed /\ LoadInv /\ DecidedInv
<1>3. D /\ conf \in Confs
  BY DEF IInv, TypeOK, Daemons
<1>4. D'
  <2> USE <1>3 DEF Daemons, LoadInv, DecidedInv
  <2>1. CASE StartDaemon
    BY <2>1 DEF StartDaemon, Off, ClassifierOf, Confs
  <2>2. CASE StopDaemon
    BY <2>2 DEF StopDaemon, Off
  <2>3. CASE Classify
    BY <2>3 DEF Classify, Heuristic, Infer, MayLoad
  <2>4. CASE OpenModel
    BY <2>4 DEF OpenModel, Heuristic, Failed, Opened
  <2>5. CASE OpenSession
    BY ZenonT(60), <2>5 DEF OpenSession, Heuristic, Failed
  <2>6. CASE CacheNames
    BY <2>6 DEF CacheNames, Heuristic, Infer, Loaded
  <2>7. CASE NamesFail
    BY <2>7 DEF NamesFail, Heuristic, Failed
  <2> QED
    BY <2>1, <2>2, <2>3, <2>4, <2>5, <2>6, <2>7 DEF Work
<1>5. TypeOK'
  BY <1>1, <1>4 DEF IInv, TypeOK, Daemons
<1> QED
  BY <1>2, <1>4, <1>5 DEF IInv

LEMMA Inductive == IInv /\ [Next]_vars => IInv'
<1> SUFFICES ASSUME IInv, [Next]_vars PROVE IInv'
  OBVIOUS
<1>1. CASE Next
  BY <1>1, ScriptsKeep, DaemonKeeps DEF Next, ScriptStep
<1>2. CASE UNCHANGED vars
  BY <1>2 DEF vars, IInv, TypeOK, ScriptInv, LoadInv, DecidedInv
<1> QED
  BY <1>1, <1>2

LEMMA InvariantHolds == Spec => []IInv
  BY Initial, Inductive, PTL DEF Spec
-----------------------------------------------------------------------------
\* Files, settings, scripts and daemons keep their types; a daemon that holds a
\* model has a session and has not given up.
THEOREM TypeCorrect == Spec => []TypeOK
<1>1. IInv => TypeOK
  BY DEF IInv
<1> QED
  BY <1>1, InvariantHolds, PTL

\* The first decision of a daemon settles whether it has a model, and which one:
\* loaded_ and load_failed_ are sticky, and no file is read again, whichever of
\* the later inferences fall back.
THEOREM LoadIsSettled == Spec => LoadSettled
<1> DEFINE Settled == /\ daemon'.loaded = daemon.loaded
                      /\ daemon'.session = daemon.session
                      /\ last' = "model" => daemon.loaded
<1>1. IInv /\ [Next]_vars =>
        [daemon.at # "off" /\ daemon'.at # "off" /\ last # Unset => Settled]_vars
  <2> SUFFICES ASSUME IInv, Next, daemon.at # "off", daemon'.at # "off", last # Unset
               PROVE  Settled
    BY DEF vars
  <2> USE DeployAssumption
  <2>1. /\ daemon.at = "ready" /\ DecidedInv /\ daemon \in Daemons
    BY DEF IInv, DecidedInv, TypeOK, Daemons
  <2>2. CASE Classify
    BY <2>1, <2>2 DEF Classify, Heuristic, Infer, MayLoad, DecidedInv, Daemons
  <2>3. CASE StopDaemon
    BY <2>3 DEF StopDaemon, Off
  <2>4. CASE StartDaemon \/ OpenModel \/ OpenSession \/ CacheNames \/ NamesFail
    BY <2>1, <2>4 DEF StartDaemon, OpenModel, OpenSession, CacheNames, NamesFail
  <2>5. CASE ScriptStep
    <3>1. UNCHANGED <<daemon, last>>
      BY <2>5 DEF ScriptStep, InstallModel, CopyBegins, CopyEnds, CopyFails, SedModelPath,
             CreateConf, WriteConf, RemoveConf, DefaultConf, Interrupt, EditConf
    <3> QED
      BY <2>1, <3>1 DEF DecidedInv
  <2> QED
    BY <2>2, <2>3, <2>4, <2>5 DEF Next, Work, ScriptStep
<1> QED
  BY <1>1, InvariantHolds, PTL DEF Spec, LoadSettled

\* install_model.sh has aie.conf select a model only when the copy is complete,
\* wherever the script fails or is interrupted.
THEOREM SelectsWholeModels == Spec => SelectedIsWhole
<1>1. IInv /\ [Next]_vars =>
        [conf'.classifier = "onnx" /\ conf'.model_path # conf.model_path
            => file[conf'.model_path] \in Contents]_vars
  <2> SUFFICES ASSUME IInv, Next, conf'.classifier = "onnx",
                      conf'.model_path # conf.model_path
               PROVE  file[conf'.model_path] \in Contents
    BY DEF vars
  <2> USE DeployAssumption
  <2>1. ScriptInv /\ conf \in Confs
    BY DEF IInv, TypeOK
  <2>2. CASE SedModelPath
    BY <2>1, <2>2 DEF SedModelPath, ScriptInv, Confs
  <2>3. CASE WriteConf
    BY <2>1, <2>3 DEF WriteConf, ScriptInv
  <2>4. CASE CreateConf \/ RemoveConf \/ DefaultConf
    BY <2>4 DEF CreateConf, RemoveConf, DefaultConf, NoConf
  <2>5. ASSUME NEW c \in {"heuristic", "onnx"}, EditConf(c) PROVE FALSE
    BY <2>1, <2>5 DEF EditConf, Confs
  <2>6. ASSUME conf' = conf PROVE FALSE
    BY <2>6
  <2>7. CASE \/ \E n \in Names, c \in Contents : InstallModel(n, c)
             \/ CopyBegins \/ CopyEnds \/ CopyFails \/ Interrupt
             \/ StartDaemon \/ StopDaemon \/ Work
    BY <2>6, <2>7 DEF InstallModel, CopyBegins, CopyEnds, CopyFails, Interrupt,
           StartDaemon, StopDaemon, Work, Classify, OpenModel, OpenSession, CacheNames,
           NamesFail
  <2> QED
    BY <2>2, <2>3, <2>4, <2>5, <2>7 DEF Next
<1> QED
  BY <1>1, InvariantHolds, PTL DEF Spec, SelectedIsWhole
=============================================================================

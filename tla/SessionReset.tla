---------------------------- MODULE SessionReset ----------------------------
(***************************************************************************)
(* The files sessions share while they reset: the derived worker              *)
(* configurations every session publishes for itself                          *)
(* (rowhammer_env/mappers.py, mitigations.py) and the profile package a build *)
(* writes beside them (profile_builder/package) and every session verifies     *)
(* (profiles.py), up to the answer of RowHammerDisturbanceEnv.reset.           *)
(*                                                                         *)
(* Sessions may live in processes of their own; one that dies takes no further *)
(* step, and no step is forced on any.  Opening a file for writing and filling *)
(* it are two steps; so are two reads.                                       *)
(***************************************************************************)
EXTENDS ProfileModel

CONSTANTS
  Sessions, Builders,
  Sources,         \* name -> source, the checkouts a build may find
  Secrets,         \* secret mappers with their parameters
  Public,          \* the public mapper
  Requests,        \* what a session's reset asks for
  Geometry,        \* what the worker reports
  MaxKeys,         \* bound: signing keys there will be
  MaxActors,       \* bound: resets and builds that are ever begun
  Absent, Torn     \* no file, or a file that was opened and not filled

ASSUME SharedAssumption ==
  /\ Public \notin Secrets
  /\ Absent # Torn
  /\ \A f \in {Absent, Torn} : /\ f \notin Secrets \cup {Public} \cup DOMAIN Sources
                             /\ f \notin ({Absent, Torn} \cup 1..MaxKeys) \X DOMAIN Sources
  /\ MaxKeys \in Nat \ {0} /\ MaxActors \in Nat
  /\ Requests # {}
  /\ \A r \in Requests : r.mapper \in Secrets \cup {Public}

ADMITTED          == {"none", "oracle"}        \* mitigations
ADMITTED_PROFILES == {"ddr4_vts25_v1"}

VARIABLES
  seed,     \* the key the signing seed stands for
  pkg,      \* profile.json, profile.sig and the trusted public key
  build,    \* builder -> how far it is, what it built and signed
  built,    \* (history) what the last undisturbed build left
  yaml,     \* secret mapper -> its derived worker configuration
  tmp,      \* session -> its temporary file
  reset     \* session -> how far its reset is

package == <<seed, pkg, build, built>>
vars    == <<package, yaml, tmp, reset>>

Buildable == {name \in DOMAIN Sources : Admissible(Sources[name])}
Idle      == [pc |-> "idle", req |-> CHOOSE r \in Requests : TRUE, opened |-> Absent,
              json |-> Absent, sig |-> Absent, outcome |-> "none"]

Run(pc)   == [pc |-> pc, json |-> Absent, sig |-> Absent, pub |-> Absent, alone |-> TRUE]

Init ==
  /\ seed = 1
  /\ \E name \in Buildable \cup {Absent} :
       /\ pkg = IF name = Absent THEN [json |-> Absent, sig |-> Absent, pub |-> Absent]
                ELSE [json |-> name, sig |-> <<1, name>>, pub |-> 1]
       /\ built = name
  /\ build = [b \in Builders |-> Run("idle")]
  /\ yaml = [m \in Secrets |-> Absent]
  /\ tmp  = [s \in Sessions |-> Absent]
  /\ reset = [s \in Sessions |-> Idle]

Begun == {b \in Builders : build[b].pc # "idle"} \cup {s \in Sessions : reset[s].pc # "idle"}
MayBegin == Cardinality(Begun) < MaxActors

-----------------------------------------------------------------------------
(* Signing: only bytes signed whole, under the key itself, verify.            *)

verify(json, sig, pub) == json \in DOMAIN Sources /\ sig = <<pub, json>>

(* The seed file is replaced.                                                *)
Rotate ==
  /\ seed < MaxKeys
  /\ seed' = seed + 1
  /\ UNCHANGED <<pkg, build, built, yaml, tmp, reset>>

-----------------------------------------------------------------------------
(* A build.                                                                 *)

Building(b, pc) == build[b].pc = pc
WritePhase == {"sig", "fillsig", "pub", "fillpub", "filljson"}
AtWork(b) == build[b].pc \in WritePhase
Moves(b, pc) == build' = [build EXCEPT ![b].pc = pc]
Ends(b)      == build' = [build EXCEPT ![b] = Run("ended")]

(* load_source_pin to build_report: a gate that fails ends the build.          *)
Fit(b) ==
  /\ Building(b, "idle") /\ MayBegin
  /\ \E name \in DOMAIN Sources :
       IF name \in Buildable THEN build' = [build EXCEPT ![b].pc = "sign", ![b].json = name] ELSE Ends(b)
  /\ UNCHANGED <<seed, pkg, built>>

Sign(b) ==
  /\ Building(b, "sign")
  /\ build' = [build EXCEPT ![b].pc = "check", ![b].sig = <<seed, build[b].json>>]
  /\ UNCHANGED <<seed, pkg, built>>

(* (A bug: the fresh package is not verified.)                               *)
Unchecked(b) ==
  /\ Building(b, "check")
  /\ build' = [build EXCEPT ![b].pc = "json", ![b].pub = seed]
  /\ UNCHANGED <<seed, pkg, built>>

(* The public key is derived from the seed again; a package that does not      *)
(* verify under it is not written.                                           *)
Check(b) ==
  /\ Building(b, "check")
  /\ IF verify(build[b].json, build[b].sig, seed)
     THEN build' = [build EXCEPT ![b].pc = "json", ![b].pub = seed]
     ELSE Ends(b)
  /\ UNCHANGED <<seed, pkg, built>>

(* write_bytes and write_text truncate the file, then fill it.                *)
OpenJson(b) ==
  /\ Building(b, "json")
  /\ pkg' = [pkg EXCEPT !.json = Torn]
  /\ built' = Torn
  /\ build' = [c \in Builders |->
                 IF c = b THEN [build[b] EXCEPT !.pc = "filljson", !.alone = \A d \in Builders \ {b} : ~AtWork(d)]
                 ELSE [build[c] EXCEPT !.alone = @ /\ ~AtWork(c)]]
  /\ UNCHANGED seed

Opens(b, pc, file, next) ==
  /\ Building(b, pc)
  /\ pkg' = [pkg EXCEPT ![file] = Torn]
  /\ Moves(b, next)
  /\ UNCHANGED <<seed, built>>

Fills(b, pc, file, next) ==
  /\ Building(b, pc)
  /\ pkg' = [pkg EXCEPT ![file] = build[b][file]]
  /\ IF next = "done" THEN /\ Ends(b)
                          /\ built' = IF build[b].alone THEN build[b].json ELSE built
     ELSE Moves(b, next) /\ UNCHANGED built
  /\ UNCHANGED seed

Writes(b) ==
  \/ OpenJson(b)
  \/ Fills(b, "filljson", "json", "sig")
  \/ Opens(b, "sig", "sig", "fillsig")
  \/ Fills(b, "fillsig", "sig", "pub")
  \/ Opens(b, "pub", "pub", "fillpub")
  \/ Fills(b, "fillpub", "pub", "done")

(* One that dies over its files leaves the next build alone with them.        *)
BuilderDies(b) ==
  /\ AtWork(b)
  /\ Ends(b)
  /\ UNCHANGED <<seed, pkg, built>>

Builder(b) ==
  /\ Fit(b) \/ Sign(b) \/ Check(b) \/ Writes(b) \/ BuilderDies(b)
  /\ UNCHANGED <<yaml, tmp, reset>>

-----------------------------------------------------------------------------
(* A reset up to its worker: the derived configuration, the mitigation, the   *)
(* worker.                                                                   *)

At(s, pc)       == reset[s].pc = pc
Turns(s, pc)    == reset' = [reset EXCEPT ![s].pc = pc]

(* A reset that does not succeed keeps nothing.  It answers a terminal error,  *)
(* its worker closed again, or an exception leaves it that no handler takes.   *)
Ended(s, pc, result) == reset' = [reset EXCEPT ![s] = [Idle EXCEPT !.pc = pc, !.outcome = result]]
Answer(s, code) == Ended(s, "answered", code)
Escape(s, exc)  == Ended(s, "raised", exc)

(* (A bug: the path leaves the parameters out.)                              *)
NameOnly(r) == CHOOSE m \in Secrets : TRUE

(* The path is a function of the mapper and its parameters.                   *)
out_path(r) == r.mapper

Derive(s) ==
  /\ At(s, "idle") /\ MayBegin
  /\ \E r \in Requests :
       IF r.mapper = Public
       THEN reset' = [reset EXCEPT ![s].pc = "mitigate", ![s].req = r] /\ UNCHANGED tmp
       ELSE reset' = [reset EXCEPT ![s].pc = "write", ![s].req = r] /\ tmp' = [tmp EXCEPT ![s] = Torn]
  /\ UNCHANGED yaml

(* (A bug: the failed temporary file stays behind.)                          *)
LeavesTemp(s) ==
  /\ At(s, "replace")
  /\ \/ /\ yaml' = [yaml EXCEPT ![out_path(reset[s].req)] = tmp[s]] /\ Turns(s, "mitigate")
        /\ tmp' = [tmp EXCEPT ![s] = Absent]
     \/ Escape(s, "OSError") /\ UNCHANGED <<yaml, tmp>>

(* The temporary file is filled and flushed, or the write fails and it goes.  *)
WriteTemp(s) ==
  /\ At(s, "write")
  /\ \/ tmp' = [tmp EXCEPT ![s] = reset[s].req.mapper] /\ Turns(s, "replace")
     \/ tmp' = [tmp EXCEPT ![s] = Absent] /\ Escape(s, "OSError")
  /\ UNCHANGED yaml

Replace(s) ==
  /\ At(s, "replace")
  /\ tmp' = [tmp EXCEPT ![s] = Absent]
  /\ \/ yaml' = [yaml EXCEPT ![out_path(reset[s].req)] = tmp[s]] /\ Turns(s, "mitigate")
     \/ Escape(s, "OSError") /\ UNCHANGED yaml

Mitigate(s) ==
  /\ At(s, "mitigate")
  /\ IF reset[s].req.mitigation \in ADMITTED THEN Turns(s, "worker")
     ELSE Answer(s, "UNAVAILABLE_CAPABILITY")
  /\ UNCHANGED <<yaml, tmp>>

config(s) == IF reset[s].req.mapper = Public THEN Public ELSE yaml[out_path(reset[s].req)]

(* The worker or its configuration may not be there.                         *)
StartWorker(s) ==
  /\ At(s, "worker")
  /\ \/ config(s) # Absent /\ Turns(s, "open")
     \/ Answer(s, "UNAVAILABLE_CAPABILITY")
  /\ UNCHANGED <<yaml, tmp>>

(* The worker reads its configuration and reports its geometry, or it dies.    *)
WorkerOpens(s) ==
  /\ At(s, "open")
  /\ \/ reset' = [reset EXCEPT ![s].pc = "load", ![s].opened = config(s)]
     \/ Answer(s, "INTERNAL_SIMULATOR_ERROR")
  /\ UNCHANGED <<yaml, tmp>>

-----------------------------------------------------------------------------
(* Its profile: load_profile, verify_package, the engine.                    *)

LoadProfile(s) ==
  /\ At(s, "load")
  /\ IF reset[s].req.profile_id \notin ADMITTED_PROFILES THEN Answer(s, "UNAVAILABLE_CAPABILITY")
     ELSE IF pkg.json = Absent THEN Escape(s, "ProfileRejected")
     ELSE Turns(s, "json")
  /\ UNCHANGED <<yaml, tmp>>

ReadJson(s) ==
  /\ At(s, "json")
  /\ reset' = [reset EXCEPT ![s].pc = "sig", ![s].json = pkg.json]
  /\ UNCHANGED <<yaml, tmp>>

ReadSig(s) ==
  /\ At(s, "sig")
  /\ IF pkg.sig = Absent THEN Escape(s, "FileNotFoundError")
     ELSE reset' = [reset EXCEPT ![s].pc = "pub", ![s].sig = pkg.sig]
  /\ UNCHANGED <<yaml, tmp>>

Loaded(s, profile) ==
  LET verdict == Engine(profile, Geometry, reset[s].req.temperature) IN
  IF profile.profile_id # reset[s].req.profile_id THEN Answer(s, "PROFILE_REJECTED")
  ELSE IF verdict = "ok" THEN reset' = [reset EXCEPT ![s].pc = "answered", ![s].outcome = "ok", ![s].sig = Absent]
  ELSE IF verdict = "ValueError" THEN Escape(s, "ValueError")
  ELSE Answer(s, verdict)

ReadPub(s) ==
  /\ At(s, "pub")
  /\ IF pkg.pub = Absent THEN Escape(s, "FileNotFoundError")
     ELSE IF ~verify(reset[s].json, reset[s].sig, pkg.pub) THEN Escape(s, "ProfileRejected")
     ELSE Loaded(s, Profile(Sources[reset[s].json]))
  /\ UNCHANGED <<yaml, tmp>>

Reset(s) ==
  \/ Derive(s) \/ WriteTemp(s) \/ Replace(s) \/ Mitigate(s) \/ StartWorker(s) \/ WorkerOpens(s)
  \/ LoadProfile(s) \/ ReadJson(s) \/ ReadSig(s) \/ ReadPub(s)

Next ==
  \/ Rotate
  \/ \E b \in Builders : Builder(b)
  \/ \E s \in Sessions : Reset(s) /\ UNCHANGED package

Spec == Init /\ [][Next]_vars

-----------------------------------------------------------------------------
(* Properties.                                                              *)

Content == {Absent, Torn} \cup DOMAIN Sources
Signature == {Absent, Torn} \cup ((1..MaxKeys) \X DOMAIN Sources)

(* Files hold what was written into them, nobody's memory anything else; and   *)
(* a temporary file exists while its session writes it and never after: a reset *)
(* that ends, however it ends, leaves none, only one that died does            *)
(* (atomic_write_text unlinks on every exception).                             *)
TypeOK ==
  /\ seed \in 1..MaxKeys
  /\ pkg.json \in Content /\ pkg.sig \in Signature /\ pkg.pub \in {Absent, Torn} \cup 1..MaxKeys
  /\ built \in Content
  /\ \A b \in Builders : build[b].json \in Content /\ build[b].sig \in Signature
  /\ yaml \in [Secrets -> Secrets \cup {Absent, Torn}]
  /\ \A s \in Sessions : tmp[s] = CASE reset[s].pc = "write" -> Torn
                                    [] reset[s].pc = "replace" -> reset[s].req.mapper
                                    [] OTHER -> Absent
  /\ \A s \in Sessions : /\ reset[s].req \in Requests
                         /\ reset[s].json \in Content /\ reset[s].sig \in Signature

(* However sessions that made the same choice race for its path, and wherever  *)
(* one of them dies, a worker reads a complete configuration, the one of its   *)
(* own session (atomic_write_text: "readers see either the old complete file   *)
(* or the new complete file, never a torn one").                              *)
WorkerReadsOwnConfig ==
  \A s \in Sessions : reset[s].opened # Absent => reset[s].opened = reset[s].req.mapper

(* A profile a session plays with came whole out of a build whose source was   *)
(* pinned and whose held-out report passed, and covers the standard and the    *)
(* temperature asked for, whatever the builds did to the files in between.     *)
AcceptedWasBuilt ==
  \A s \in Sessions : reset[s].outcome = "ok" =>
    /\ reset[s].json \in DOMAIN Sources
    /\ LET src == Sources[reset[s].json] IN
         /\ pinned(src) /\ report_passed(src)
         /\ src.config.standard = Geometry.standard
         /\ reset[s].req.temperature \in supported_temperatures(src.ds)

(* A build that reports success and that no other build wrote beside leaves a  *)
(* package that verifies, keys rotated in its middle included.                *)
FinishedBuildLoads ==
  built \in DOMAIN Sources => pkg.json = built /\ verify(pkg.json, pkg.sig, pkg.pub)
=============================================================================

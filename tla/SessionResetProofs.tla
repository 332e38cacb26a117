------------------------- MODULE SessionResetProofs -------------------------
(***************************************************************************)
(* Theorems about SessionReset, for any sessions, builds, sources, mappers and *)
(* keys: what a worker opens, what a session accepts and what a build leaves. *)
(***************************************************************************)
EXTENDS SessionReset, TLAPS

(* A signature that exists was made for a profile that passed every gate.     *)
Signed   == {Absent, Torn} \cup ((1..MaxKeys) \X Buildable)
Keys     == {Absent, Torn} \cup 1..MaxKeys
BuildAt  == {"idle", "sign", "check", "json", "ended"} \cup WritePhase
ResetAt  == {"idle", "write", "replace", "mitigate", "worker", "open", "load", "json", "sig", "pub",
             "answered", "raised"}
Outcomes == {"none", "ok", "OSError", "UNAVAILABLE_CAPABILITY", "INTERNAL_SIMULATOR_ERROR", "ProfileRejected",
             "FileNotFoundError", "PROFILE_REJECTED", "ValueError"}
Packages == [json : Content, sig : Signed, pub : Keys]
Builds   == [pc : BuildAt, json : Content, sig : Signed, pub : Keys, alone : BOOLEAN]
Resets   == [pc : ResetAt, req : Requests, opened : Secrets \cup {Public, Absent},
             json : Content, sig : Signed, outcome : Outcomes]

BuildShape ==
  /\ seed \in 1..MaxKeys /\ pkg \in Packages /\ built \in Content
  /\ build \in [Builders -> Builds]

ResetShape ==
  /\ yaml \in [Secrets -> Secrets \cup {Absent}]
  /\ tmp \in [Sessions -> Secrets \cup {Absent, Torn}]
  /\ reset \in [Sessions -> Resets]

(* How far a build is, and what it holds by then.                            *)
Verified(b) ==
  /\ build[b].pc = "sign" => build[b].json \in Buildable
  /\ build[b].pc \in {"json"} \cup WritePhase => verify(build[b].json, build[b].sig, build[b].pub)

(* The files of a build that works alone are its own, up to the one it writes. *)
OwnFiles(b) ==
  AtWork(b) =>
    /\ built = Torn
    /\ build[b].alone =>
         /\ \A d \in Builders \ {b} : ~AtWork(d)
         /\ build[b].pc # "filljson" => pkg.json = build[b].json
         /\ build[b].pc \in {"pub", "fillpub"} => pkg.sig = build[b].sig

BuildInv ==
  /\ BuildShape /\ FinishedBuildLoads
  /\ \A b \in Builders : Verified(b) /\ OwnFiles(b)

(* A path holds nothing or its own configuration, whole; from the moment a     *)
(* session has published its own, the path is never without it again.         *)
Config(s) ==
  /\ reset[s].pc = "write" => tmp[s] = Torn /\ reset[s].req.mapper \in Secrets
  /\ reset[s].pc = "replace" => tmp[s] = reset[s].req.mapper /\ reset[s].req.mapper \in Secrets
  /\ reset[s].pc \notin {"write", "replace"} => tmp[s] = Absent
  /\ reset[s].pc \in {"mitigate", "worker", "open"} => config(s) = reset[s].req.mapper
  /\ reset[s].pc = "idle" => reset[s].opened = Absent
  /\ reset[s].opened \in {Absent, reset[s].req.mapper}

(* What a session plays with.                                               *)
Accepted(s) ==
  reset[s].outcome = "ok" =>
    /\ reset[s].pc = "answered"
    /\ reset[s].json \in Buildable
    /\ Sources[reset[s].json].config.standard = Geometry.standard
    /\ reset[s].req.temperature \in supported_temperatures(Sources[reset[s].json].ds)

ResetInv ==
  /\ ResetShape
  /\ \A m \in Secrets : yaml[m] \in {Absent, m}
  /\ \A s \in Sessions : Config(s) /\ Accepted(s)

IInv == BuildInv /\ ResetInv

USE DEF package, vars

-----------------------------------------------------------------------------
(* The values a field may have.                                              *)

LEMMA Marks ==
  /\ Absent \in Content /\ Torn \in Content /\ Absent \in Signed /\ Torn \in Signed
  /\ Absent \in Keys /\ Torn \in Keys /\ 1..MaxKeys \subseteq Keys
  /\ Absent # Torn /\ Absent \notin DOMAIN Sources /\ Torn \notin DOMAIN Sources
  /\ Buildable \subseteq DOMAIN Sources /\ DOMAIN Sources \subseteq Content
  /\ Absent \notin Secrets /\ Torn \notin Secrets /\ Public \notin Secrets
  /\ Absent # Public /\ 1 \in 1..MaxKeys
BY SharedAssumption DEF Content, Signed, Keys, Buildable

LEMMA IdleIsAReset ==
  /\ Idle \in Resets /\ Idle.pc = "idle" /\ Idle.opened = Absent /\ Idle.outcome = "none"
  /\ Run("ended") \in Builds /\ Run("idle") \in Builds
  /\ Run("ended").pc = "ended" /\ Run("idle").pc = "idle"
<1> DEFINE any == CHOOSE r \in Requests : TRUE
<1>1. any \in Requests
  BY SharedAssumption
<1>2. Idle = [pc |-> "idle", req |-> any, opened |-> Absent, json |-> Absent, sig |-> Absent, outcome |-> "none"]
  BY DEF Idle
<1> HIDE DEF any
<1>3. Idle \in Resets
  BY <1>1, <1>2, Marks DEF Resets, ResetAt, Outcomes
<1>5. Idle.pc = "idle" /\ Idle.opened = Absent /\ Idle.outcome = "none"
  BY <1>2
<1>6. Absent \in Content /\ Absent \in Signed /\ Absent \in Keys
  BY Marks
<1>4. /\ Run("ended") \in Builds /\ Run("idle") \in Builds
  BY <1>6 DEF Run, Builds, BuildAt
<1>7. Run("ended").pc = "ended" /\ Run("idle").pc = "idle"
  BY DEF Run
<1> QED BY <1>3, <1>4, <1>5, <1>7

(* Only a profile that passed every gate verifies.                           *)
LEMMA VerifiedIsBuilt ==
  ASSUME NEW json, NEW sig \in Signed, NEW pub \in Keys, verify(json, sig, pub)
  PROVE  json \in Buildable
<1>1. sig = <<pub, json>> /\ json \in DOMAIN Sources
  BY DEF verify
<1>2. sig \in (1..MaxKeys) \X Buildable
  BY <1>1, SharedAssumption DEF Signed, Keys
<1> QED BY <1>1, <1>2

LEMMA InitHolds == Init => IInv
<1> SUFFICES ASSUME Init PROVE IInv
  OBVIOUS
<1>1. PICK name \in Buildable \cup {Absent} :
        /\ pkg = IF name = Absent THEN [json |-> Absent, sig |-> Absent, pub |-> Absent]
                 ELSE [json |-> name, sig |-> <<1, name>>, pub |-> 1]
        /\ built = name
  BY DEF Init
<1>2. BuildShape
  <2>1. name # Absent => <<1, name>> \in Signed
    BY <1>1, Marks DEF Signed
  <2>2. pkg \in Packages
    BY <1>1, <2>1, Marks DEF Packages
  <2> QED BY <1>1, <2>2, Marks, IdleIsAReset DEF Init, BuildShape
<1>3. FinishedBuildLoads
  BY <1>1, Marks DEF FinishedBuildLoads, verify
<1>4. ASSUME NEW b \in Builders PROVE Verified(b) /\ OwnFiles(b)
  BY IdleIsAReset DEF Init, Verified, OwnFiles, AtWork, WritePhase
<1>5. ResetInv
  BY Marks, IdleIsAReset DEF Init, ResetInv, ResetShape, Config, Accepted
<1> QED BY <1>2, <1>3, <1>4, <1>5 DEF IInv, BuildInv

-----------------------------------------------------------------------------
(* Builds.                                                                  *)

(* A step of a build that neither stands nor comes to stand over its files.    *)
LEMMA AsideKeeps ==
  ASSUME BuildInv, NEW b \in Builders, build' \in [Builders -> Builds],
         \A c \in Builders \ {b} : build'[c] = build[c],
         build'[b].pc \notin WritePhase, Verified(b)', UNCHANGED <<seed, pkg, built>>
  PROVE  BuildInv'
<1>1. BuildShape' /\ FinishedBuildLoads'
  BY DEF BuildInv, BuildShape, FinishedBuildLoads
<1>2. ASSUME NEW c \in Builders PROVE Verified(c)'
  BY DEF BuildInv, Verified
<1>3. ASSUME NEW c \in Builders PROVE OwnFiles(c)'
  <2>1. CASE c = b
    BY <2>1 DEF OwnFiles, AtWork
  <2>2. CASE c # b
    <3>1. build'[c] = build[c] /\ OwnFiles(c)
      BY <2>2 DEF BuildInv
    <3>2. \A d \in Builders : AtWork(d)' => AtWork(d)
      BY DEF AtWork
    <3> QED BY <3>1, <3>2 DEF OwnFiles, AtWork
  <2> QED BY <2>1, <2>2
<1> QED BY <1>1, <1>2, <1>3 DEF BuildInv

LEMMA EndsKeeps ==
  ASSUME BuildInv, NEW b \in Builders, Ends(b), UNCHANGED <<seed, pkg, built>>
  PROVE  BuildInv'
<1>1. /\ build' \in [Builders -> Builds] /\ build'[b].pc = "ended"
      /\ \A c \in Builders \ {b} : build'[c] = build[c]
  BY IdleIsAReset DEF BuildInv, BuildShape, Ends
<1>2. Verified(b)' /\ build'[b].pc \notin WritePhase
  BY <1>1 DEF Verified, WritePhase
<1> QED BY <1>1, <1>2, AsideKeeps

LEMMA FitKeeps == ASSUME BuildInv, NEW b \in Builders, Fit(b) PROVE BuildInv'
<1>1. PICK name \in DOMAIN Sources :
        IF name \in Buildable THEN build' = [build EXCEPT ![b].pc = "sign", ![b].json = name] ELSE Ends(b)
  BY DEF Fit
<1>2. CASE name \in Buildable
  <2>1. build[b] \in Builds /\ name \in Content
    BY Marks DEF BuildInv, BuildShape
  <2>2. build' \in [Builders -> Builds]
    BY <1>1, <1>2, <2>1 DEF BuildInv, BuildShape, Builds, BuildAt
  <2>3. /\ build'[b].pc = "sign" /\ build'[b].json = name
        /\ \A c \in Builders \ {b} : build'[c] = build[c]
    BY <1>1, <1>2, <2>1 DEF BuildInv, BuildShape, Builds
  <2>4. Verified(b)' /\ build'[b].pc \notin WritePhase
    BY <1>2, <2>3 DEF Verified, WritePhase
  <2> QED BY <2>2, <2>3, <2>4, AsideKeeps DEF Fit
<1>3. CASE name \notin Buildable
  BY <1>1, <1>3, EndsKeeps DEF Fit
<1> QED BY <1>2, <1>3

LEMMA SignKeeps == ASSUME BuildInv, NEW b \in Builders, Sign(b) PROVE BuildInv'
<1>1. build[b] \in Builds /\ build[b].json \in Buildable /\ seed \in 1..MaxKeys
  BY DEF BuildInv, BuildShape, Verified, Sign, Building
<1>2. <<seed, build[b].json>> \in Signed
  BY <1>1 DEF Signed
<1>3. build' \in [Builders -> Builds]
  BY <1>1, <1>2 DEF BuildInv, BuildShape, Builds, BuildAt, Sign
<1>4. build'[b].pc = "check" /\ \A c \in Builders \ {b} : build'[c] = build[c]
  BY <1>1 DEF BuildInv, BuildShape, Builds, Sign
<1>5. Verified(b)' /\ build'[b].pc \notin WritePhase
  BY <1>4 DEF Verified, WritePhase
<1> QED BY <1>3, <1>4, <1>5, AsideKeeps DEF Sign

LEMMA CheckKeeps == ASSUME BuildInv, NEW b \in Builders, Check(b) PROVE BuildInv'
<1>1. CASE verify(build[b].json, build[b].sig, seed)
  <2>1. build[b] \in Builds /\ seed \in Keys
    BY Marks DEF BuildInv, BuildShape
  <2>2. build' = [build EXCEPT ![b].pc = "json", ![b].pub = seed]
    BY <1>1 DEF Check
  <2>3. build' \in [Builders -> Builds]
    BY <2>1, <2>2 DEF BuildInv, BuildShape, Builds, BuildAt
  <2>4. /\ build'[b].pc = "json" /\ build'[b].pub = seed
        /\ build'[b].json = build[b].json /\ build'[b].sig = build[b].sig
        /\ \A c \in Builders \ {b} : build'[c] = build[c]
    BY <2>1, <2>2 DEF BuildInv, BuildShape, Builds
  <2>5. verify(build[b].json, build[b].sig, seed)'
    BY <1>1, <2>4 DEF Check, verify
  <2>6. Verified(b)' /\ build'[b].pc \notin WritePhase
    BY <2>4, <2>5 DEF Verified, WritePhase, Check
  <2> QED BY <2>3, <2>4, <2>6, AsideKeeps DEF Check
<1>2. CASE ~verify(build[b].json, build[b].sig, seed)
  BY <1>2, EndsKeeps DEF Check
<1> QED BY <1>1, <1>2

(* A step of a build over its files: what was published is gone, or still to   *)
(* come; a build that is alone there has the files it has written.           *)
LEMMA AtWorkKeeps ==
  ASSUME BuildInv, NEW b \in Builders, AtWork(b), built' = built, seed' = seed, pkg' \in Packages,
         NEW pc \in WritePhase, Moves(b, pc), pc # "filljson",
         build[b].alone =>
           /\ pkg'.json = build[b].json
           /\ pc \in {"pub", "fillpub"} => pkg'.sig = build[b].sig
  PROVE  BuildInv'
<1>1. /\ build' \in [Builders -> Builds]
      /\ build'[b] = [build[b] EXCEPT !.pc = pc]
      /\ \A c \in Builders \ {b} : build'[c] = build[c]
  BY DEF BuildInv, BuildShape, Builds, BuildAt, Moves
<1>2. /\ build'[b].pc = pc /\ build'[b].json = build[b].json /\ build'[b].sig = build[b].sig
      /\ build'[b].pub = build[b].pub /\ build'[b].alone = build[b].alone
  BY <1>1 DEF BuildInv, BuildShape, Builds
<1>3. built = Torn /\ OwnFiles(b)
  BY DEF BuildInv, OwnFiles
<1>4. BuildShape' /\ FinishedBuildLoads'
  BY <1>1, <1>3, Marks DEF BuildInv, BuildShape, FinishedBuildLoads
<1>5. ASSUME NEW c \in Builders PROVE Verified(c)'
  <2>1. CASE c = b
    BY <1>2, <2>1 DEF BuildInv, Verified, AtWork, WritePhase, verify
  <2>2. CASE c # b
    BY <1>1, <2>2 DEF BuildInv, Verified, verify
  <2> QED BY <2>1, <2>2
<1>6. ASSUME NEW c \in Builders PROVE OwnFiles(c)'
  <2>1. \A d \in Builders : AtWork(d)' <=> AtWork(d)
    BY <1>1, <1>2 DEF AtWork
  <2>2. CASE c = b
    BY <1>2, <1>3, <2>1, <2>2 DEF OwnFiles
  <2>3. CASE c # b
    <3>1. OwnFiles(c) /\ build'[c] = build[c]
      BY <1>1, <2>3 DEF BuildInv
    <3>2. AtWork(c) => ~build[c].alone
      BY <2>3, <3>1 DEF OwnFiles
    <3> QED BY <1>3, <2>1, <3>1, <3>2 DEF OwnFiles
  <2> QED BY <2>2, <2>3
<1> QED BY <1>4, <1>5, <1>6 DEF BuildInv

LEMMA OpenJsonKeeps == ASSUME BuildInv, NEW b \in Builders, OpenJson(b) PROVE BuildInv'
<1>1. /\ build' \in [Builders -> Builds]
      /\ build'[b] = [build[b] EXCEPT !.pc = "filljson", !.alone = \A d \in Builders \ {b} : ~AtWork(d)]
      /\ \A c \in Builders \ {b} : build'[c] = [build[c] EXCEPT !.alone = @ /\ ~AtWork(c)]
  BY DEF BuildInv, BuildShape, Builds, BuildAt, WritePhase, OpenJson
<1>2. \A c \in Builders : /\ build'[c].json = build[c].json /\ build'[c].sig = build[c].sig
                          /\ build'[c].pub = build[c].pub
                          /\ c # b => build'[c].pc = build[c].pc
  <2> SUFFICES ASSUME NEW c \in Builders
               PROVE  /\ build'[c].json = build[c].json /\ build'[c].sig = build[c].sig
                      /\ build'[c].pub = build[c].pub
                      /\ c # b => build'[c].pc = build[c].pc
    OBVIOUS
  <2>1. build[c] \in Builds
    BY DEF BuildInv, BuildShape
  <2>2. CASE c = b
    BY <1>1, <2>1, <2>2 DEF Builds
  <2>3. CASE c # b
    BY <1>1, <2>1, <2>3 DEF Builds
  <2> QED BY <2>2, <2>3
<1>3. /\ build'[b].pc = "filljson"
      /\ build'[b].alone => \A d \in Builders \ {b} : ~AtWork(d)
      /\ \A c \in Builders \ {b} : build'[c].alone => ~AtWork(c)
  BY <1>1 DEF BuildInv, BuildShape, Builds
<1>4. pkg' \in Packages /\ built' = Torn /\ Torn \in Content
  BY Marks DEF BuildInv, BuildShape, Packages, OpenJson
<1>5. BuildShape' /\ FinishedBuildLoads'
  BY <1>1, <1>4, Marks DEF BuildInv, BuildShape, FinishedBuildLoads, OpenJson
<1>6. ASSUME NEW c \in Builders PROVE Verified(c)'
  BY <1>2, <1>3 DEF BuildInv, Verified, OpenJson, Building, WritePhase, verify
<1>7. ASSUME NEW c \in Builders PROVE OwnFiles(c)'
  BY <1>2, <1>3, <1>4 DEF OwnFiles, AtWork
<1> QED BY <1>5, <1>6, <1>7 DEF BuildInv

LEMMA OpensKeeps ==
  ASSUME BuildInv, NEW b \in Builders,
         Opens(b, "sig", "sig", "fillsig") \/ Opens(b, "pub", "pub", "fillpub")
  PROVE  BuildInv'
<1>1. AtWork(b) /\ OwnFiles(b) /\ build[b].pc # "filljson"
  BY DEF BuildInv, Opens, Building, AtWork, WritePhase
<1>2. CASE Opens(b, "sig", "sig", "fillsig")
  <2>1. pkg' \in Packages /\ pkg'.json = pkg.json
    BY <1>2, Marks DEF BuildInv, BuildShape, Packages, Opens
  <2> QED BY <1>1, <1>2, <2>1, AtWorkKeeps DEF OwnFiles, Opens, WritePhase
<1>3. CASE Opens(b, "pub", "pub", "fillpub")
  <2>1. pkg' \in Packages /\ pkg'.json = pkg.json /\ pkg'.sig = pkg.sig
    BY <1>3, Marks DEF BuildInv, BuildShape, Packages, Opens
  <2> QED BY <1>1, <1>3, <2>1, AtWorkKeeps DEF OwnFiles, Opens, Building, WritePhase
<1> QED BY <1>2, <1>3

LEMMA FillsKeeps ==
  ASSUME BuildInv, NEW b \in Builders,
         Fills(b, "filljson", "json", "sig") \/ Fills(b, "fillsig", "sig", "pub")
  PROVE  BuildInv'
<1>1. AtWork(b) /\ OwnFiles(b) /\ build[b] \in Builds
  BY DEF BuildInv, BuildShape, Fills, Building, AtWork, WritePhase
<1>2. CASE Fills(b, "filljson", "json", "sig")
  <2>1. pkg' \in Packages /\ pkg'.json = build[b].json
    BY <1>1, <1>2 DEF BuildInv, BuildShape, Builds, Packages, Fills
  <2> QED BY <1>1, <1>2, <2>1, AtWorkKeeps DEF Fills, WritePhase
<1>3. CASE Fills(b, "fillsig", "sig", "pub")
  <2>1. pkg' \in Packages /\ pkg'.sig = build[b].sig /\ pkg'.json = pkg.json
    BY <1>1, <1>3 DEF BuildInv, BuildShape, Builds, Packages, Fills
  <2> QED BY <1>1, <1>3, <2>1, AtWorkKeeps DEF OwnFiles, Fills, Building, WritePhase
<1> QED BY <1>2, <1>3

(* A build leaves its files, done or dead.                                   *)
LEMMA LeavesKeeps ==
  ASSUME BuildInv, NEW b \in Builders, AtWork(b), Ends(b), seed' = seed, pkg' \in Packages,
         built' = Torn \/ (build[b].alone /\ built' = pkg'.json /\ verify(pkg'.json, pkg'.sig, pkg'.pub))
  PROVE  BuildInv'
<1>1. /\ build' \in [Builders -> Builds] /\ build'[b].pc = "ended"
      /\ \A c \in Builders \ {b} : build'[c] = build[c]
  BY IdleIsAReset DEF BuildInv, BuildShape, Ends
<1>2. BuildShape' /\ FinishedBuildLoads'
  BY <1>1, Marks DEF BuildInv, BuildShape, Packages, FinishedBuildLoads, verify
<1>3. ASSUME NEW c \in Builders PROVE Verified(c)'
  BY <1>1 DEF BuildInv, Verified, WritePhase, verify
<1>4. ASSUME NEW c \in Builders PROVE OwnFiles(c)'
  <2>1. ~AtWork(b)' /\ \A d \in Builders \ {b} : AtWork(d)' <=> AtWork(d)
    BY <1>1 DEF AtWork, WritePhase
  <2>2. CASE AtWork(c)'
    <3>1. c # b /\ AtWork(c) /\ build'[c] = build[c]
      BY <1>1, <2>1, <2>2
    <3>2. ~build[c].alone /\ ~build[b].alone
      BY <3>1 DEF BuildInv, OwnFiles
    <3> QED BY <3>1, <3>2 DEF OwnFiles
  <2>3. CASE ~AtWork(c)'
    BY <2>3 DEF OwnFiles
  <2> QED BY <2>2, <2>3
<1> QED BY <1>2, <1>3, <1>4 DEF BuildInv

LEMMA LastFillKeeps ==
  ASSUME BuildInv, NEW b \in Builders, Fills(b, "fillpub", "pub", "done")
  PROVE  BuildInv'
<1>1. /\ AtWork(b) /\ OwnFiles(b) /\ Verified(b) /\ build[b] \in Builds
      /\ build[b].pc = "fillpub"
  BY DEF BuildInv, BuildShape, Fills, Building, AtWork, WritePhase
<1>2. pkg' \in Packages /\ pkg'.pub = build[b].pub /\ pkg'.json = pkg.json /\ pkg'.sig = pkg.sig
  BY <1>1 DEF BuildInv, BuildShape, Builds, Packages, Fills
<1>3. build[b].alone => built' = pkg'.json /\ verify(pkg'.json, pkg'.sig, pkg'.pub)
  BY <1>1, <1>2 DEF OwnFiles, Verified, WritePhase, Fills
<1>4. ~build[b].alone => built' = Torn
  BY <1>1 DEF OwnFiles, Fills
<1> QED BY <1>1, <1>2, <1>3, <1>4, LeavesKeeps DEF Fills

LEMMA BuilderKeeps == ASSUME BuildInv, NEW b \in Builders, Builder(b) PROVE BuildInv'
<1>1. CASE BuilderDies(b)
  BY <1>1, LeavesKeeps DEF BuildInv, BuildShape, OwnFiles, BuilderDies
<1>2. CASE Writes(b)
  BY <1>2, OpenJsonKeeps, OpensKeeps, FillsKeeps, LastFillKeeps DEF Writes
<1> QED BY <1>1, <1>2, FitKeeps, SignKeeps, CheckKeeps DEF Builder

LEMMA RotateKeeps == ASSUME BuildInv, Rotate PROVE BuildInv'
<1>1. BuildShape' /\ FinishedBuildLoads'
  BY SharedAssumption DEF BuildInv, BuildShape, FinishedBuildLoads, verify, Rotate
<1>2. ASSUME NEW b \in Builders PROVE Verified(b)' /\ OwnFiles(b)'
  BY DEF BuildInv, Verified, OwnFiles, AtWork, verify, Rotate
<1> QED BY <1>1, <1>2 DEF BuildInv

LEMMA BuildStays == ASSUME BuildInv, UNCHANGED package PROVE BuildInv'
<1>1. BuildShape' /\ FinishedBuildLoads'
  BY DEF BuildInv, BuildShape, FinishedBuildLoads, verify
<1>2. ASSUME NEW b \in Builders PROVE Verified(b)' /\ OwnFiles(b)'
  BY DEF BuildInv, Verified, OwnFiles, AtWork, verify
<1> QED BY <1>1, <1>2 DEF BuildInv

LEMMA ResetStays == ASSUME ResetInv, UNCHANGED <<yaml, tmp, reset>> PROVE ResetInv'
<1>1. ASSUME NEW s \in Sessions PROVE Config(s)' /\ Accepted(s)'
  BY DEF ResetInv, Config, config, out_path, Accepted
<1> QED BY <1>1 DEF ResetInv, ResetShape

-----------------------------------------------------------------------------
(* Resets.                                                                  *)

(* One session moves; the only path it may change comes to hold what belongs   *)
(* there.                                                                   *)
LEMMA SessionKeeps ==
  ASSUME ResetInv, NEW s \in Sessions,
         reset' \in [Sessions -> Resets], \A c \in Sessions \ {s} : reset'[c] = reset[c],
         tmp' \in [Sessions -> Secrets \cup {Absent, Torn}], \A c \in Sessions \ {s} : tmp'[c] = tmp[c],
         yaml' = yaml \/ \E m \in Secrets : yaml' = [yaml EXCEPT ![m] = m],
         Config(s)', Accepted(s)'
  PROVE  ResetInv'
<1>1. /\ yaml' \in [Secrets -> Secrets \cup {Absent}]
      /\ \A m \in Secrets : yaml'[m] = yaml[m] \/ yaml'[m] = m
  BY DEF ResetInv, ResetShape
<1>2. \A m \in Secrets : yaml'[m] \in {Absent, m}
  BY <1>1 DEF ResetInv
<1>3. ASSUME NEW c \in Sessions \ {s} PROVE Config(c)' /\ Accepted(c)'
  <2>1. /\ reset'[c] = reset[c] /\ tmp'[c] = tmp[c] /\ Config(c) /\ Accepted(c)
        /\ reset[c].req.mapper \in Secrets \cup {Public}
    BY SharedAssumption DEF ResetInv, ResetShape, Resets
  <2>2. config(c) = reset[c].req.mapper => config(c)' = reset[c].req.mapper
    BY <1>1, <2>1 DEF config, out_path
  <2> QED BY <2>1, <2>2 DEF Config, Accepted
<1> QED BY <1>1, <1>2, <1>3 DEF ResetInv, ResetShape

(* A reset that does not succeed.                                            *)
LEMMA EndedKeeps ==
  ASSUME ResetInv, NEW s \in Sessions, NEW pc \in {"answered", "raised"}, NEW result \in Outcomes \ {"ok"},
         Ended(s, pc, result), yaml' = yaml,
         tmp' = [tmp EXCEPT ![s] = Absent] \/ (reset[s].pc \notin {"write", "replace"} /\ tmp' = tmp)
  PROVE  ResetInv'
<1>1. reset' \in [Sessions -> Resets]
  BY IdleIsAReset DEF ResetInv, ResetShape, Resets, ResetAt, Ended
<1>2. /\ reset'[s].pc = pc /\ reset'[s].outcome = result /\ reset'[s].opened = Absent
      /\ \A c \in Sessions \ {s} : reset'[c] = reset[c]
  BY IdleIsAReset DEF ResetInv, ResetShape, Resets, Ended
<1>3. /\ tmp' \in [Sessions -> Secrets \cup {Absent, Torn}] /\ tmp'[s] = Absent
      /\ \A c \in Sessions \ {s} : tmp'[c] = tmp[c]
  BY DEF ResetInv, ResetShape, Config
<1>4. Config(s)' /\ Accepted(s)'
  BY <1>2, <1>3 DEF Config, Accepted
<1> QED BY <1>1, <1>2, <1>3, <1>4, SessionKeeps

(* A reset that goes on changes its place and at most one field.              *)
LEMMA GoesOnKeeps ==
  ASSUME ResetInv, NEW s \in Sessions, yaml' = yaml, tmp' = tmp, NEW r \in Resets,
         reset' = [reset EXCEPT ![s] = r],
         {reset[s].pc, r.pc} \cap {"idle", "write", "replace"} = {},
         r.req = reset[s].req, r.opened \in {Absent, r.req.mapper},
         r.pc \in {"mitigate", "worker", "open"} => config(s) = r.req.mapper,
         r.outcome = "ok" => /\ r.pc = "answered" /\ r.json \in Buildable
                             /\ Sources[r.json].config.standard = Geometry.standard
                             /\ r.req.temperature \in supported_temperatures(Sources[r.json].ds)
  PROVE  ResetInv'
<1>1. /\ reset' \in [Sessions -> Resets] /\ reset'[s] = r
      /\ \A c \in Sessions \ {s} : reset'[c] = reset[c]
  BY DEF ResetInv, ResetShape
<1>2. config(s)' = config(s)
  BY <1>1 DEF config, out_path
<1>3. Config(s)' /\ Accepted(s)'
  BY <1>1, <1>2 DEF ResetInv, Config, Accepted
<1> QED BY <1>1, <1>3, SessionKeeps DEF ResetInv, ResetShape

LEMMA DeriveKeeps == ASSUME ResetInv, NEW s \in Sessions, Derive(s) PROVE ResetInv'
<1>1. PICK r \in Requests :
        IF r.mapper = Public
        THEN reset' = [reset EXCEPT ![s].pc = "mitigate", ![s].req = r] /\ UNCHANGED tmp
        ELSE reset' = [reset EXCEPT ![s].pc = "write", ![s].req = r] /\ tmp' = [tmp EXCEPT ![s] = Torn]
  BY DEF Derive
<1>2. /\ reset[s] \in Resets /\ reset[s].pc = "idle" /\ yaml' = yaml
      /\ reset[s].opened = Absent /\ reset[s].outcome # "ok" /\ tmp[s] = Absent
      /\ r.mapper \in Secrets \cup {Public}
  BY SharedAssumption DEF ResetInv, ResetShape, Config, Accepted, Derive, At
<1>3. PICK pc \in {"mitigate", "write"} :
        /\ reset' = [reset EXCEPT ![s].pc = pc, ![s].req = r]
        /\ pc = "mitigate" => r.mapper = Public /\ tmp' = tmp
        /\ pc = "write" => r.mapper \in Secrets /\ tmp' = [tmp EXCEPT ![s] = Torn]
  BY <1>1, <1>2
<1>4. /\ reset' \in [Sessions -> Resets] /\ reset'[s].pc = pc /\ reset'[s].req = r
      /\ reset'[s].opened = Absent /\ reset'[s].outcome # "ok"
      /\ \A c \in Sessions \ {s} : reset'[c] = reset[c]
  BY <1>2, <1>3 DEF ResetInv, ResetShape, Resets, ResetAt
<1>5. /\ tmp' \in [Sessions -> Secrets \cup {Absent, Torn}]
      /\ \A c \in Sessions \ {s} : tmp'[c] = tmp[c]
      /\ tmp'[s] = IF pc = "write" THEN Torn ELSE Absent
  BY <1>2, <1>3 DEF ResetInv, ResetShape
<1>6. Config(s)' /\ Accepted(s)'
  BY <1>3, <1>4, <1>5 DEF Config, Accepted, config
<1> QED BY <1>2, <1>4, <1>5, <1>6, SessionKeeps

LEMMA WriteTempKeeps == ASSUME ResetInv, NEW s \in Sessions, WriteTemp(s) PROVE ResetInv'
<1>1. /\ reset[s] \in Resets /\ reset[s].pc = "write" /\ Config(s) /\ Accepted(s) /\ yaml' = yaml
      /\ reset[s].req.mapper \in Secrets
  BY DEF ResetInv, ResetShape, Config, WriteTemp, At
<1>2. CASE tmp' = [tmp EXCEPT ![s] = reset[s].req.mapper] /\ Turns(s, "replace")
  <2>1. /\ reset' \in [Sessions -> Resets] /\ reset'[s] = [reset[s] EXCEPT !.pc = "replace"]
        /\ \A c \in Sessions \ {s} : reset'[c] = reset[c]
    BY <1>1, <1>2 DEF ResetInv, ResetShape, Resets, ResetAt, Turns
  <2>2. /\ reset'[s].pc = "replace" /\ reset'[s].req = reset[s].req
        /\ reset'[s].opened = reset[s].opened /\ reset'[s].outcome = reset[s].outcome
    BY <1>1, <2>1 DEF Resets
  <2>3. /\ tmp' \in [Sessions -> Secrets \cup {Absent, Torn}] /\ tmp'[s] = reset[s].req.mapper
        /\ \A c \in Sessions \ {s} : tmp'[c] = tmp[c]
    BY <1>1, <1>2 DEF ResetInv, ResetShape
  <2>4. Config(s)' /\ Accepted(s)'
    BY <1>1, <2>2, <2>3 DEF Config, Accepted
  <2> QED BY <1>1, <2>1, <2>3, <2>4, SessionKeeps
<1>3. CASE tmp' = [tmp EXCEPT ![s] = Absent] /\ Escape(s, "OSError")
  BY <1>1, <1>3, EndedKeeps DEF Escape, Outcomes
<1> QED BY <1>2, <1>3 DEF WriteTemp

LEMMA ReplaceKeeps == ASSUME ResetInv, NEW s \in Sessions, Replace(s) PROVE ResetInv'
<1>1. /\ reset[s] \in Resets /\ reset[s].pc = "replace" /\ Config(s) /\ Accepted(s)
      /\ reset[s].req.mapper \in Secrets /\ tmp[s] = reset[s].req.mapper
  BY DEF ResetInv, ResetShape, Config, Replace, At
<1>2. CASE yaml' = [yaml EXCEPT ![out_path(reset[s].req)] = tmp[s]] /\ Turns(s, "mitigate")
  <2>1. /\ reset' \in [Sessions -> Resets] /\ reset'[s] = [reset[s] EXCEPT !.pc = "mitigate"]
        /\ \A c \in Sessions \ {s} : reset'[c] = reset[c]
    BY <1>1, <1>2 DEF ResetInv, ResetShape, Resets, ResetAt, Turns
  <2>2. /\ reset'[s].pc = "mitigate" /\ reset'[s].req = reset[s].req
        /\ reset'[s].opened = reset[s].opened /\ reset'[s].outcome = reset[s].outcome
    BY <1>1, <2>1 DEF Resets
  <2>3. /\ tmp' \in [Sessions -> Secrets \cup {Absent, Torn}] /\ tmp'[s] = Absent
        /\ \A c \in Sessions \ {s} : tmp'[c] = tmp[c]
    BY DEF ResetInv, ResetShape, Replace
  <2>4. /\ yaml' = [yaml EXCEPT ![reset[s].req.mapper] = reset[s].req.mapper]
        /\ yaml'[reset[s].req.mapper] = reset[s].req.mapper
    BY <1>1, <1>2 DEF ResetInv, ResetShape, out_path
  <2>5. Config(s)' /\ Accepted(s)'
    BY <1>1, <2>2, <2>3, <2>4 DEF Config, Accepted, config, out_path
  <2> QED BY <1>1, <2>1, <2>3, <2>4, <2>5, SessionKeeps
<1>3. CASE Escape(s, "OSError") /\ yaml' = yaml
  BY <1>1, <1>3, EndedKeeps DEF Replace, Escape, Outcomes
<1> QED BY <1>2, <1>3 DEF Replace

(* Steps that change nothing but their session.                              *)
LEMMA TurnKeeps ==
  ASSUME ResetInv, NEW s \in Sessions, yaml' = yaml, tmp' = tmp, NEW pc \in {"worker", "open", "json"}, Turns(s, pc),
         \/ reset[s].pc \in {"mitigate", "worker"}
         \/ reset[s].pc = "load" /\ pc = "json"
  PROVE  ResetInv'
<1> DEFINE r == [reset[s] EXCEPT !.pc = pc]
<1>1. reset[s] \in Resets /\ Config(s) /\ Accepted(s)
  BY DEF ResetInv, ResetShape
<1>2. /\ r \in Resets /\ r.pc = pc /\ r.req = reset[s].req /\ r.opened = reset[s].opened
      /\ r.outcome = reset[s].outcome
  BY <1>1 DEF Resets, ResetAt
<1>3. reset' = [reset EXCEPT ![s] = r]
  BY <1>1 DEF Turns
<1> HIDE DEF r
<1>4. r.opened \in {Absent, r.req.mapper} /\ r.outcome # "ok"
  BY <1>1, <1>2 DEF Config, Accepted
<1>5. r.pc \in {"mitigate", "worker", "open"} => config(s) = r.req.mapper
  BY <1>1, <1>2 DEF Config
<1>6. {reset[s].pc, r.pc} \cap {"idle", "write", "replace"} = {}
  BY <1>2
<1> QED BY <1>2, <1>3, <1>4, <1>5, <1>6, GoesOnKeeps

LEMMA WorkerOpensKeeps == ASSUME ResetInv, NEW s \in Sessions, WorkerOpens(s) PROVE ResetInv'
<1>1. /\ reset[s] \in Resets /\ reset[s].pc = "open" /\ Accepted(s) /\ yaml' = yaml /\ tmp' = tmp
      /\ config(s) = reset[s].req.mapper /\ reset[s].req.mapper \in Secrets \cup {Public}
  BY SharedAssumption DEF ResetInv, ResetShape, Resets, Config, WorkerOpens, At
<1>2. CASE reset' = [reset EXCEPT ![s].pc = "load", ![s].opened = config(s)]
  <2> DEFINE r == [reset[s] EXCEPT !.pc = "load", !.opened = config(s)]
  <2>1. /\ r \in Resets /\ r.pc = "load" /\ r.req = reset[s].req /\ r.opened = reset[s].req.mapper
        /\ r.outcome = reset[s].outcome
    BY <1>1 DEF Resets, ResetAt
  <2>2. reset' = [reset EXCEPT ![s] = r]
    BY <1>1, <1>2
  <2> HIDE DEF r
  <2>3. r.outcome # "ok" /\ {reset[s].pc, r.pc} \cap {"idle", "write", "replace"} = {}
    BY <1>1, <2>1 DEF Accepted
  <2> QED BY <1>1, <2>1, <2>2, <2>3, GoesOnKeeps
<1>3. CASE Answer(s, "INTERNAL_SIMULATOR_ERROR")
  BY <1>1, <1>3, EndedKeeps DEF Answer, Outcomes
<1> QED BY <1>2, <1>3 DEF WorkerOpens

LEMMA ReadKeeps == ASSUME ResetInv, BuildShape, NEW s \in Sessions, ReadJson(s) \/ ReadSig(s) PROVE ResetInv'
<1>1. /\ reset[s] \in Resets /\ Config(s) /\ Accepted(s) /\ yaml' = yaml /\ tmp' = tmp
      /\ reset[s].pc \in {"json", "sig"} /\ pkg \in Packages
  BY DEF ResetInv, ResetShape, BuildShape, ReadJson, ReadSig, At
<1>2. ASSUME NEW r \in Resets, r.pc \in {"sig", "pub"}, r.req = reset[s].req, r.opened = reset[s].opened,
             r.outcome = reset[s].outcome, reset' = [reset EXCEPT ![s] = r]
      PROVE  ResetInv'
  <2>1. /\ r.opened \in {Absent, r.req.mapper} /\ r.outcome # "ok"
        /\ {reset[s].pc, r.pc} \cap {"idle", "write", "replace"} = {}
    BY <1>1, <1>2 DEF Config, Accepted
  <2> QED BY <1>1, <1>2, <2>1, GoesOnKeeps
<1>3. CASE reset' = [reset EXCEPT ![s].pc = "sig", ![s].json = pkg.json]
  <2> DEFINE r == [reset[s] EXCEPT !.pc = "sig", !.json = pkg.json]
  <2>1. /\ r \in Resets /\ r.pc = "sig" /\ r.req = reset[s].req /\ r.opened = reset[s].opened
        /\ r.outcome = reset[s].outcome /\ reset' = [reset EXCEPT ![s] = r]
    BY <1>1, <1>3 DEF Resets, ResetAt, Packages
  <2> HIDE DEF r
  <2> QED BY <1>2, <2>1
<1>4. CASE reset' = [reset EXCEPT ![s].pc = "pub", ![s].sig = pkg.sig]
  <2> DEFINE r == [reset[s] EXCEPT !.pc = "pub", !.sig = pkg.sig]
  <2>1. /\ r \in Resets /\ r.pc = "pub" /\ r.req = reset[s].req /\ r.opened = reset[s].opened
        /\ r.outcome = reset[s].outcome /\ reset' = [reset EXCEPT ![s] = r]
    BY <1>1, <1>4 DEF Resets, ResetAt, Packages
  <2> HIDE DEF r
  <2> QED BY <1>2, <2>1
<1>5. CASE Escape(s, "FileNotFoundError")
  BY <1>1, <1>5, EndedKeeps DEF Escape, Outcomes
<1> QED BY <1>3, <1>4, <1>5 DEF ReadJson, ReadSig, Turns

(* The engine takes a profile only for its own standard and temperature.      *)
LEMMA EngineFits ==
  ASSUME NEW profile, NEW geometry, NEW temperature, Engine(profile, geometry, temperature) = "ok"
  PROVE  profile.standard = geometry.standard /\ temperature \in profile.temps
BY DEF Engine, from_geometry

LEMMA EngineAnswers ==
  ASSUME NEW profile, NEW geometry, NEW temperature
  PROVE  Engine(profile, geometry, temperature) \in Outcomes
BY DEF Engine, from_geometry, Outcomes

LEMMA ReadPubKeeps == ASSUME ResetInv, BuildShape, NEW s \in Sessions, ReadPub(s) PROVE ResetInv'
<1>1. /\ reset[s] \in Resets /\ reset[s].pc = "pub" /\ Config(s) /\ yaml' = yaml /\ tmp' = tmp
      /\ pkg \in Packages
  BY DEF ResetInv, ResetShape, BuildShape, ReadPub, At
<1> DEFINE profile == Profile(Sources[reset[s].json])
           verdict == Engine(profile, Geometry, reset[s].req.temperature)
<1>2. ASSUME NEW result \in Outcomes \ {"ok"}, Answer(s, result) \/ Escape(s, result) PROVE ResetInv'
  BY <1>1, <1>2, EndedKeeps DEF Answer, Escape
<1>3. CASE /\ verify(reset[s].json, reset[s].sig, pkg.pub)
           /\ verdict = "ok"
           /\ reset' = [reset EXCEPT ![s].pc = "answered", ![s].outcome = "ok", ![s].sig = Absent]
  <2> DEFINE r == [reset[s] EXCEPT !.pc = "answered", !.outcome = "ok", !.sig = Absent]
  <2>1. /\ r \in Resets /\ r.pc = "answered" /\ r.req = reset[s].req /\ r.opened = reset[s].opened
        /\ r.json = reset[s].json /\ r.outcome = "ok" /\ reset' = [reset EXCEPT ![s] = r]
    BY <1>1, <1>3, Marks DEF Resets, ResetAt, Outcomes
  <2>2. reset[s].json \in Buildable
    BY <1>1, <1>3, VerifiedIsBuilt DEF Resets, Packages
  <2>3. profile.standard = Geometry.standard /\ reset[s].req.temperature \in profile.temps
    BY <1>3, EngineFits
  <2>4. /\ Sources[reset[s].json].config.standard = Geometry.standard
        /\ reset[s].req.temperature \in supported_temperatures(Sources[reset[s].json].ds)
    BY <2>3 DEF Profile
  <2> HIDE DEF r
  <2> QED BY <1>1, <2>1, <2>2, <2>4, GoesOnKeeps DEF Config
<1>4. CASE pkg.pub = Absent
  BY <1>2, <1>4 DEF ReadPub, Outcomes
<1>5. CASE pkg.pub # Absent /\ ~verify(reset[s].json, reset[s].sig, pkg.pub)
  BY <1>2, <1>5 DEF ReadPub, Outcomes
<1>6. CASE /\ pkg.pub # Absent /\ verify(reset[s].json, reset[s].sig, pkg.pub)
           /\ Loaded(s, profile)
  <2>1. verdict \in Outcomes
    BY EngineAnswers
  <2>2. CASE Answer(s, "PROFILE_REJECTED") \/ Escape(s, "ValueError")
    BY <1>2, <2>2 DEF Outcomes
  <2>3. CASE verdict # "ok" /\ Answer(s, verdict)
    BY <1>2, <2>1, <2>3
  <2> HIDE DEF profile
  <2> QED BY <1>3, <1>6, <2>2, <2>3 DEF Loaded
<1> QED BY <1>4, <1>5, <1>6 DEF ReadPub

LEMMA ResetKeeps == ASSUME ResetInv, BuildShape, NEW s \in Sessions, Reset(s) PROVE ResetInv'
<1>1. CASE Mitigate(s)
  BY <1>1, TurnKeeps, EndedKeeps DEF Mitigate, At, Answer, Outcomes
<1>2. CASE StartWorker(s)
  BY <1>2, TurnKeeps, EndedKeeps DEF StartWorker, At, Answer, Outcomes
<1>3. CASE LoadProfile(s)
  BY <1>3, TurnKeeps, EndedKeeps DEF LoadProfile, At, Answer, Escape, Outcomes
<1> QED BY <1>1, <1>2, <1>3, DeriveKeeps, WriteTempKeeps, ReplaceKeeps, WorkerOpensKeeps, ReadKeeps, ReadPubKeeps
        DEF Reset

LEMMA NextKeeps == IInv /\ [Next]_vars => IInv'
<1> SUFFICES ASSUME IInv, [Next]_vars PROVE IInv'
  OBVIOUS
<1>1. CASE Rotate
  BY <1>1, RotateKeeps, ResetStays DEF IInv, Rotate
<1>2. CASE \E b \in Builders : Builder(b)
  BY <1>2, BuilderKeeps, ResetStays DEF IInv, Builder
<1>3. CASE \E s \in Sessions : Reset(s) /\ UNCHANGED package
  BY <1>3, ResetKeeps, BuildStays DEF IInv, BuildInv
<1>4. CASE UNCHANGED vars
  BY <1>4, BuildStays, ResetStays DEF IInv
<1> QED BY <1>1, <1>2, <1>3, <1>4 DEF Next

-----------------------------------------------------------------------------
(* The theorems.                                                            *)

(* The inductive invariant: what a build has verified and written, what a       *)
(* session has published and read.                                           *)
THEOREM SharedFiles == Spec => []IInv
PROOF
  BY InitHolds, NextKeeps, PTL DEF Spec

(* Files hold what was written into them, and a temporary file lives as long   *)
(* as its writer (atomic_write_text).                                        *)
THEOREM TypeCorrect == Spec => []TypeOK
<1>1. IInv => TypeOK
  <2> SUFFICES ASSUME IInv PROVE TypeOK
    OBVIOUS
  <2>1. Signed \subseteq Signature
    BY DEF Signed, Signature, Buildable
  <2>2. /\ seed \in 1..MaxKeys /\ built \in Content
        /\ pkg.json \in Content /\ pkg.sig \in Signature /\ pkg.pub \in {Absent, Torn} \cup 1..MaxKeys
    BY <2>1 DEF IInv, BuildInv, BuildShape, Packages, Keys
  <2>3. \A b \in Builders : build[b].json \in Content /\ build[b].sig \in Signature
    BY <2>1 DEF IInv, BuildInv, BuildShape, Builds
  <2>4. yaml \in [Secrets -> Secrets \cup {Absent, Torn}]
    BY DEF IInv, ResetInv, ResetShape
  <2>5. ASSUME NEW s \in Sessions
        PROVE  /\ reset[s].req \in Requests /\ reset[s].json \in Content /\ reset[s].sig \in Signature
               /\ reset[s].pc = "write" => tmp[s] = Torn
               /\ reset[s].pc = "replace" => tmp[s] = reset[s].req.mapper
               /\ reset[s].pc \notin {"write", "replace"} => tmp[s] = Absent
    BY <2>1 DEF IInv, ResetInv, ResetShape, Resets, Config
  <2> QED BY <2>2, <2>3, <2>4, <2>5 DEF TypeOK
<1> QED BY <1>1, SharedFiles, PTL

(* However sessions race for a path, a worker reads the complete configuration *)
(* of its own session (worker_config_for_mapper, atomic_write_text).                 *)
THEOREM OwnConfigIsRead == Spec => []WorkerReadsOwnConfig
<1>1. IInv => WorkerReadsOwnConfig
  BY DEF IInv, ResetInv, Config, WorkerReadsOwnConfig
<1> QED BY <1>1, SharedFiles, PTL

(* A session plays only with a profile that passed the gates of a build, for    *)
(* its own standard and temperature (verify_package, load_profile).           *)
THEOREM AcceptedIsBuilt == Spec => []AcceptedWasBuilt
<1>1. IInv => AcceptedWasBuilt
  BY DEF IInv, ResetInv, Accepted, AcceptedWasBuilt, Buildable, Admissible
<1> QED BY <1>1, SharedFiles, PTL

(* A build that worked alone leaves a package that verifies                   *)
(* (profile_builder/package/build.py, build).                                 *)
THEOREM BuildsAreWhole == Spec => []FinishedBuildLoads
<1>1. IInv => FinishedBuildLoads
  BY DEF IInv, BuildInv
<1> QED BY <1>1, SharedFiles, PTL
=============================================================================

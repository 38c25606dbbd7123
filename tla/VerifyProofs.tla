---------------------------- MODULE VerifyProofs ----------------------------
(***************************************************************************)
(* What `capsule verify` reports and exits with (VerifyCommand), proved of *)
(* every call, every set of files and every hop cap, run alone or after a  *)
(* rewrap (RewrapCommand), whose steps leave its state alone.              *)
(*                                                                         *)
(* ReportInv: until the report nothing is returned, printed or exited with *)
(* but 2, and after it all three are functions of the subject, the call    *)
(* and the walk.  LinkInv: what the walk holds, over whatever artifacts    *)
(* the files are.  LineageWalkProofs is about typed pools; here a pool is  *)
(* what ClassifyArtifact makes of arbitrary contents, so the walk has a    *)
(* smaller invariant of its own, EntriesOk.  ServedInv: what becomes of    *)
(* files that are as the operator meant them.                              *)
(***************************************************************************)
EXTENDS RewrapCommand, DataLemmas, FiniteSetTheorems, SequenceTheorems, TLAPS

(* A command that has not reported has returned, printed and said nothing. *)
Unreported == result = Null /\ printed = {} /\ exit \in {Null, 2}

(* What a report says is a function of the capsule, the call and the walk. *)
Reported ==
    /\ result = Result
    /\ printed = IF call.caller = "sdk" \/ call.json THEN {} ELSE ReportBlocks(Result)
    /\ exit = IF call.caller = "sdk" THEN Null ELSE ExitCode(Result)

ReportInv ==
    \/ phase \in {"called", "reading", "walking", "ended"} /\ Unreported
    \/ phase = "ended" /\ Reported

-----------------------------------------------------------------------------
(* A step of the hand-off is one of verify, or leaves its state alone. *)
LEMMA RewrapStep ==
    ASSUME [RewrapNext]_allVars
    PROVE  Next \/ UNCHANGED verifyVarsButFiles
  BY DEF RewrapNext, allVars, vars, verifyVars, verifyVarsButFiles, CheckArguments, CheckOutput,
         ReadKey, OpenPredecessor, RefusePredecessor, RefuseArgument, ContinueFromPredecessor,
         SealSuccessor, WriteOutput, WriteTorn, Kill, CreatedMeanwhile, Put, Verify

(* What is reported reads the call, the subject and the walk, and nothing else. *)
LEMMA ResultStays ==
    ASSUME UNCHANGED <<call, subject, pool, entries, assigned>>
    PROVE  /\ Result' = Result
           /\ ReportBlocks(Result)' = ReportBlocks(Result)
           /\ ExitCode(Result)' = ExitCode(Result)
  <1>1. Result' = Result
    BY DEF Result, Options, LineageChannel, LineageNotes
  <1>2. ReportBlocks(Result)' = ReportBlocks(Result)
    BY <1>1 DEF ReportBlocks, PolicyLines, CustodyBlockShown, Opened, TrustPolicy, CustodyPolicy,
                VersionPolicy, Checked
  <1>3. ExitCode(Result)' = ExitCode(Result)
    BY <1>1 DEF ExitCode, TrustPolicy, CustodyPolicy, VersionPolicy, Checked
  <1> QED BY <1>1, <1>2, <1>3

(* So a step that leaves these and the outcome alone leaves ReportInv alone. *)
LEMMA ReportStays ==
    ASSUME ReportInv, UNCHANGED <<call, phase, subject, result, printed, exit, pool, entries, assigned>>
    PROVE  ReportInv'
  <1>1. Unreported' = Unreported
    BY DEF Unreported
  <1>2. Reported' = Reported
    BY ResultStays DEF Reported
  <1> QED BY <1>1, <1>2 DEF ReportInv

(* Nothing is reported at first. *)
LEMMA ReportInvInit ==
    ASSUME RewrapInit
    PROVE  ReportInv
  BY DEF RewrapInit, Called, ReportInv, Unreported

(* A failure exits with 2 and says nothing; Report alone returns and prints. *)
LEMMA ReportInvNext ==
    ASSUME ReportInv, [RewrapNext]_allVars
    PROVE  ReportInv'
  <1>1. CASE UNCHANGED verifyVarsButFiles
    BY <1>1, ReportStays DEF verifyVarsButFiles, walkVars
  <1>2. ASSUME Next, phase \in {"called", "reading", "walking"}
        PROVE  ReportInv'
    <2>1. Unreported
      BY <1>2 DEF ReportInv
    <2>2. CASE RefuseArguments \/ FileMissing
      BY <2>1, <2>2 DEF RefuseArguments, FileMissing, Fail, ReportInv, Unreported
    <2>3. CASE ReadSubject \/ ReadPredecessor
      BY <1>2, <2>1, <2>3 DEF ReadSubject, ReadPredecessor, ReportInv, Unreported
    <2>4. CASE StartVerification \/ WalkStep
      BY <1>2, <2>1, <2>4 DEF StartVerification, WalkStep, ReportInv, Unreported
    <2>5. CASE Report
      <3>1. UNCHANGED <<call, subject, pool, entries, assigned>> /\ phase' = "ended"
        BY <2>5 DEF Report, walkVars
      <3>2. Reported'
        BY <2>5, <3>1, ResultStays DEF Report, Reported
      <3> QED BY <3>1, <3>2 DEF ReportInv
    <2> QED BY <1>2, <2>2, <2>3, <2>4, <2>5 DEF Next
  <1>3. ASSUME Next
        PROVE  phase \in {"called", "reading", "walking"}
    BY <1>3 DEF Next, RefuseArguments, ReadSubject, FileMissing, Reads, ReadPredecessor,
                StartVerification, WalkStep, Report
  <1> QED BY <1>1, <1>2, <1>3, RewrapStep

(* ReportInv holds in every state of the hand-off. *)
LEMMA ReportInvariant == RewrapSpec => []ReportInv
  <1>1. RewrapInit => ReportInv
    BY ReportInvInit
  <1>2. ReportInv /\ [RewrapNext]_allVars => ReportInv'
    BY ReportInvNext
  <1> QED BY <1>1, <1>2, PTL DEF RewrapSpec

-----------------------------------------------------------------------------
(* Nothing is emitted of a list exactly if no member of it is in the set. *)
LEMMA InOrderEmpty ==
    ASSUME NEW list, NEW set, IsSeq(list)
    PROVE  InOrder(list, set) = <<>> <=> \A i \in DOMAIN list : list[i] \notin set
  <1> DEFINE m == Len(list)
             E == {list[i] : i \in DOMAIN list}
             f == CHOOSE g : Selects(g, list, set, m)
  <1>1. m \in Nat /\ DOMAIN list = 1..m
    BY SeqShape
  <1>2. InOrder(list, set) = f[m]
    BY DEF InOrder, Selects
  <1>3. Selects(f, list, set, m)
    BY <1>1, SelectionExists
  <1> HIDE DEF f
  <1>4. \A n \in 0..m : f[n] = IF n = 0 THEN <<>>
                                ELSE IF list[n] \in set THEN Append(f[n - 1], list[n])
                                ELSE f[n - 1]
    BY <1>3 DEF Selects
  <1> DEFINE S == {n \in Nat : n \in 0..m =>
                      /\ f[n] \in Seq(E)
                      /\ f[n] = <<>> <=> \A i \in 1..n : list[i] \notin set}
  <1>5. 0 \in S
    <2>1. f[0] = <<>>
      BY <1>4, <1>1
    <2>2. <<>> \in Seq(E)
      OBVIOUS
    <2>3. \A i \in 1..0 : FALSE
      OBVIOUS
    <2> HIDE DEF E, m
    <2> QED BY <2>1, <2>2, <2>3
  <1>6. ASSUME NEW n \in Nat, n \in S
        PROVE  n + 1 \in S
    <2> SUFFICES ASSUME n + 1 \in 0..m
                 PROVE  /\ f[n + 1] \in Seq(E)
                        /\ f[n + 1] = <<>> <=> \A i \in 1..(n + 1) : list[i] \notin set
      OBVIOUS
    <2>1. n \in 0..m /\ n + 1 \in DOMAIN list
      BY <1>1
    <2>2. list[n + 1] \in E
      BY <2>1
    <2>3. /\ f[n] \in Seq(E)
          /\ f[n] = <<>> <=> \A i \in 1..n : list[i] \notin set
      BY <1>6, <2>1
    <2>4. f[n + 1] = IF list[n + 1] \in set THEN Append(f[n], list[n + 1]) ELSE f[n]
      BY <1>4
    <2>5. 1..(n + 1) = (1..n) \cup {n + 1}
      OBVIOUS
    <2> HIDE DEF E
    <2> QED BY <2>2, <2>3, <2>4, <2>5
  <1> HIDE DEF S
  <1>7. m \in S
    BY <1>1, <1>5, <1>6, AllNaturals
  <1>8. f[m] = <<>> <=> \A i \in 1..m : list[i] \notin set
    BY <1>1, <1>7 DEF S
  <1> QED BY <1>1, <1>2, <1>8

(* Where each qualifier stands in the order. *)
LEMMA QualifierPlaces ==
    /\ QualifierOrder[1] = "signer_set_unbound" /\ QualifierOrder[2] = "actor_set_unbound"
    /\ QualifierOrder[3] = "empty_chain_not_walked" /\ QualifierOrder[4] = "encrypted_outer_only"
    /\ QualifierOrder[5] = "version_not_accepted_by_policy"
    /\ QualifierOrder[6] = "trust_not_evaluated" /\ QualifierOrder[7] = "no_trusted_signer"
    /\ QualifierOrder[8] = "lineage_declared_unverified" /\ QualifierOrder[9] = "lineage_mismatch"
    /\ QualifierOrder[10] = "lineage_predecessor_invalid"
  BY DEF QualifierOrder

(* An empty list of qualifiers leaves none of them out. *)
LEMMA EmittedEmpty ==
    ASSUME NEW set
    PROVE  Emitted(set) = <<>> <=> \A i \in 1..10 : QualifierOrder[i] \notin set
  <1>1. IsSeq(QualifierOrder) /\ DOMAIN QualifierOrder = 1..10
    <2>1. QualifierOrder = [i \in 1..10 |-> QualifierOrder[i]]
      BY DEF QualifierOrder
    <2> QED BY <2>1, IndexedIsSeq
  <1> QED BY <1>1, InOrderEmpty DEF Emitted

-----------------------------------------------------------------------------
(* What a verdict says of the verification. *)
LEMMA Verdicts ==
    ASSUME NEW c, NEW options
    PROVE  /\ Verdict(c, options) = "unsupported" =>
                  /\ OpenGate(c) # "pass" /\ Gate(c) # "pass"
                  /\ Gate(c) \in {"unknown_newer", "unknown_older", "unsupported_profile"}
           /\ Verdict(c, options) = "valid" =>
                  Gate(c) = "pass" /\ OpenGate(c) = "pass" /\ VerifyOk(c, options)
  <1>1. Gate(c) = "pass" => OpenGate(c) = "pass"
    BY DEF Gate
  <1>2. Gate(c) \in {"unknown_newer", "unknown_older", "unsupported_profile"}
            => OpenGate(c) # "pass"
    BY DEF Gate
  <1>3. VerifyOk(c, options) => Gate(c) = "pass"
    BY DEF VerifyOk
  <1>4. CASE Gate(c) \in {"unknown_newer", "unknown_older", "unsupported_profile"}
    <2>1. Gate(c) # "pass"
      BY <1>4
    <2>2. Verdict(c, options) = "unsupported"
      BY <1>3, <1>4, <2>1 DEF Verdict
    <2> QED BY <1>2, <1>4, <2>1, <2>2
  <1>5. CASE Gate(c) \notin {"unknown_newer", "unknown_older", "unsupported_profile"}
             /\ VerifyOk(c, options)
    BY <1>1, <1>3, <1>5 DEF Verdict
  <1>6. CASE Gate(c) \notin {"unknown_newer", "unknown_older", "unsupported_profile"}
             /\ ~VerifyOk(c, options)
    BY <1>6 DEF Verdict
  <1> QED BY <1>4, <1>5, <1>6

(* An exit code says whether the verification held and no demand failed. F *)
(* is FALSE: its instances are found where it is not a truth value yet.     *)
LEMMA ExitOfDemands ==
    \A ok, F, demands, e :
        e = (IF ok /\ F \notin demands THEN 0 ELSE 1) =>
            /\ e = 0 => ok /\ F \notin demands
            /\ e = 1 /\ ok => F \in demands
  OBVIOUS

(* The lines of three outcomes: those that are not null, and the last alone *)
(* if the capsule was not opened.                                           *)
Lines(x, y, z, opened) ==
    {line \in {<<"trust policy", x>>, <<"custody policy", y>>, <<"version policy", z>>} :
        line[2] # Null /\ (line[1] = "version policy" \/ opened)}

(* Each outcome that is not null has its line, if its line may be shown. *)
LEMMA OutcomeLines ==
    \A x, y, z, opened :
        /\ ~opened /\ z = Null => Lines(x, y, z, opened) = {}
        /\ \A n : \A line \in Lines(x, y, z, opened) : line # <<"custody", n>> /\ line # <<"note", n>>
        /\ opened /\ x # Null => <<"trust policy", x>> \in Lines(x, y, z, opened)
        /\ opened /\ y # Null => <<"custody policy", y>> \in Lines(x, y, z, opened)
        /\ opened /\ z # Null => <<"version policy", z>> \in Lines(x, y, z, opened)
  <1> SUFFICES ASSUME NEW x, NEW y, NEW z, NEW opened
               PROVE  LET lines == Lines(x, y, z, opened) IN
                      /\ ~opened /\ z = Null => lines = {}
                      /\ \A n : \A line \in lines : line # <<"custody", n>> /\ line # <<"note", n>>
                      /\ opened /\ x # Null => <<"trust policy", x>> \in lines
                      /\ opened /\ y # Null => <<"custody policy", y>> \in lines
                      /\ opened /\ z # Null => <<"version policy", z>> \in lines
    OBVIOUS
  <1> DEFINE lines == Lines(x, y, z, opened)
  <1>1. /\ <<"trust policy", x>>[1] = "trust policy" /\ <<"trust policy", x>>[2] = x
        /\ <<"custody policy", y>>[1] = "custody policy" /\ <<"custody policy", y>>[2] = y
        /\ <<"version policy", z>>[1] = "version policy" /\ <<"version policy", z>>[2] = z
    OBVIOUS
  <1>2. \A n : <<"custody", n>>[1] = "custody" /\ <<"note", n>>[1] = "note"
    OBVIOUS
  <1>3. \A line \in lines : line[1] \in {"trust policy", "custody policy", "version policy"}
    BY <1>1 DEF Lines
  <1>4. ~opened /\ z = Null => lines = {}
    BY <1>1 DEF Lines
  <1>5. \A n : \A line \in lines : line # <<"custody", n>> /\ line # <<"note", n>>
    BY <1>2, <1>3
  <1>6. /\ opened /\ x # Null => <<"trust policy", x>> \in lines
        /\ opened /\ y # Null => <<"custody policy", y>> \in lines
        /\ opened /\ z # Null => <<"version policy", z>> \in lines
    BY <1>1 DEF Lines
  <1> QED BY <1>4, <1>5, <1>6

(* The policy lines of a report are the lines of its three outcomes. *)
LEMMA OutcomesOf ==
    ASSUME NEW r
    PROVE  PolicyLines(r) = Lines(TrustPolicy(r), CustodyPolicy, VersionPolicy(r), Opened)
  BY Zenon DEF PolicyLines, Lines

(* A failed demand of an opened capsule has its line. *)
LEMMA FailedLine ==
    \A x, y, z, opened, F :
        opened /\ F \in {x, z, y} /\ F # Null =>
            \E p \in {"trust policy", "custody policy", "version policy"} :
                <<p, F>> \in Lines(x, y, z, opened)
  BY OutcomeLines

(* A refusal as verifyCapsule returns it, and what is printed of it. *)
LEMMA RefusedResult ==
    ASSUME Result.verdict = "unsupported"
    PROVE  /\ Result.reason # Null
           /\ Result.qualifiers = <<>> /\ Result.lineageNotes = {}
           /\ Result.trusted = {} /\ Result.accepted = Null
           /\ ~Result.capsuleSigned /\ Result.skills = {}
           /\ ~Result.ok
           /\ ReportBlocks(Result) = {}
  <1> DEFINE c == subject
  <1>1. IsCapsule(c)
    BY DEF Result, FailClosed
  <1>2. Verdict(c, Options) = "unsupported"
    BY <1>1 DEF Result
  <1>3. /\ OpenGate(c) # "pass" /\ Gate(c) # "pass"
        /\ Gate(c) \in {"unknown_newer", "unknown_older", "unsupported_profile"}
    BY <1>2, Verdicts
  <1>4. VerdictReason(c) # Null
    <2>1. Null \notin Reasons
      BY NullAssumption
    <2>2. VerdictReason(c) \in Reasons
      BY <1>3 DEF VerdictReason, Reasons
    <2> QED BY <2>1, <2>2
  <1>5. Emitted(Qualifiers(c, Options, LineageChannel(c))) = <<>>
    BY <1>2, EmittedEmpty DEF Qualifiers
  <1>6. LineageNotes(c) = {} /\ TrustedSigners(c, Options) = {} /\ ReportedSkills(c) = {}
    BY <1>3 DEF LineageNotes, TrustedSigners, ReportedSkills
  <1>7. AcceptedByPolicy(c, Options) = Null /\ ~CapsuleSigned(c, Options) /\ ~VerifyOk(c, Options)
    BY <1>2, <1>3 DEF AcceptedByPolicy, CapsuleSigned, VerifyOk
  <1>8. Notes(c, Options) = {}
    BY <1>3 DEF Notes
  <1>9. /\ Result.reason = VerdictReason(c)
        /\ Result.qualifiers = <<>>
        /\ Result.lineageNotes = {}
        /\ Result.trusted = {}
        /\ Result.accepted = Null
        /\ Result.capsuleSigned = CapsuleSigned(c, Options)
        /\ Result.skills = {}
        /\ Result.notes = {}
        /\ Result.ok = VerifyOk(c, Options)
    BY <1>1, <1>5, <1>6, <1>7, <1>8 DEF Result
  <1>10. PolicyLines(Result) = {}
    <2>1. ~Opened
      BY <1>3 DEF Opened
    <2>2. VersionPolicy(Result) = Null
      BY <1>9 DEF VersionPolicy
    <2> QED BY <2>1, <2>2, OutcomeLines, OutcomesOf, Zenon
  <1>11. ~Opened /\ ~CustodyBlockShown
    BY <1>3 DEF Opened, CustodyBlockShown
  <1>12. DOMAIN Result.qualifiers = {}
    BY <1>9
  <1>13. ReportBlocks(Result) = {}
    BY <1>9, <1>10, <1>11, <1>12 DEF ReportBlocks
  <1> QED BY <1>4, <1>7, <1>9, <1>13

(* A refusal for what a capsule declares stands alone, whatever is asked for. *)
THEOREM RefusalStandsAlone == RewrapSpec => []RefusalIsAlone
  <1>1. ReportInv => RefusalIsAlone
    <2> SUFFICES ASSUME ReportInv, result # Null, result.verdict = "unsupported"
                 PROVE  /\ result.reason # Null
                        /\ result.qualifiers = <<>> /\ result.lineageNotes = {}
                        /\ result.trusted = {} /\ result.accepted = Null
                        /\ ~result.capsuleSigned /\ result.skills = {}
                        /\ printed = {}
                        /\ call.caller = "cli" => exit = 1
      BY DEF RefusalIsAlone
    <2>1. Reported
      BY DEF ReportInv, Unreported
    <2>2. result = Result
      BY <2>1 DEF Reported
    <2>3. call.caller = "cli" => exit = ExitCode(Result)
      BY <2>1 DEF Reported
    <2>4. ~Result.ok => ExitCode(Result) = 1
      BY DEF ExitCode
    <2>5. ReportBlocks(Result) = {} => printed = {}
      BY <2>1 DEF Reported
    <2> QED BY <2>2, <2>3, <2>4, <2>5, RefusedResult
  <1> QED BY <1>1, ReportInvariant, PTL

-----------------------------------------------------------------------------
(* Whatever a lineage note states, no other note states it. *)
LEMMA NotesAreApart ==
    ASSUME NEW n \in LineageNotes(subject), NEW m \in Notes(subject, Options)
    PROVE  n # <<m>>
  <1>1. m \in {"invalid_allowlist_entry", "actor_set_unbound", "version_not_accepted",
                "empty_chain", "signer_set_unbound", "trust_not_evaluated", "no_trusted_signer"}
    BY DEF Notes
  <1>2. \/ n = <<"not interpreted">>
        \/ n = <<"declaration">>
        \/ \E k \in DOMAIN pool : n = <<"matched no entry", k>>
        \/ \E i \in DOMAIN entries : n = <<"declared, not verified", i>>
    BY DEF LineageNotes
  <1>3. \A x, y : <<x, y>> # <<m>>
    OBVIOUS
  <1>4. <<"not interpreted">> # <<m>> /\ <<"declaration">> # <<m>>
    BY <1>1
  <1> QED BY <1>2, <1>3, <1>4

(* What the blocks of a report have of its demands, qualifiers and notes. *)
LEMMA CompleteBlocks ==
           /\ Result.verdict = "valid" /\ ExitCode(Result) = 1 =>
                  \E p \in {"trust policy", "custody policy", "version policy"} :
                      <<p, FALSE>> \in ReportBlocks(Result)
           /\ \A i \in DOMAIN Result.qualifiers :
                  <<"qualifier", Result.qualifiers[i]>> \in ReportBlocks(Result)
           /\ \A n \in Result.notes : <<"note", <<n>>>> \in ReportBlocks(Result)
           /\ \A n \in Result.lineageNotes :
                  (<<"custody", n>> \in ReportBlocks(Result)) # (<<"note", n>> \in ReportBlocks(Result))
  <1>1. ASSUME Result.verdict = "valid", ExitCode(Result) = 1
        PROVE  \E p \in {"trust policy", "custody policy", "version policy"} :
                   <<p, FALSE>> \in ReportBlocks(Result)
    <2>1. IsCapsule(subject)
      BY <1>1 DEF Result, FailClosed
    <2>2. Verdict(subject, Options) = "valid" /\ Result.ok = VerifyOk(subject, Options)
      BY <1>1, <2>1 DEF Result
    <2>3. Opened /\ Result.ok
      BY <2>1, <2>2, Verdicts DEF Opened
    <2>4. FALSE \in {TrustPolicy(Result), VersionPolicy(Result), CustodyPolicy}
      BY <1>1, <2>3, ExitOfDemands, Zenon DEF ExitCode
    <2>5. FALSE # Null
      BY NullAssumption
    <2>6. \E p \in {"trust policy", "custody policy", "version policy"} :
              <<p, FALSE>> \in PolicyLines(Result)
      BY <2>3, <2>4, <2>5, FailedLine, OutcomesOf, Zenon
    <2> QED BY <2>6 DEF ReportBlocks
  <1>2. \A i \in DOMAIN Result.qualifiers :
            <<"qualifier", Result.qualifiers[i]>> \in ReportBlocks(Result)
    BY DEF ReportBlocks
  <1>3. \A n \in Result.notes : <<"note", <<n>>>> \in ReportBlocks(Result)
    BY DEF ReportBlocks
  <1>4. ASSUME NEW n \in Result.lineageNotes
        PROVE  (<<"custody", n>> \in ReportBlocks(Result)) # (<<"note", n>> \in ReportBlocks(Result))
    <2>1. IsCapsule(subject)
      BY <1>4 DEF Result, FailClosed
    <2>2. n \in LineageNotes(subject) /\ Result.notes = Notes(subject, Options)
      BY <1>4, <2>1 DEF Result
    <2>3. \A m \in Result.notes : n # <<m>>
      BY <2>2, NotesAreApart
    <2>4. \A p \in PolicyLines(Result) : p # <<"custody", n>> /\ p # <<"note", n>>
      BY OutcomeLines, OutcomesOf, Zenon
    <2>5. CASE CustodyBlockShown
      <3>1. <<"custody", n>> \in ReportBlocks(Result)
        BY <2>5 DEF ReportBlocks
      <3>2. <<"note", n>> \notin ReportBlocks(Result)
        BY <2>3, <2>4, <2>5 DEF ReportBlocks
      <3> QED BY <3>1, <3>2
    <2>6. CASE ~CustodyBlockShown
      <3>1. <<"note", n>> \in ReportBlocks(Result)
        BY <2>6 DEF ReportBlocks
      <3>2. <<"custody", n>> \notin ReportBlocks(Result)
        BY <2>4, <2>6 DEF ReportBlocks
      <3> QED BY <3>1, <3>2
    <2> QED BY <2>5, <2>6
  <1> QED BY <1>1, <1>2, <1>3, <1>4

(* The printed report keeps no failed demand, no qualifier and no note back. *)
THEOREM ReportKeepsNothingBack == RewrapSpec => []ReportIsComplete
  <1>1. ReportInv => ReportIsComplete
    <2> SUFFICES ASSUME ReportInv, result # Null, call.caller = "cli", ~call.json
                 PROVE  /\ result.verdict = "valid" /\ exit = 1 =>
                               \E p \in {"trust policy", "custody policy", "version policy"} :
                                   <<p, FALSE>> \in printed
                        /\ \A i \in DOMAIN result.qualifiers :
                               <<"qualifier", result.qualifiers[i]>> \in printed
                        /\ \A n \in result.notes : <<"note", <<n>>>> \in printed
                        /\ \A n \in result.lineageNotes :
                               (<<"custody", n>> \in printed) # (<<"note", n>> \in printed)
      BY DEF ReportIsComplete
    <2>1. Reported
      BY DEF ReportInv, Unreported
    <2>2. result = Result /\ printed = ReportBlocks(Result) /\ exit = ExitCode(Result)
      BY <2>1 DEF Reported
    <2> QED BY <2>2, CompleteBlocks
  <1> QED BY <1>1, ReportInvariant, PTL

-----------------------------------------------------------------------------
(* The walk as the command runs it, over whatever the files hold. *)

(* The members an entry has. *)
IsEntry(e) ==
    e = [capsule_id    |-> e.capsule_id,
         manifest_hash |-> e.manifest_hash,
         entry_hash    |-> e.entry_hash,
         hop           |-> e.hop,
         status        |-> e.status,
         artifact      |-> e.artifact,
         from          |-> e.from]

(* An entry is declared by claim. *)
States(e, claim) ==
    /\ e.capsule_id = claim.capsule_id
    /\ e.manifest_hash = claim.manifest_hash
    /\ e.entry_hash = claim.entry_hash

Settled(e) == e.status # "unverified"

(* What is known of entry e of a walk over records, of which used are      *)
(* assigned, for a declaration: who made it, and what settled it.          *)
EntryOk(e, records, used, declaration) ==
    /\ IsEntry(e)
    /\ e.status \in Walk!Statuses
    /\ Settled(e) => e.artifact \in DOMAIN records /\ e.artifact \in used
    /\ e.status = "verified" =>
           /\ records[e.artifact].kind = "verifiable"
           /\ records[e.artifact].ok
           /\ Walk!Exact(e, records[e.artifact])
    /\ \/ \E k \in DOMAIN declaration : States(e, declaration[k])
       \/ \E j \in DOMAIN records : \E k \in DOMAIN records[j].declares :
              States(e, records[j].declares[k])

(* No two entries are settled by one artifact, and the first entries are the *)
(* declaration's.                                                            *)
EntriesOk(list, records, used, declaration) ==
    /\ IsSeq(list)
    /\ \A i \in DOMAIN list : EntryOk(list[i], records, used, declaration)
    /\ \A i, j \in DOMAIN list :
           Settled(list[i]) /\ Settled(list[j]) /\ list[i].artifact = list[j].artifact => i = j
    /\ DOMAIN declaration \subseteq DOMAIN list
    /\ \A i \in DOMAIN declaration : States(list[i], declaration[i])

(* Match gives an entry its status and its artifact. *)
SettledBy(e, status, artifact) == [e EXCEPT !.status = status, !.artifact = artifact]

(* To settle an entry leaves what it declares. *)
LEMMA EntrySettled ==
    ASSUME NEW e, IsEntry(e), NEW status, NEW artifact,
           NEW settled, settled = SettledBy(e, status, artifact)
    PROVE  /\ IsEntry(settled)
           /\ settled.capsule_id = e.capsule_id
           /\ settled.manifest_hash = e.manifest_hash
           /\ settled.entry_hash = e.entry_hash
           /\ settled.status = status /\ settled.artifact = artifact
  <1>1. DOMAIN e = {"capsule_id", "manifest_hash", "entry_hash", "hop", "status", "artifact", "from"}
    BY DEF IsEntry
  <1>2. /\ settled.capsule_id = e.capsule_id
        /\ settled.manifest_hash = e.manifest_hash
        /\ settled.entry_hash = e.entry_hash
        /\ settled.hop = e.hop /\ settled.from = e.from
        /\ settled.status = status /\ settled.artifact = artifact
    BY <1>1 DEF SettledBy
  <1>3. IsEntry(settled)
    BY <1>1 DEF IsEntry, SettledBy
  <1> QED BY <1>2, <1>3

(* A new entry is open and declares its claim. *)
LEMMA EntryMade ==
    ASSUME NEW claim, NEW hop, NEW from
    PROVE  /\ IsEntry(Walk!MakeEntry(claim, hop, from))
           /\ Walk!MakeEntry(claim, hop, from).status = "unverified"
           /\ States(Walk!MakeEntry(claim, hop, from), claim)
  BY DEF Walk!MakeEntry, IsEntry, States

(* A record settles an open entry. *)
LEMMA EntryResolved ==
    ASSUME NEW list, NEW records, NEW used, NEW declaration,
           EntriesOk(list, records, used, declaration),
           NEW c \in DOMAIN records, c \notin used,
           NEW i \in DOMAIN list, ~Settled(list[i]),
           NEW status \in Walk!Statuses,
           status = "verified" =>
               /\ records[c].kind = "verifiable"
               /\ records[c].ok
               /\ Walk!Exact(list[i], records[c]),
           NEW settled, settled = SettledBy(list[i], status, c),
           NEW next, next = [list EXCEPT ![i] = settled]
    PROVE  EntriesOk(next, records, used \cup {c}, declaration)
  <1> DEFINE e == list[i]
  <1>1. IsSeq(list) /\ DOMAIN list = 1..Len(list) /\ Len(list) \in Nat
    BY SeqShape DEF EntriesOk
  <1>2. DOMAIN next = DOMAIN list /\ next[i] = settled
        /\ \A j \in DOMAIN list : j # i => next[j] = list[j]
    OBVIOUS
  <1>3. IsSeq(next)
    <2>1. next = [j \in DOMAIN list |-> next[j]]
      OBVIOUS
    <2>2. next = [j \in 1..Len(list) |-> next[j]]
      BY <1>1, <2>1, Zenon
    <2> QED BY <1>1, <2>2, IndexedIsSeq, Zenon
  <1>4. EntryOk(e, records, used, declaration)
    BY DEF EntriesOk
  <1>5. /\ IsEntry(settled)
        /\ settled.capsule_id = e.capsule_id
        /\ settled.manifest_hash = e.manifest_hash
        /\ settled.entry_hash = e.entry_hash
        /\ settled.status = status /\ settled.artifact = c
    <2>1. IsEntry(e)
      BY <1>4 DEF EntryOk
    <2> QED BY <2>1, EntrySettled
  <1> HIDE DEF e
  <1>6. \A claim : States(settled, claim) <=> States(e, claim)
    BY <1>5 DEF States
  <1>7. Walk!Exact(settled, records[c]) <=> Walk!Exact(e, records[c])
    BY <1>5 DEF Walk!Exact
  <1>8. EntryOk(settled, records, used \cup {c}, declaration)
    BY <1>4, <1>5, <1>6, <1>7 DEF EntryOk, e
  <1>9. ASSUME NEW j \in DOMAIN list, j # i
        PROVE  EntryOk(list[j], records, used \cup {c}, declaration)
    BY <1>9 DEF EntriesOk, EntryOk
  <1>10. \A j \in DOMAIN next : EntryOk(next[j], records, used \cup {c}, declaration)
    BY <1>2, <1>8, <1>9
  <1>11. ASSUME NEW j \in DOMAIN list, NEW k \in DOMAIN list,
                Settled(next[j]), Settled(next[k]), next[j].artifact = next[k].artifact
         PROVE  j = k
    <2>1. \A l \in DOMAIN list : l # i /\ Settled(next[l]) => next[l].artifact # c
      BY <1>2 DEF EntriesOk, EntryOk
    <2>2. next[i].artifact = c
      BY <1>2, <1>5
    <2> QED BY <1>2, <1>11, <2>1, <2>2 DEF EntriesOk
  <1>12. DOMAIN declaration \subseteq DOMAIN next
    BY <1>2 DEF EntriesOk
  <1>13. \A j \in DOMAIN declaration : States(next[j], declaration[j])
    BY <1>2, <1>6 DEF EntriesOk, e
  <1>14. \A j, k \in DOMAIN next :
             Settled(next[j]) /\ Settled(next[k]) /\ next[j].artifact = next[k].artifact
                 => j = k
    BY <1>2, <1>11
  <1> QED BY <1>3, <1>10, <1>12, <1>13, <1>14, Zenon DEF EntriesOk

(* The entries a record declares are open ones. *)
LEMMA FrontierMade ==
    ASSUME NEW record, IsSeq(record.declares), NEW hop, NEW c
    PROVE  /\ IsSeq(Walk!Frontier(record, hop, c))
           /\ \A k \in DOMAIN Walk!Frontier(record, hop, c) :
                  LET e == Walk!Frontier(record, hop, c)[k]
                  IN  /\ IsEntry(e) /\ e.status = "unverified"
                      /\ \E j \in DOMAIN record.declares : States(e, record.declares[j])
  <1> DEFINE f == Walk!Frontier(record, hop, c)
  <1>1. DOMAIN f = DOMAIN record.declares
        /\ \A k \in DOMAIN f : f[k] = Walk!MakeEntry(record.declares[k], hop, c)
    BY DEF Walk!Frontier
  <1>2. IsSeq(f)
    <2>1. DOMAIN record.declares = 1..Len(record.declares) /\ Len(record.declares) \in Nat
      BY SeqShape
    <2>2. f = [k \in 1..Len(record.declares) |-> f[k]]
      BY <2>1 DEF Walk!Frontier
    <2> HIDE DEF f
    <2> QED BY <2>1, <2>2, IndexedIsSeq
  <1> HIDE DEF f
  <1>3. ASSUME NEW k \in DOMAIN f
        PROVE  /\ IsEntry(f[k]) /\ f[k].status = "unverified"
               /\ States(f[k], record.declares[k]) /\ k \in DOMAIN record.declares
    BY <1>1, <1>3, EntryMade
  <1> QED BY <1>2, <1>3 DEF f

(* They join the frontier. *)
LEMMA FrontierJoined ==
    ASSUME NEW list, NEW records, NEW used, NEW declaration,
           EntriesOk(list, records, used, declaration),
           NEW c \in DOMAIN records, NEW f,
           \A k \in DOMAIN f :
               /\ IsEntry(f[k]) /\ f[k].status = "unverified"
               /\ \E j \in DOMAIN records[c].declares : States(f[k], records[c].declares[j]),
           NEW next, Extends(next, list, f)
    PROVE  EntriesOk(next, records, used, declaration)
  <1>1. \A k \in DOMAIN f : EntryOk(f[k], records, used, declaration) /\ ~Settled(f[k])
    BY DEF EntryOk, Settled, Walk!Statuses
  <1>2. \A i \in DOMAIN next : EntryOk(next[i], records, used, declaration)
    BY <1>1 DEF EntriesOk, Extends
  <1>3. \A i \in DOMAIN next : Settled(next[i]) => i \in DOMAIN list /\ next[i] = list[i]
    BY <1>1 DEF Extends
  <1> QED BY <1>2, <1>3 DEF EntriesOk, Extends

-----------------------------------------------------------------------------
(* Where a run is, and what the walk has to do with the files read. *)

(* The declaration of the subject is read and walked. *)
Linkable == IsCapsule(subject) /\ Gate(subject) = "pass" /\ Declares(subject)

Classified == [k \in DOMAIN supplied |-> ClassifyArtifact(supplied[k])]

SubjectClaims == Claims(subject.manifest.predecessors)

(* Pool and entries are of the files read and of what the subject declares. *)
Linked ==
    /\ IsSeq(supplied)
    /\ Len(supplied) = Len(call.predecessors)
    /\ Linkable => pool = Classified /\ EntriesOk(entries, pool, assigned, SubjectClaims)
    /\ ~Linkable => pool = <<>> /\ entries = <<>>

Unread == IsSeq(supplied) /\ pool = <<>> /\ entries = <<>>

LinkInv ==
    \/ phase \in {"called", "reading"} /\ Unread
    \/ phase = "walking" /\ Linked
    \/ phase = "ended" /\ (Unreported \/ Linked)

(* A list of claims is as long as the declaration. *)
LEMMA ClaimsAreSeq ==
    ASSUME NEW declared, IsSeq(declared)
    PROVE  IsSeq(Claims(declared)) /\ DOMAIN Claims(declared) = DOMAIN declared
  <1>1. DOMAIN declared = 1..Len(declared) /\ Len(declared) \in Nat
    BY SeqShape
  <1>2. Claims(declared) = [i \in 1..Len(declared) |-> Claims(declared)[i]]
        /\ DOMAIN Claims(declared) = DOMAIN declared
    BY <1>1 DEF Claims
  <1> QED BY <1>1, <1>2, IndexedIsSeq

(* The entries of a declaration, before anything was matched. *)
LEMMA DeclarationOpens ==
    ASSUME NEW declared, IsSeq(declared), NEW records, NEW used
    PROVE  EntriesOk([i \in DOMAIN declared |-> Walk!MakeEntry(Claim(declared[i]), 1, 0)],
                     records, used, Claims(declared))
  <1> DEFINE list == [i \in DOMAIN declared |-> Walk!MakeEntry(Claim(declared[i]), 1, 0)]
  <1>1. DOMAIN declared = 1..Len(declared) /\ Len(declared) \in Nat
    BY SeqShape
  <1>2. IsSeq(list)
    <2>1. list = [i \in 1..Len(declared) |-> list[i]]
      BY <1>1
    <2> HIDE DEF list
    <2> QED BY <1>1, <2>1, IndexedIsSeq
  <1>3. DOMAIN Claims(declared) = DOMAIN declared /\ DOMAIN list = DOMAIN declared
    BY DEF Claims
  <1>4. ASSUME NEW i \in DOMAIN declared
        PROVE  /\ IsEntry(list[i]) /\ list[i].status = "unverified"
               /\ States(list[i], Claims(declared)[i])
    <2>1. list[i] = Walk!MakeEntry(Claim(declared[i]), 1, 0) /\ Claims(declared)[i] = Claim(declared[i])
      BY DEF Claims
    <2> HIDE DEF list
    <2> QED BY <2>1, EntryMade
  <1> HIDE DEF list
  <1>5. EntriesOk(list, records, used, Claims(declared))
    BY <1>2, <1>3, <1>4 DEF EntriesOk, EntryOk, Settled, Walk!Statuses
  <1> QED BY <1>5 DEF list

(* The artifacts a host supplies declare lists. *)
LEMMA ClassifiedDeclares ==
    ASSUME NEW k \in DOMAIN supplied
    PROVE  IsSeq(ClassifyArtifact(supplied[k]).declares)
  <1> DEFINE a == supplied[k]
             d == ClassifyArtifact(a).declares
  <1>1. CASE ArtifactKind(a) = "verifiable" /\ Declares(a)
    <2>1. d = Claims(a.manifest.predecessors)
      BY <1>1 DEF ClassifyArtifact
    <2>2. IsSeq(a.manifest.predecessors)
      BY <1>1 DEF Declares, PredecessorsWellFormed, IsArray, IsSeq
    <2> QED BY <2>1, <2>2, ClaimsAreSeq
  <1>2. CASE ~(ArtifactKind(a) = "verifiable" /\ Declares(a))
    <2>1. d = <<>>
      BY <1>2 DEF ClassifyArtifact
    <2>2. IsSeq(<<>>)
      BY DEF IsSeq
    <2> QED BY <2>1, <2>2
  <1> QED BY <1>1, <1>2

(* What LinkInv says depends on the files read and on the walk alone. *)
LEMMA LinkedStays ==
    ASSUME UNCHANGED <<call, subject, supplied, pool, entries, assigned>>
    PROVE  Linked' = Linked /\ Unread' = Unread /\ Linkable' = Linkable
           /\ Classified' = Classified /\ SubjectClaims' = SubjectClaims
  <1>1. Classified' = Classified
    BY DEF Classified, ClassifyArtifact, Options
  <1>2. Linkable' = Linkable /\ SubjectClaims' = SubjectClaims
    BY DEF Linkable, SubjectClaims
  <1>3. Linked' = Linked
    BY <1>1, <1>2 DEF Linked
  <1>4. Unread' = Unread
    BY DEF Unread
  <1> QED BY <1>1, <1>2, <1>3, <1>4

(* Nothing is read or walked at first. *)
LEMMA LinkInvInit ==
    ASSUME RewrapInit
    PROVE  LinkInv
  <1>1. IsSeq(<<>>)
    BY DEF IsSeq
  <1> QED BY <1>1 DEF RewrapInit, Called, LinkInv, Unread

(* The walk starts with an open entry for every claim of the subject. *)
LEMMA WalkStarts ==
    ASSUME StartVerification, Unread
    PROVE  Linked'
  <1>1. UNCHANGED <<call, subject, supplied>>
    BY DEF StartVerification
  <1>2. Classified' = Classified /\ Linkable' = Linkable /\ SubjectClaims' = SubjectClaims
    BY <1>1 DEF Classified, ClassifyArtifact, Options, Linkable, SubjectClaims
  <1>3. IsSeq(supplied)' /\ (Len(supplied) = Len(call.predecessors))'
    BY <1>1 DEF StartVerification, Unread
  <1>4. CASE Linkable
    <2> DEFINE declared == subject.manifest.predecessors
               list == [i \in DOMAIN declared |-> Walk!MakeEntry(Claim(declared[i]), 1, 0)]
    <2>1. pool' = Classified /\ entries' = list
      BY <1>4 DEF StartVerification, Linkable, Classified
    <2>2. IsSeq(declared)
      BY <1>4 DEF Linkable, Declares, PredecessorsWellFormed, IsArray, IsSeq
    <2>3. EntriesOk(list, Classified, assigned', SubjectClaims)
      BY <2>2, DeclarationOpens DEF SubjectClaims
    <2>4. EntriesOk(entries', pool', assigned', SubjectClaims')
      BY <1>2, <2>1, <2>3
    <2> QED BY <1>2, <1>3, <1>4, <2>1, <2>4 DEF Linked
  <1>5. CASE ~Linkable
    <2>1. pool' = <<>> /\ entries' = <<>>
      BY <1>5 DEF StartVerification, Unread, Linkable
    <2> QED BY <1>2, <1>3, <1>5, <2>1 DEF Linked
  <1> QED BY <1>4, <1>5

(* A matched record settles an open entry, and may declare further ones. *)
LEMMA MatchLinks ==
    ASSUME Linked, Linkable, Walk!Match
    PROVE  EntriesOk(entries', pool, assigned', SubjectClaims)
  <1> DEFINE record == pool[cursor]
  <1>1. /\ cursor \in DOMAIN pool /\ cursor \notin assigned
        /\ assigned' = assigned \cup {cursor}
    BY DEF Walk!Match, Walk!AtRecord
  <1>2. PICK i \in Walk!Candidates(record) :
            LET resolved == [entries EXCEPT
                              ![i] = [@ EXCEPT !.status = Walk!StatusFor(entries[i], record),
                                               !.artifact = cursor]]
            IN  IF Walk!JoinsFrontier(entries[i], record) /\ entries[i].hop + 1 <= HopCap
                THEN entries' = resolved \o Walk!Frontier(record, entries[i].hop + 1, cursor)
                ELSE entries' = resolved
    BY DEF Walk!Match
  <1> DEFINE status == Walk!StatusFor(entries[i], record)
             resolved == [entries EXCEPT ![i] = SettledBy(@, status, cursor)]
  <1>3. i \in DOMAIN entries /\ ~Settled(entries[i])
    BY DEF Walk!Candidates, Walk!Open, Settled
  <1>4. /\ status \in Walk!Statuses
        /\ status = "verified" => record.kind = "verifiable" /\ record.ok /\ Walk!Exact(entries[i], record)
    BY DEF Walk!StatusFor, Walk!Statuses
  <1>5. EntriesOk(entries, pool, assigned, SubjectClaims)
    BY DEF Linked
  <1>6. IsSeq(record.declares)
    <2>1. pool = Classified
      BY DEF Linked
    <2>2. cursor \in DOMAIN supplied /\ record = ClassifyArtifact(supplied[cursor])
      BY <1>1, <2>1 DEF Classified
    <2> QED BY <2>2, ClassifiedDeclares
  <1>7. \/ entries' = resolved
        \/ \E hop : entries' = resolved \o Walk!Frontier(record, hop, cursor)
    BY <1>2 DEF SettledBy
  <1> HIDE DEF status
  <1>8. EntriesOk(resolved, pool, assigned \cup {cursor}, SubjectClaims)
    BY <1>1, <1>3, <1>4, <1>5, EntryResolved
  <1> HIDE DEF resolved
  <1>9. CASE entries' = resolved
    BY <1>1, <1>8, <1>9
  <1>10. ASSUME NEW hop, entries' = resolved \o Walk!Frontier(record, hop, cursor)
         PROVE  EntriesOk(entries', pool, assigned', SubjectClaims)
    <2> DEFINE f == Walk!Frontier(record, hop, cursor)
    <2>1. /\ IsSeq(f)
          /\ \A k \in DOMAIN f :
                 /\ IsEntry(f[k]) /\ f[k].status = "unverified"
                 /\ \E j \in DOMAIN record.declares : States(f[k], record.declares[j])
      BY <1>6, FrontierMade
    <2> HIDE DEF f
    <2>2. IsSeq(resolved)
      BY <1>8 DEF EntriesOk
    <2>3. Extends(entries', resolved, f)
      BY <1>10, <2>1, <2>2, ConcatenatedSeq DEF f
    <2> QED BY <1>1, <1>8, <2>1, <2>3, FrontierJoined
  <1> QED BY <1>7, <1>9, <1>10

(* A step of the walk keeps what is known of the entries. *)
LEMMA WalkStepLinks ==
    ASSUME Linked, WalkStep
    PROVE  Linked'
  <1>1. UNCHANGED <<call, stored, phase, subject, supplied, result, printed, exit>> /\ Walk!Next
    BY DEF WalkStep
  <1>2. CASE Walk!Match /\ Linkable
    <2>1. EntriesOk(entries', pool, assigned', SubjectClaims)
      BY <1>2, MatchLinks
    <2>2. pool' = pool
      BY <1>2 DEF Walk!Match
    <2>3. Classified' = Classified /\ Linkable' = Linkable /\ SubjectClaims' = SubjectClaims
      BY <1>1 DEF Classified, ClassifyArtifact, Options, Linkable, SubjectClaims
    <2>4. IsSeq(supplied') /\ Len(supplied') = Len(call'.predecessors) /\ pool' = Classified'
          /\ EntriesOk(entries', pool', assigned', SubjectClaims')
      BY <1>1, <1>2, <2>1, <2>2, <2>3 DEF Linked
    <2> QED BY <1>2, <2>3, <2>4 DEF Linked
  <1>3. CASE Walk!Match /\ ~Linkable
    <2>1. pool = <<>> /\ cursor \in DOMAIN pool
      BY <1>3 DEF Linked, Walk!Match, Walk!AtRecord
    <2> QED BY <2>1
  <1>4. CASE Walk!Skip \/ Walk!NextPass \/ Walk!Return
    <2>1. UNCHANGED <<pool, entries, assigned>>
      BY <1>4 DEF Walk!Skip, Walk!NextPass, Walk!Return
    <2> QED BY <1>1, <2>1, LinkedStays
  <1> QED BY <1>1, <1>2, <1>3, <1>4 DEF Walk!Next

(* Every step keeps the walk tied to the files that were read. *)
LEMMA LinkInvNext ==
    ASSUME ReportInv, LinkInv, [RewrapNext]_allVars
    PROVE  LinkInv'
  <1>1. CASE UNCHANGED verifyVarsButFiles
    <2>1. UNCHANGED <<call, phase, subject, supplied, result, printed, exit, pool, entries, assigned>>
      BY <1>1 DEF verifyVarsButFiles, walkVars
    <2>2. Unreported' = Unreported
      BY <2>1 DEF Unreported
    <2> QED BY <2>1, <2>2, LinkedStays DEF LinkInv
  <1>2. CASE RefuseArguments \/ FileMissing
    <2>1. phase \in {"called", "reading"} /\ Fail
      BY <1>2 DEF RefuseArguments, FileMissing, Reads
    <2>2. Unreported
      BY <2>1 DEF ReportInv
    <2>3. Unreported' /\ phase' = "ended"
      BY <2>1, <2>2 DEF Fail, Unreported
    <2> QED BY <2>3 DEF LinkInv
  <1>3. CASE ReadSubject
    <2>1. phase = "called" /\ phase' = "reading" /\ UNCHANGED <<supplied, pool, entries>>
      BY <1>3 DEF ReadSubject, walkVars
    <2> QED BY <2>1 DEF LinkInv, Unread
  <1>4. CASE ReadPredecessor
    <2>1. phase = "reading" /\ phase' = "reading" /\ UNCHANGED <<pool, entries>>
          /\ supplied' = Append(supplied, FileAt(NextPath))
      BY <1>4 DEF ReadPredecessor, walkVars
    <2>2. Unread
      BY <2>1 DEF LinkInv
    <2>3. IsSeq(supplied')
      BY <2>1, <2>2, AppendedSeq DEF Unread
    <2> QED BY <2>1, <2>2, <2>3 DEF LinkInv, Unread
  <1>5. CASE StartVerification
    <2>1. phase = "reading" /\ phase' = "walking"
      BY <1>5 DEF StartVerification
    <2>2. Unread
      BY <2>1 DEF LinkInv
    <2> QED BY <1>5, <2>1, <2>2, WalkStarts DEF LinkInv
  <1>6. CASE WalkStep
    <2>1. phase = "walking" /\ phase' = "walking"
      BY <1>6 DEF WalkStep
    <2> QED BY <1>6, <2>1, WalkStepLinks DEF LinkInv
  <1>7. CASE Report
    <2>1. phase = "walking" /\ phase' = "ended"
          /\ UNCHANGED <<call, subject, supplied, pool, entries, assigned>>
      BY <1>7 DEF Report, walkVars
    <2> QED BY <2>1, LinkedStays DEF LinkInv
  <1> QED BY <1>1, <1>2, <1>3, <1>4, <1>5, <1>6, <1>7, RewrapStep DEF Next

(* LinkInv holds in every state of the hand-off. *)
LEMMA LinkInvariant == RewrapSpec => []LinkInv
  <1>1. RewrapInit => LinkInv
    BY LinkInvInit
  <1>2. ReportInv /\ LinkInv /\ [RewrapNext]_allVars => LinkInv'
    BY LinkInvNext
  <1> QED BY <1>1, <1>2, ReportInvariant, PTL DEF RewrapSpec

(* What has reported has linked. *)
LEMMA ReportedIsLinked ==
    ASSUME ReportInv, LinkInv, result # Null \/ exit = 0
    PROVE  Reported /\ Linked
  <1>1. ~Unreported
    BY NullAssumption DEF Unreported
  <1> QED BY <1>1 DEF ReportInv, LinkInv

-----------------------------------------------------------------------------
(* Whether a capsule holds does not depend on whom the host trusts. *)
LEMMA HoldsWhateverTheAllowlist ==
    ASSUME NEW c
    PROVE  VerifyOk(c, Options) <=> Holds(c)
  <1>1. Options.outerEnvelope = Absent /\ [Options EXCEPT !.allowlist = {}].outerEnvelope = Absent
    BY DEF Options
  <1>2. OuterOk(c, Options) /\ OuterOk(c, [Options EXCEPT !.allowlist = {}])
    BY <1>1 DEF OuterOk
  <1> QED BY <1>2 DEF VerifyOk, Holds

(* What a verified entry says of the artifact that settled it. *)
LEMMA VerifiedArtifact ==
    ASSUME Linked, Linkable, NEW i \in DOMAIN entries, entries[i].status = "verified"
    PROVE  /\ entries[i].artifact \in DOMAIN supplied
           /\ LET a == supplied[entries[i].artifact]
              IN  IsCapsule(a) /\ Holds(a) /\ States(entries[i], DerivedClaim(a))
  <1> DEFINE k == entries[i].artifact
             a == supplied[k]
             record == ClassifyArtifact(a)
  <1>1. EntryOk(entries[i], pool, assigned, SubjectClaims)
    BY DEF Linked, EntriesOk
  <1>2. k \in DOMAIN supplied /\ pool[k] = record
    BY <1>1 DEF EntryOk, Settled, Linked, Classified
  <1>3. record.kind = "verifiable" /\ record.ok /\ Walk!Exact(entries[i], record)
    BY <1>1, <1>2 DEF EntryOk
  <1>4. ArtifactKind(a) = "verifiable"
    BY <1>3 DEF ClassifyArtifact
  <1>5. IsCapsule(a)
    BY <1>4 DEF ArtifactKind
  <1>6. VerifyOk(a, Options)
    BY <1>3 DEF ClassifyArtifact
  <1>7. Holds(a)
    BY <1>6, HoldsWhateverTheAllowlist
  <1>8. States(entries[i], DerivedClaim(a))
    BY <1>3, <1>4 DEF ClassifyArtifact, Walk!Exact, States, DerivedClaim, Claim
  <1> QED BY <1>2, <1>5, <1>7, <1>8

(* A policy that is declared is not null. *)
CallInv == call.accept # {} => call.accept # Null

(* The call never changes, so what NullAssumption says of it stays true. *)
LEMMA CallInvariant == RewrapSpec => []CallInv
  <1>1. RewrapInit => CallInv
    BY NullAssumption DEF RewrapInit, FollowUps, CallInv
  <1>2. CallInv /\ [RewrapNext]_allVars => CallInv'
    <2>1. [RewrapNext]_allVars => UNCHANGED call
      BY RewrapStep DEF Next, RefuseArguments, ReadSubject, FileMissing, Fail, ReadPredecessor,
                        StartVerification, WalkStep, Report, verifyVarsButFiles
    <2> QED BY <2>1 DEF CallInv
  <1> QED BY <1>1, <1>2, PTL DEF RewrapSpec

(* What a capsule without an integrity qualifier is bound to. *)
LEMMA IntegrityIsBound ==
    ASSUME NEW c, VerifyOk(c, Options), IntegrityQualifiers(c, Options) = {}, CallInv
    PROVE  /\ c.manifest.signer_commitment = Members(c.signers)
           /\ c.manifest.participants # {}
           /\ HasEvents(c) /\ Events(c) # <<>>
           /\ \A i \in DOMAIN Events(c) :
                  Events(c)[i].bare.actor \in c.manifest.participants \cup {HostActor}
           /\ call.accept # {} => c.manifest.version \in call.accept
  <1>1. Gate(c) = "pass" /\ OpenGate(c) = "pass"
    BY DEF VerifyOk, Gate
  <1>2. /\ SignerSetBound(c) /\ ActorSetBound(c)
        /\ ChainNote(c) # "empty"
        /\ ~(Level(Options) = "L2" /\ ChainNote(c) = "deferred")
        /\ ~(AcceptedByPolicy(c, Options) # Null /\ ~AcceptedByPolicy(c, Options))
    BY DEF IntegrityQualifiers
  <1>3. Level(Options) = "L2"
    BY DEF Options, Level
  <1>4. ~IsEncrypted(c) /\ ~(HasEvents(c) /\ Events(c) = <<>>)
    BY <1>1, <1>2, <1>3 DEF ChainNote
  <1>5. HasEvents(c) /\ Events(c) # <<>> /\ WalkedChainOk(c)
    BY <1>4 DEF VerifyOk, ChainOk
  <1>6. c.manifest.participants # {}
    BY <1>2 DEF ActorSetBound
  <1>7. \A i \in DOMAIN Events(c) :
            Events(c)[i].bare.actor \in c.manifest.participants \cup {HostActor}
    BY <1>5, <1>6 DEF WalkedChainOk, VerifyChain, ActorAllowed
  <1>8. c.manifest.signer_commitment = Members(c.signers)
    BY <1>2 DEF SignerSetBound, VerifyOk, SignerSetOk
  <1>9. ASSUME call.accept # {}
        PROVE  c.manifest.version \in call.accept
    <2>1. Options.acceptVersions = call.accept /\ call.accept # Null
      BY <1>9 DEF Options, CallInv
    <2>2. /\ AcceptedByPolicy(c, Options) <=> c.manifest.version \in call.accept
          /\ AcceptedByPolicy(c, Options) \in BOOLEAN
      BY <1>1, <2>1 DEF AcceptedByPolicy
    <2>3. Null \notin BOOLEAN
      BY NullAssumption
    <2>4. AcceptedByPolicy(c, Options) # Null
      BY <2>2, <2>3
    <2> QED BY <1>2, <2>2, <2>4
  <1> QED BY <1>5, <1>6, <1>7, <1>8, <1>9

(* A subject without a lineage qualifier has every entry verified. *)
LEMMA LineageIsVerified ==
    ASSUME Linked, Linkable, LineageQualifiers(LineageChannel(subject)) = {}
    PROVE  \A i \in DOMAIN subject.manifest.predecessors :
               \E a \in Supplied :
                   /\ IsCapsule(a) /\ Holds(a)
                   /\ DerivedClaim(a) = Claim(subject.manifest.predecessors[i])
  <1> SUFFICES ASSUME NEW i \in DOMAIN subject.manifest.predecessors
               PROVE  \E a \in Supplied :
                          /\ IsCapsule(a) /\ Holds(a)
                          /\ DerivedClaim(a) = Claim(subject.manifest.predecessors[i])
    OBVIOUS
  <1> DEFINE statuses == LineageChannel(subject).statuses
  <1>1. LineageChannel(subject).declared
    BY DEF Linkable, LineageChannel, LineageDeclared, Declares
  <1>2. /\ statuses \cap {"unverified", "predecessor_unverifiable"} = {}
        /\ "mismatch" \notin statuses /\ "predecessor_invalid" \notin statuses
    BY <1>1 DEF LineageQualifiers
  <1>3. EntriesOk(entries, pool, assigned, SubjectClaims)
    BY DEF Linked
  <1>4. DOMAIN SubjectClaims = DOMAIN subject.manifest.predecessors
        /\ SubjectClaims[i] = Claim(subject.manifest.predecessors[i])
    BY DEF SubjectClaims, Claims
  <1>5. i \in DOMAIN entries /\ States(entries[i], Claim(subject.manifest.predecessors[i]))
    BY <1>3, <1>4 DEF EntriesOk
  <1>6. entries[i].status \in statuses /\ entries[i].status \in Walk!Statuses
    BY <1>3, <1>5 DEF LineageChannel, EntriesOk, EntryOk
  <1>7. entries[i].status = "verified"
    BY <1>2, <1>6 DEF Walk!Statuses
  <1> DEFINE a == supplied[entries[i].artifact]
  <1>8. a \in Supplied /\ IsCapsule(a) /\ Holds(a) /\ States(entries[i], DerivedClaim(a))
    BY <1>5, <1>7, VerifiedArtifact DEF Supplied
  <1>9. DerivedClaim(a) = Claim(subject.manifest.predecessors[i])
    BY <1>5, <1>8 DEF States, DerivedClaim, Claim
  <1> QED BY <1>8, <1>9

(* VALID without a qualifier: everything the report could have qualified is *)
(* bound, walked, trusted, accepted and supplied.                           *)
THEOREM UnqualifiedIsStrong == RewrapSpec => []UnqualifiedValidIsStrong
  <1>1. ReportInv /\ LinkInv /\ CallInv => UnqualifiedValidIsStrong
    <2> SUFFICES ASSUME ReportInv, LinkInv, CallInv, result # Null,
                        result.verdict = "valid", result.qualifiers = <<>>
                 PROVE  /\ subject.manifest.signer_commitment = Members(subject.signers)
                        /\ subject.manifest.participants # {}
                        /\ HasEvents(subject) /\ Events(subject) # <<>>
                        /\ \A i \in DOMAIN Events(subject) :
                               Events(subject)[i].bare.actor
                                   \in subject.manifest.participants \cup {HostActor}
                        /\ TrustedSigners(subject, Options) # {}
                        /\ call.accept # {} => subject.manifest.version \in call.accept
                        /\ Declares(subject) =>
                               \A i \in DOMAIN subject.manifest.predecessors :
                                   \E a \in Supplied :
                                       /\ IsCapsule(a) /\ Holds(a)
                                       /\ DerivedClaim(a) = Claim(subject.manifest.predecessors[i])
      BY DEF UnqualifiedValidIsStrong
    <2> DEFINE c == subject
               lineage == LineageChannel(c)
    <2>1. result = Result /\ Linked
      BY ReportedIsLinked DEF Reported
    <2>2. IsCapsule(c)
      BY <2>1 DEF Result, FailClosed
    <2>3. Verdict(c, Options) = "valid" /\ Emitted(Qualifiers(c, Options, lineage)) = <<>>
      BY <2>1, <2>2 DEF Result
    <2>4. VerifyOk(c, Options) /\ Gate(c) = "pass"
      BY <2>3, Verdicts
    <2>5. Qualifiers(c, Options, lineage) = IntegrityQualifiers(c, Options)
              \cup TrustQualifiers(c, Options) \cup LineageQualifiers(lineage)
      BY <2>3 DEF Qualifiers
    <2>6. /\ IntegrityQualifiers(c, Options) = {}
          /\ "trust_not_evaluated" \notin TrustQualifiers(c, Options)
          /\ "no_trusted_signer" \notin TrustQualifiers(c, Options)
          /\ LineageQualifiers(lineage) = {}
      <3>1. \A i \in 1..10 : QualifierOrder[i] \notin Qualifiers(c, Options, lineage)
        BY <2>3, EmittedEmpty
      <3>2. \A q \in {"signer_set_unbound", "actor_set_unbound", "empty_chain_not_walked",
                       "encrypted_outer_only", "version_not_accepted_by_policy",
                       "trust_not_evaluated", "no_trusted_signer", "lineage_declared_unverified",
                       "lineage_mismatch", "lineage_predecessor_invalid"} :
                q \notin Qualifiers(c, Options, lineage)
        BY <3>1, QualifierPlaces
      <3>3. \A q \in IntegrityQualifiers(c, Options) :
                q \in {"signer_set_unbound", "actor_set_unbound", "empty_chain_not_walked",
                       "encrypted_outer_only", "version_not_accepted_by_policy"}
        BY DEF IntegrityQualifiers
      <3>4. \A q \in LineageQualifiers(lineage) :
                q \in {"lineage_declared_unverified", "lineage_mismatch",
                       "lineage_predecessor_invalid"}
        BY DEF LineageQualifiers
      <3> HIDE DEF lineage
      <3> QED BY <2>5, <3>2, <3>3, <3>4
    <2>7. TrustedSigners(c, Options) # {}
      <3>1. EffectiveAllowlist(Options) # {}
        BY <2>6 DEF TrustQualifiers
      <3> QED BY <2>6, <3>1 DEF TrustQualifiers
    <2>8. Declares(c) => Linkable
      BY <2>2, <2>4 DEF Linkable
    <2> QED BY <2>1, <2>4, <2>6, <2>7, <2>8, IntegrityIsBound, LineageIsVerified
  <1> QED BY <1>1, ReportInvariant, LinkInvariant, CallInvariant, PTL

-----------------------------------------------------------------------------
(* As many entries were settled as files supplied: none was left over. *)
LEMMA EveryFileSettles ==
    ASSUME NEW S, IsFiniteSet(S), NEW n \in Nat, Cardinality(S) >= n,
           NEW f \in [S -> 1..n], \A i, j \in S : f[i] = f[j] => i = j
    PROVE  \A k \in 1..n : \E i \in S : f[i] = k
  <1>1. f \in Injection(S, 1..n)
    BY DEF Injection, IsInjective
  <1>2. IsFiniteSet(1..n) /\ Cardinality(1..n) = n
    BY FS_Interval
  <1>3. Cardinality(S) <= n /\ (Cardinality(S) = n <=> f \in Surjection(S, 1..n))
    BY <1>1, <1>2, FS_Injection
  <1>4. Cardinality(S) \in Nat
    BY FS_CardinalityType
  <1>5. f \in Surjection(S, 1..n)
    BY <1>3, <1>4
  <1> QED BY <1>5 DEF Surjection

(* A truth value that is not FALSE is true. *)
LEMMA TruthOfDemand == \A p \in BOOLEAN : p # FALSE => p
  OBVIOUS

(* Exit 0: the verification held, and no demand that was made failed. *)
LEMMA DemandsMet ==
    ASSUME ExitCode(Result) = 0
    PROVE  /\ Result.ok
           /\ call.allowlist # {} => Result.trusted # {}
           /\ call.accept # {} => Result.accepted # FALSE
           /\ call.predecessors # <<>> =>
                  /\ Cardinality(Checked) >= Len(call.predecessors)
                  /\ \A i \in Checked : entries[i].status = "verified"
  <1>1. Result.ok /\ FALSE \notin {TrustPolicy(Result), VersionPolicy(Result), CustodyPolicy}
    BY ExitOfDemands, Zenon DEF ExitCode
  <1>2. TrustPolicy(Result) # FALSE /\ VersionPolicy(Result) # FALSE /\ CustodyPolicy # FALSE
    BY <1>1, Zenon
  <1>3. ASSUME call.allowlist # {}
        PROVE  Result.trusted # {}
    <2>1. TrustPolicy(Result) \in BOOLEAN /\ (TrustPolicy(Result) <=> Result.trusted # {})
      BY <1>3 DEF TrustPolicy
    <2> QED BY <1>2, <2>1, TruthOfDemand, Zenon
  <1>4. ASSUME call.accept # {}
        PROVE  Result.accepted # FALSE
    <2>1. VersionPolicy(Result) = Result.accepted
      BY <1>4 DEF VersionPolicy
    <2> QED BY <1>2, <2>1, Zenon
  <1>5. ASSUME call.predecessors # <<>>
        PROVE  /\ Cardinality(Checked) >= Len(call.predecessors)
               /\ \A i \in Checked : entries[i].status = "verified"
    <2>1. /\ CustodyPolicy \in BOOLEAN
          /\ CustodyPolicy <=> /\ Cardinality(Checked) >= Len(call.predecessors)
                               /\ \A i \in Checked : entries[i].status = "verified"
      BY <1>5 DEF CustodyPolicy
    <2>2. CustodyPolicy
      BY <1>2, <2>1, TruthOfDemand, Zenon
    <2> QED BY <2>1, <2>2
  <1> QED BY <1>1, <1>3, <1>4, <1>5

(* A verified entry is the declaration of the subject or of a supplied file. *)
LEMMA VerifiedIsNamed ==
    ASSUME Linked, Linkable, NEW i \in DOMAIN entries, entries[i].status = "verified"
    PROVE  LET a == supplied[entries[i].artifact]
           IN  \E c \in Supplied \cup {subject} : Names(c, a)
  <1> DEFINE a == supplied[entries[i].artifact]
  <1>1. IsCapsule(a) /\ States(entries[i], DerivedClaim(a))
    BY VerifiedArtifact
  <1>2. EntryOk(entries[i], pool, assigned, SubjectClaims)
    BY DEF Linked, EntriesOk
  <1>3. ASSUME NEW c, IsCapsule(c), Declares(c), NEW k \in DOMAIN c.manifest.predecessors,
               States(entries[i], Claim(c.manifest.predecessors[k]))
        PROVE  Names(c, a)
    <2>1. Claim(c.manifest.predecessors[k]) = DerivedClaim(a)
      BY <1>1, <1>3 DEF States, DerivedClaim, Claim
    <2> QED BY <1>1, <1>3, <2>1 DEF Names
  <1>4. CASE \E k \in DOMAIN SubjectClaims : States(entries[i], SubjectClaims[k])
    <2>1. PICK k \in DOMAIN subject.manifest.predecessors :
              States(entries[i], Claim(subject.manifest.predecessors[k]))
      BY <1>4 DEF SubjectClaims, Claims
    <2>2. IsCapsule(subject) /\ Declares(subject)
      BY DEF Linkable
    <2> QED BY <1>3, <2>1, <2>2
  <1>5. CASE \E j \in DOMAIN pool : \E k \in DOMAIN pool[j].declares :
                 States(entries[i], pool[j].declares[k])
    <2>1. PICK j \in DOMAIN pool : \E k \in DOMAIN pool[j].declares :
              States(entries[i], pool[j].declares[k])
      BY <1>5
    <2>2. j \in DOMAIN supplied /\ pool[j] = ClassifyArtifact(supplied[j])
      BY DEF Linked, Classified
    <2> DEFINE c == supplied[j]
    <2>3. ArtifactKind(c) = "verifiable" /\ Declares(c)
          /\ pool[j].declares = Claims(c.manifest.predecessors)
      BY <2>1, <2>2 DEF ClassifyArtifact
    <2>4. IsCapsule(c)
      BY <2>3 DEF ArtifactKind
    <2>5. \E k \in DOMAIN c.manifest.predecessors :
              States(entries[i], Claim(c.manifest.predecessors[k]))
      BY <2>1, <2>3 DEF Claims
    <2>6. c \in Supplied
      BY <2>2 DEF Supplied
    <2> QED BY <1>3, <2>3, <2>4, <2>5, <2>6
  <1> QED BY <1>2, <1>4, <1>5 DEF EntryOk

(* If the custody demand was met, every file given is a verified entry. *)
LEMMA SuppliedAreNamed ==
    ASSUME Linked,
           call.predecessors # <<>> =>
               /\ Cardinality(Checked) >= Len(call.predecessors)
               /\ \A i \in Checked : entries[i].status = "verified",
           NEW a \in Supplied
    PROVE  /\ IsCapsule(a) /\ Holds(a)
           /\ \E c \in Supplied \cup {subject} : Names(c, a)
  <1> DEFINE n == Len(supplied)
  <1>1. n \in Nat /\ DOMAIN supplied = 1..n /\ n = Len(call.predecessors)
    BY SeqShape DEF Linked
  <1>2. PICK k \in 1..n : a = supplied[k]
    BY <1>1 DEF Supplied
  <1>3. call.predecessors # <<>>
    BY <1>1, <1>2
  <1>4. Cardinality(Checked) >= n /\ \A i \in Checked : entries[i].status = "verified"
    BY <1>1, <1>3
  <1>5. Linkable
    <2> SUFFICES ASSUME ~Linkable PROVE FALSE
      OBVIOUS
    <2>1. Checked = {}
      BY DEF Linked, Checked
    <2> QED BY <1>1, <1>2, <1>4, <2>1, FS_EmptySet
  <1>6. EntriesOk(entries, pool, assigned, SubjectClaims) /\ DOMAIN pool = 1..n
    BY <1>1, <1>5 DEF Linked, Classified
  <1>7. IsFiniteSet(Checked)
    <2>1. DOMAIN entries = 1..Len(entries) /\ Len(entries) \in Nat
      BY <1>6, SeqShape DEF EntriesOk
    <2>2. Checked \in SUBSET (1..Len(entries))
      BY <2>1 DEF Checked
    <2>3. IsFiniteSet(1..Len(entries))
      BY <2>1, FS_Interval
    <2> QED BY <2>2, <2>3, FS_Subset
  <1> DEFINE f == [i \in Checked |-> entries[i].artifact]
  <1>8. f \in [Checked -> 1..n] /\ \A i, j \in Checked : f[i] = f[j] => i = j
    BY <1>6 DEF Checked, EntriesOk, EntryOk, Settled
  <1>9. PICK i \in Checked : f[i] = k
    <2> HIDE DEF f, n
    <2> QED BY <1>1, <1>2, <1>4, <1>7, <1>8, EveryFileSettles
  <1>10. i \in DOMAIN entries /\ entries[i].status = "verified" /\ entries[i].artifact = k
    BY <1>4, <1>9 DEF Checked
  <1> QED BY <1>2, <1>5, <1>10, VerifiedArtifact, VerifiedIsNamed

(* Exit 0: the capsule holds, and every demand of the command line was met. *)
THEOREM ExitZeroIsEarned == RewrapSpec => []ExitZeroMeansDemandsMet
  <1>1. ReportInv /\ LinkInv /\ CallInv => ExitZeroMeansDemandsMet
    <2> SUFFICES ASSUME ReportInv, LinkInv, CallInv, exit = 0
                 PROVE  /\ IsCapsule(subject) /\ Holds(subject)
                        /\ call.allowlist # {} =>
                               \E k \in call.allowlist, i \in DOMAIN subject.signers :
                                   /\ subject.signers[i].public_key = k
                                   /\ SignatureValid(subject.signers[i], subject.envelope)
                        /\ call.accept # {} => subject.manifest.version \in call.accept
                        /\ \A a \in Supplied :
                               /\ IsCapsule(a) /\ Holds(a)
                               /\ \E c \in Supplied \cup {subject} : Names(c, a)
      BY DEF ExitZeroMeansDemandsMet
    <2> DEFINE c == subject
    <2>1. Reported /\ Linked
      BY ReportedIsLinked
    <2>2. ExitCode(Result) = 0
      <3>1. Null # 0
        BY NullAssumption
      <3> QED BY <2>1, <3>1 DEF Reported
    <2>3. /\ Result.ok
          /\ call.allowlist # {} => Result.trusted # {}
          /\ call.accept # {} => Result.accepted # FALSE
          /\ call.predecessors # <<>> =>
                 /\ Cardinality(Checked) >= Len(call.predecessors)
                 /\ \A i \in Checked : entries[i].status = "verified"
      BY <2>2, DemandsMet
    <2>4. IsCapsule(c)
      BY <2>3 DEF Result, FailClosed
    <2>5. /\ Result.ok = VerifyOk(c, Options)
          /\ Result.trusted = TrustedSigners(c, Options)
          /\ Result.accepted = AcceptedByPolicy(c, Options)
      BY <2>4 DEF Result
    <2>6. VerifyOk(c, Options) /\ Holds(c) /\ Gate(c) = "pass"
      BY <2>3, <2>5, HoldsWhateverTheAllowlist DEF VerifyOk
    <2>7. ASSUME call.allowlist # {}
          PROVE  \E k \in call.allowlist, i \in DOMAIN c.signers :
                     /\ c.signers[i].public_key = k
                     /\ SignatureValid(c.signers[i], c.envelope)
      BY <2>3, <2>5, <2>7 DEF TrustedSigners, Options
    <2>8. ASSUME call.accept # {}
          PROVE  c.manifest.version \in call.accept
      <3>1. Options.acceptVersions = call.accept /\ call.accept # Null
        BY <2>8 DEF Options, CallInv
      <3>2. /\ AcceptedByPolicy(c, Options) <=> c.manifest.version \in call.accept
            /\ AcceptedByPolicy(c, Options) \in BOOLEAN
        BY <2>6, <3>1 DEF AcceptedByPolicy
      <3>3. AcceptedByPolicy(c, Options) # FALSE
        BY <2>3, <2>5, <2>8, Zenon
      <3> QED BY <3>2, <3>3, TruthOfDemand, Zenon
    <2> QED BY <2>1, <2>3, <2>4, <2>6, <2>7, <2>8, SuppliedAreNamed
  <1> QED BY <1>1, ReportInvariant, LinkInvariant, CallInvariant, PTL

-----------------------------------------------------------------------------
(* What the files in hand come to.  If each is valid, is exactly what one    *)
(* claim of the subject says and is there once, every file settles an entry  *)
(* as verified in the first pass, whatever entries its declaration adds.     *)

InHand(records, declaration) ==
    /\ \A k \in DOMAIN records :
           /\ records[k].kind = "verifiable" /\ records[k].ok
           /\ \E i \in DOMAIN declaration : Walk!Exact(declaration[i], records[k])
    /\ \A j, k \in DOMAIN records : records[j].mh = records[k].mh => j = k
    /\ \A i, j \in DOMAIN declaration :
           declaration[i].manifest_hash = declaration[j].manifest_hash => i = j

(* Whatever is settled is verified, by every file that was used, and every *)
(* file before the position was.                                           *)
Served(list, records, used, position) ==
    /\ \A i \in DOMAIN list : Settled(list[i]) => list[i].status = "verified"
    /\ \A k \in used : \E i \in DOMAIN list : Settled(list[i]) /\ list[i].artifact = k
    /\ \A k \in DOMAIN records : k < position => k \in used
    /\ position \in Nat \ {0}

Kept ==
    Linkable /\ InHand(pool, SubjectClaims) =>
        /\ Served(entries, pool, assigned, cursor)
        /\ done => DOMAIN pool \subseteq assigned

ServedInv ==
    /\ phase \in {"called", "reading"} => assigned = {} /\ cursor = 1
    /\ phase = "walking" => Kept
    /\ phase = "ended" => Unreported \/ (done /\ Kept)

(* As long as a file is not used, its claim's entry is open, and it is the *)
(* first of those the file could settle.                                   *)
LEMMA OwnEntryIsOpen ==
    ASSUME Linked, Linkable, InHand(pool, SubjectClaims), Served(entries, pool, assigned, cursor),
           NEW c \in DOMAIN pool, c \notin assigned
    PROVE  \E h \in DOMAIN entries :
               /\ Walk!Exact(entries[h], pool[c])
               /\ h \in Walk!Candidates(pool[c])
               /\ \A i \in Walk!Candidates(pool[c]) :
                      (\A j \in Walk!Candidates(pool[c]) : i <= j) => i = h
  <1> DEFINE record == pool[c]
  <1>1. PICK h \in DOMAIN SubjectClaims : Walk!Exact(SubjectClaims[h], record)
    BY DEF InHand
  <1>2. EntriesOk(entries, pool, assigned, SubjectClaims)
    BY DEF Linked
  <1>3. \A i \in DOMAIN SubjectClaims : i \in DOMAIN entries /\ States(entries[i], SubjectClaims[i])
    BY <1>2 DEF EntriesOk
  <1>4. Walk!Exact(entries[h], record)
    BY <1>1, <1>3 DEF States, Walk!Exact
  <1>5. ~Settled(entries[h])
    <2> SUFFICES ASSUME Settled(entries[h]) PROVE FALSE
      OBVIOUS
    <2>1. EntryOk(entries[h], pool, assigned, SubjectClaims)
      BY <1>2, <1>3 DEF EntriesOk
    <2>2. entries[h].status = "verified"
      BY <1>3 DEF Served
    <2>3. /\ entries[h].artifact \in DOMAIN pool /\ entries[h].artifact \in assigned
          /\ Walk!Exact(entries[h], pool[entries[h].artifact])
      BY <2>1, <2>2 DEF EntryOk
    <2>4. pool[entries[h].artifact].mh = record.mh
      BY <1>4, <2>3 DEF Walk!Exact
    <2>5. entries[h].artifact = c
      BY <2>3, <2>4 DEF InHand
    <2> QED BY <2>3, <2>5
  <1>6. record.kind = "verifiable"
    BY DEF InHand
  <1> DEFINE pair == {i \in Walk!Open(record) : entries[i].manifest_hash = record.mh}
  <1>7. h \in pair
    BY <1>3, <1>4, <1>5 DEF Settled, Walk!Open, Walk!Exact
  <1>8. Walk!Candidates(record) = pair
    BY <1>6, <1>7 DEF Walk!Candidates
  <1>9. ASSUME NEW i \in pair, \A j \in pair : i <= j
        PROVE  i = h
    <2>1. i \in DOMAIN entries /\ entries[i].manifest_hash = record.mh /\ i <= h
      BY <1>7, <1>9 DEF Walk!Open
    <2>2. i \in DOMAIN SubjectClaims
      <3>1. DOMAIN entries = 1..Len(entries) /\ Len(entries) \in Nat
        BY <1>2, SeqShape DEF EntriesOk
      <3>2. IsSeq(subject.manifest.predecessors)
        BY DEF Linkable, Declares, PredecessorsWellFormed, IsArray, IsSeq
      <3>3. IsSeq(SubjectClaims)
        BY <3>2, ClaimsAreSeq DEF SubjectClaims
      <3>4. DOMAIN SubjectClaims = 1..Len(SubjectClaims) /\ Len(SubjectClaims) \in Nat
        BY <3>3, SeqShape
      <3> QED BY <2>1, <3>1, <3>4
    <2>3. SubjectClaims[i].manifest_hash = SubjectClaims[h].manifest_hash
      BY <1>1, <1>3, <2>1, <2>2 DEF States, Walk!Exact
    <2> QED BY <2>2, <2>3 DEF InHand
  <1> HIDE DEF pair
  <1> QED BY <1>3, <1>4, <1>7, <1>8, <1>9

(* What a match does to the entries. *)
LEMMA MatchEffect ==
    ASSUME Linked, Linkable, Walk!Match
    PROVE  \E i \in Walk!Candidates(pool[cursor]) :
               /\ \A j \in Walk!Candidates(pool[cursor]) : i <= j
               /\ i \in DOMAIN entries /\ DOMAIN entries \subseteq DOMAIN entries'
               /\ entries'[i].status = Walk!StatusFor(entries[i], pool[cursor])
               /\ entries'[i].artifact = cursor
               /\ \A j \in DOMAIN entries \ {i} : entries'[j] = entries[j]
               /\ \A j \in DOMAIN entries' \ DOMAIN entries : ~Settled(entries'[j])
  <1> DEFINE record == pool[cursor]
  <1>1. cursor \in DOMAIN pool
    BY DEF Walk!Match, Walk!AtRecord
  <1>2. PICK i \in Walk!Candidates(record) :
            LET resolved == [entries EXCEPT
                              ![i] = [@ EXCEPT !.status = Walk!StatusFor(entries[i], record),
                                               !.artifact = cursor]]
            IN  /\ \A j \in Walk!Candidates(record) : i <= j
                /\ IF Walk!JoinsFrontier(entries[i], record) /\ entries[i].hop + 1 <= HopCap
                   THEN entries' = resolved \o Walk!Frontier(record, entries[i].hop + 1, cursor)
                   ELSE entries' = resolved
    BY Zenon DEF Walk!Match
  <1> DEFINE status == Walk!StatusFor(entries[i], record)
             settled == SettledBy(entries[i], status, cursor)
             resolved == [entries EXCEPT ![i] = settled]
  <1>3. i \in DOMAIN entries
    BY DEF Walk!Candidates, Walk!Open
  <1>4. EntriesOk(entries, pool, assigned, SubjectClaims)
    BY DEF Linked
  <1>5. IsSeq(record.declares)
    <2>1. cursor \in DOMAIN supplied /\ record = ClassifyArtifact(supplied[cursor])
      BY <1>1 DEF Linked, Classified
    <2> QED BY <2>1, ClassifiedDeclares
  <1>6. \/ entries' = resolved
        \/ \E hop : entries' = resolved \o Walk!Frontier(record, hop, cursor)
    BY <1>2 DEF SettledBy
  <1> HIDE DEF status
  <1>7. settled.status = status /\ settled.artifact = cursor
    BY <1>3, <1>4, EntrySettled DEF EntriesOk, EntryOk
  <1> HIDE DEF settled
  <1>8. /\ DOMAIN resolved = DOMAIN entries /\ resolved[i] = settled
        /\ \A j \in DOMAIN entries \ {i} : resolved[j] = entries[j]
    BY <1>3
  <1>9. IsSeq(resolved)
    <2>1. DOMAIN entries = 1..Len(entries) /\ Len(entries) \in Nat
      BY <1>4, SeqShape DEF EntriesOk
    <2>2. resolved = [j \in 1..Len(entries) |-> resolved[j]]
      BY <2>1
    <2> HIDE DEF resolved
    <2> QED BY <2>1, <2>2, IndexedIsSeq
  <1> HIDE DEF resolved
  <1>10. CASE entries' = resolved
    BY <1>2, <1>3, <1>7, <1>8, <1>10 DEF status
  <1>11. ASSUME NEW hop, entries' = resolved \o Walk!Frontier(record, hop, cursor)
         PROVE  /\ DOMAIN entries \subseteq DOMAIN entries'
                /\ \A j \in DOMAIN entries : entries'[j] = resolved[j]
                /\ \A j \in DOMAIN entries' \ DOMAIN entries : ~Settled(entries'[j])
    <2> DEFINE f == Walk!Frontier(record, hop, cursor)
    <2>1. IsSeq(f) /\ \A k \in DOMAIN f : f[k].status = "unverified"
      BY <1>5, FrontierMade
    <2> HIDE DEF f
    <2>2. Extends(entries', resolved, f)
      BY <1>9, <1>11, <2>1, ConcatenatedSeq DEF f
    <2> QED BY <1>8, <2>1, <2>2 DEF Extends, Settled
  <1> QED BY <1>2, <1>3, <1>6, <1>7, <1>8, <1>10, <1>11 DEF status

(* The file at the cursor settles its own entry, as verified. *)
LEMMA MatchServes ==
    ASSUME Linked, Linkable, InHand(pool, SubjectClaims), Served(entries, pool, assigned, cursor),
           Walk!Match
    PROVE  Served(entries', pool, assigned', cursor')
  <1>1. /\ cursor \in DOMAIN pool /\ cursor \notin assigned
        /\ assigned' = assigned \cup {cursor} /\ cursor' = cursor + 1
    BY DEF Walk!Match, Walk!AtRecord
  <1>2. PICK h \in DOMAIN entries :
               /\ Walk!Exact(entries[h], pool[cursor])
               /\ \A i \in Walk!Candidates(pool[cursor]) :
                      (\A j \in Walk!Candidates(pool[cursor]) : i <= j) => i = h
    BY <1>1, OwnEntryIsOpen
  <1>3. /\ DOMAIN entries \subseteq DOMAIN entries'
        /\ entries'[h].status = Walk!StatusFor(entries[h], pool[cursor])
        /\ entries'[h].artifact = cursor
        /\ \A j \in DOMAIN entries \ {h} : entries'[j] = entries[j]
        /\ \A j \in DOMAIN entries' \ DOMAIN entries : ~Settled(entries'[j])
    BY <1>2, MatchEffect
  <1>4. entries'[h].status = "verified"
    BY <1>1, <1>2, <1>3 DEF InHand, Walk!StatusFor
  <1>5. \A i \in DOMAIN entries' : Settled(entries'[i]) => entries'[i].status = "verified"
    BY <1>3, <1>4 DEF Served
  <1>6. ~Settled(entries[h])
    <2> SUFFICES ASSUME Settled(entries[h]) PROVE FALSE
      OBVIOUS
    <2>1. PICK g \in DOMAIN entries : ~Settled(entries[g]) /\ g = h
      BY <1>2, MatchEffect DEF Walk!Candidates, Walk!Open, Settled
    <2> QED BY <2>1
  <1>7. ASSUME NEW k \in assigned'
        PROVE  \E i \in DOMAIN entries' : Settled(entries'[i]) /\ entries'[i].artifact = k
    <2>1. CASE k = cursor
      BY <1>3, <1>4, <2>1 DEF Settled
    <2>2. CASE k \in assigned
      <3>1. PICK i \in DOMAIN entries : Settled(entries[i]) /\ entries[i].artifact = k
        BY <2>2 DEF Served
      <3> QED BY <1>3, <1>6, <3>1
    <2> QED BY <1>1, <2>1, <2>2
  <1>8. DOMAIN pool \subseteq Nat
    <2>1. pool = Classified /\ DOMAIN supplied = 1..Len(supplied) /\ Len(supplied) \in Nat
      BY SeqShape DEF Linked
    <2> QED BY <2>1 DEF Classified
  <1>9. /\ \A k \in DOMAIN pool : k < cursor' => k \in assigned'
        /\ cursor' \in Nat \ {0}
    BY <1>1, <1>8 DEF Served
  <1> QED BY <1>5, <1>7, <1>9 DEF Served

(* Every step of the walk serves the files in hand. *)
LEMMA WalkServes ==
    ASSUME Linked, Kept, WalkStep
    PROVE  Kept'
  <1>1. UNCHANGED <<call, subject, supplied>> /\ Walk!Next
    BY DEF WalkStep
  <1>2. Linkable' = Linkable /\ SubjectClaims' = SubjectClaims
    BY <1>1 DEF Linkable, SubjectClaims
  <1>3. pool' = pool
    <2>1. Walk!Match => pool' = pool
      BY DEF Walk!Match
    <2>2. Walk!Skip \/ Walk!NextPass \/ Walk!Return => pool' = pool
      BY DEF Walk!Skip, Walk!NextPass, Walk!Return
    <2> QED BY <1>1, <2>1, <2>2 DEF Walk!Next
  <1> SUFFICES ASSUME Linkable, InHand(pool, SubjectClaims)
               PROVE  /\ Served(entries', pool, assigned', cursor')
                      /\ done' => DOMAIN pool \subseteq assigned'
    BY <1>2, <1>3 DEF Kept
  <1>4. Served(entries, pool, assigned, cursor) /\ (done => DOMAIN pool \subseteq assigned)
    BY DEF Kept
  <1>5. \E n \in Nat : DOMAIN pool = 1..n
    <2>1. pool = Classified /\ DOMAIN supplied = 1..Len(supplied) /\ Len(supplied) \in Nat
      BY SeqShape DEF Linked
    <2>2. DOMAIN pool = DOMAIN supplied
      BY <2>1 DEF Classified
    <2>3. DOMAIN pool = 1..Len(supplied) /\ Len(supplied) \in Nat
      BY <2>1, <2>2
    <2> QED BY <2>3, Zenon
  <1>6. cursor \notin DOMAIN pool => DOMAIN pool \subseteq assigned
    BY <1>4, <1>5 DEF Served
  <1>7. CASE Walk!Match
    <2>1. ~done /\ done' = done
      BY <1>7 DEF Walk!Match, Walk!AtRecord
    <2> QED BY <1>4, <1>7, <2>1, MatchServes
  <1>8. CASE Walk!Skip
    <2>1. /\ cursor \in DOMAIN pool /\ ~done /\ cursor' = cursor + 1
          /\ UNCHANGED <<entries, assigned, done>>
      BY <1>8 DEF Walk!Skip, Walk!AtRecord
    <2>2. cursor \in assigned
      <3> SUFFICES ASSUME cursor \notin assigned PROVE FALSE
        OBVIOUS
      <3>1. pool[cursor].kind # "unreadable"
        BY <2>1 DEF InHand
      <3>2. Walk!Candidates(pool[cursor]) # {}
        BY <1>4, <2>1, OwnEntryIsOpen
      <3> QED BY <1>8, <3>1, <3>2 DEF Walk!Skip
    <2> QED BY <1>4, <1>5, <2>1, <2>2 DEF Served
  <1>9. CASE Walk!NextPass
    <2>1. cursor' = 1 /\ ~done /\ UNCHANGED <<entries, assigned, done>>
      BY <1>9 DEF Walk!NextPass
    <2> QED BY <1>4, <1>5, <2>1 DEF Served
  <1>10. CASE Walk!Return
    <2>1. cursor \notin DOMAIN pool /\ UNCHANGED <<entries, assigned, cursor>>
      BY <1>10 DEF Walk!Return
    <2> QED BY <1>4, <1>6, <2>1
  <1> QED BY <1>1, <1>7, <1>8, <1>9, <1>10 DEF Walk!Next

(* Nothing is settled when the walk starts. *)
LEMMA StartServes ==
    ASSUME StartVerification, Unread, assigned = {}, cursor = 1
    PROVE  Kept'
  <1>1. UNCHANGED <<subject, assigned, cursor>>
    BY DEF StartVerification
  <1>2. Linkable' = Linkable
    BY <1>1 DEF Linkable
  <1> SUFFICES ASSUME Linkable
               PROVE  Served(entries', pool', assigned', cursor') /\ ~done'
    BY <1>2 DEF Kept
  <1> DEFINE declared == subject.manifest.predecessors
  <1>3. /\ pool' = [k \in DOMAIN supplied |-> ClassifyArtifact(supplied[k])]
        /\ entries' = [i \in DOMAIN declared |-> Walk!MakeEntry(Claim(declared[i]), 1, 0)]
        /\ ~done'
    BY DEF StartVerification, Linkable
  <1>4. \A i \in DOMAIN entries' : ~Settled(entries'[i])
    BY <1>3, EntryMade DEF Settled
  <1>5. DOMAIN pool' = 1..Len(supplied) /\ Len(supplied) \in Nat
    BY <1>3, SeqShape DEF Unread
  <1>6. \A k \in DOMAIN pool' : ~(k < 1)
    BY <1>5
  <1> QED BY <1>1, <1>3, <1>4, <1>6 DEF Served

(* What is kept depends on the subject, the call and the walk alone. *)
LEMMA KeptStays ==
    ASSUME UNCHANGED <<subject, pool, entries, assigned, cursor, done>>
    PROVE  Kept' = Kept
  <1>1. Linkable' = Linkable /\ SubjectClaims' = SubjectClaims
    BY DEF Linkable, SubjectClaims
  <1> QED BY <1>1 DEF Kept

(* Every step serves the files in hand, up to the end of the walk. *)
LEMMA ServedInvNext ==
    ASSUME ReportInv, LinkInv, ServedInv, [RewrapNext]_allVars
    PROVE  ServedInv'
  <1>1. CASE UNCHANGED verifyVarsButFiles
    <2>1. UNCHANGED <<phase, subject, result, printed, exit, pool, entries, assigned, cursor, done>>
      BY <1>1 DEF verifyVarsButFiles, walkVars
    <2>2. Unreported' = Unreported
      BY <2>1 DEF Unreported
    <2> QED BY <2>1, <2>2, KeptStays DEF ServedInv
  <1>2. CASE RefuseArguments \/ FileMissing
    <2>1. phase \in {"called", "reading"} /\ Fail
      BY <1>2 DEF RefuseArguments, FileMissing, Reads
    <2>2. Unreported
      BY <2>1 DEF ReportInv
    <2>3. Unreported' /\ phase' = "ended"
      BY <2>1, <2>2 DEF Fail, Unreported
    <2> QED BY <2>3 DEF ServedInv
  <1>3. CASE ReadSubject \/ ReadPredecessor
    <2>1. phase \in {"called", "reading"} /\ phase' = "reading" /\ UNCHANGED <<assigned, cursor>>
      BY <1>3 DEF ReadSubject, ReadPredecessor, walkVars
    <2> QED BY <2>1 DEF ServedInv
  <1>4. CASE StartVerification
    <2>1. phase = "reading" /\ phase' = "walking"
      BY <1>4 DEF StartVerification
    <2>2. Unread /\ assigned = {} /\ cursor = 1
      BY <2>1 DEF LinkInv, ServedInv
    <2> QED BY <1>4, <2>1, <2>2, StartServes DEF ServedInv
  <1>5. CASE WalkStep
    <2>1. phase = "walking" /\ phase' = "walking"
      BY <1>5 DEF WalkStep
    <2>2. Linked /\ Kept
      BY <2>1 DEF LinkInv, ServedInv
    <2> QED BY <1>5, <2>1, <2>2, WalkServes DEF ServedInv
  <1>6. CASE Report
    <2>1. /\ phase = "walking" /\ phase' = "ended" /\ done
          /\ UNCHANGED <<subject, pool, entries, assigned, cursor, done>>
      BY <1>6 DEF Report, walkVars
    <2> QED BY <2>1, KeptStays DEF ServedInv
  <1> QED BY <1>1, <1>2, <1>3, <1>4, <1>5, <1>6, RewrapStep DEF Next

(* ServedInv holds in every state of the hand-off. *)
LEMMA ServedInvariant == RewrapSpec => []ServedInv
  <1>1. RewrapInit => ServedInv
    BY DEF RewrapInit, Called, ServedInv
  <1>2. ReportInv /\ LinkInv /\ ServedInv /\ [RewrapNext]_allVars => ServedInv'
    BY ServedInvNext
  <1> QED BY <1>1, <1>2, ReportInvariant, LinkInvariant, PTL DEF RewrapSpec

-----------------------------------------------------------------------------
(* What is left when a run that exits 1 has none of the reasons.           *)

(* Every file given is a plain capsule that holds and that the subject *)
(* declares, and none is there twice.                                  *)
FilesInOrder ==
    /\ \A k \in DOMAIN supplied :
           /\ ArtifactKind(supplied[k]) = "verifiable"
           /\ Holds(supplied[k])
           /\ Names(subject, supplied[k])
    /\ \A k, m \in DOMAIN supplied :
           ManifestHash(supplied[k].manifest) = ManifestHash(supplied[m].manifest) => k = m

(* Such files are in hand for the walk. *)
LEMMA FilesAreInHand ==
    ASSUME Linked, Linkable, FilesInOrder
    PROVE  InHand(pool, SubjectClaims)
  <1>1. pool = Classified
    BY DEF Linked
  <1>2. ASSUME NEW k \in DOMAIN pool
        PROVE  /\ k \in DOMAIN supplied
               /\ pool[k].kind = "verifiable" /\ pool[k].ok
               /\ pool[k].mh = ManifestHash(supplied[k].manifest)
               /\ \E i \in DOMAIN SubjectClaims : Walk!Exact(SubjectClaims[i], pool[k])
    <2> DEFINE a == supplied[k]
    <2>1. k \in DOMAIN supplied /\ pool[k] = ClassifyArtifact(a)
      BY <1>1, <1>2 DEF Classified
    <2>2. ArtifactKind(a) = "verifiable" /\ Holds(a) /\ Names(subject, a)
      BY <2>1 DEF FilesInOrder
    <2>3. VerifyOk(a, Options)
      BY <2>2, HoldsWhateverTheAllowlist
    <2>4. pool[k].kind = "verifiable" /\ pool[k].ok /\ pool[k].mh = ManifestHash(a.manifest)
      <3> HIDE DEF a
      <3>1. /\ ClassifyArtifact(a).kind = "verifiable"
            /\ ClassifyArtifact(a).mh = ManifestHash(a.manifest)
        BY <2>2 DEF ClassifyArtifact
      <3>2. ClassifyArtifact(a).ok
        BY <2>2, <2>3 DEF ClassifyArtifact
      <3> QED BY <2>1, <3>1, <3>2, Zenon
    <2>5. PICK i \in DOMAIN subject.manifest.predecessors :
              Claim(subject.manifest.predecessors[i]) = DerivedClaim(a)
      BY <2>2 DEF Names
    <2>6. i \in DOMAIN SubjectClaims /\ SubjectClaims[i] = DerivedClaim(a)
      BY <2>5 DEF SubjectClaims, Claims
    <2>7. Walk!Exact(DerivedClaim(a), pool[k])
      BY <2>1, <2>2 DEF DerivedClaim, Claim, ClassifyArtifact, Walk!Exact
    <2> QED BY <2>1, <2>4, <2>6, <2>7
  <1>3. \A j, k \in DOMAIN pool : pool[j].mh = pool[k].mh => j = k
    BY <1>2 DEF FilesInOrder
  <1>4. \A i, j \in DOMAIN SubjectClaims :
            SubjectClaims[i].manifest_hash = SubjectClaims[j].manifest_hash => i = j
    <2>1. PredecessorsWellFormed(subject.manifest.predecessors)
      BY DEF Linkable, Declares
    <2> QED BY <2>1 DEF PredecessorsWellFormed, SubjectClaims, Claims, Claim
  <1> QED BY <1>2, <1>3, <1>4 DEF InHand

(* Then the custody demand is met. *)
LEMMA CustodyIsMet ==
    ASSUME Linked, Kept, done, IsCapsule(subject), Gate(subject) = "pass", FilesInOrder
    PROVE  /\ Cardinality(Checked) >= Len(call.predecessors)
           /\ \A i \in Checked : entries[i].status = "verified"
  <1> DEFINE n == Len(supplied)
  <1>1. n \in Nat /\ DOMAIN supplied = 1..n /\ n = Len(call.predecessors)
    BY SeqShape DEF Linked
  <1>2. CASE ~Linkable
    <2>1. ~Declares(subject)
      BY <1>2 DEF Linkable
    <2>2. DOMAIN supplied = {}
      BY <2>1 DEF FilesInOrder, Names
    <2>3. n = 0
      BY <1>1, <2>2
    <2>4. Checked = {}
      BY <1>2 DEF Linked, Checked
    <2>5. Cardinality(Checked) = 0
      BY <2>4, FS_EmptySet
    <2> QED BY <1>1, <2>3, <2>4, <2>5
  <1>3. CASE Linkable
    <2>1. Served(entries, pool, assigned, cursor) /\ DOMAIN pool \subseteq assigned
      BY <1>3, FilesAreInHand DEF Kept
    <2>2. EntriesOk(entries, pool, assigned, SubjectClaims) /\ DOMAIN pool = 1..n
      BY <1>1, <1>3 DEF Linked, Classified
    <2>3. \A i \in Checked : entries[i].status = "verified"
      BY <2>1 DEF Served, Checked, Settled
    <2>4. IsFiniteSet(Checked)
      <3>1. DOMAIN entries = 1..Len(entries) /\ Len(entries) \in Nat
        BY <2>2, SeqShape DEF EntriesOk
      <3>2. Checked \in SUBSET (1..Len(entries))
        BY <3>1 DEF Checked
      <3>3. IsFiniteSet(1..Len(entries))
        BY <3>1, FS_Interval
      <3> QED BY <3>2, <3>3, FS_Subset
    <2> DEFINE f == [i \in Checked |-> entries[i].artifact]
    <2>5. f \in [Checked -> 1..n]
      BY <2>2 DEF Checked, EntriesOk, EntryOk, Settled
    <2>6. ASSUME NEW k \in 1..n
          PROVE  \E i \in Checked : f[i] = k
      <3>1. PICK i \in DOMAIN entries : Settled(entries[i]) /\ entries[i].artifact = k
        BY <2>1, <2>2 DEF Served
      <3> QED BY <3>1 DEF Checked, Settled
    <2> HIDE DEF f, n
    <2>7. Cardinality(Checked) >= n
      <3>1. f \in Surjection(Checked, 1..n)
        BY <2>5, <2>6 DEF Surjection
      <3>2. Cardinality(1..n) <= Cardinality(Checked) /\ Cardinality(1..n) = n
        BY <1>1, <2>4, <3>1, FS_Surjection, FS_Interval
      <3> QED BY <1>1, <2>4, <3>2, FS_CardinalityType
    <2> QED BY <1>1, <2>3, <2>7
  <1> QED BY <1>2, <1>3

(* Exit 1 with a capsule that holds: a demand was made and not met. *)
LEMMA DemandsFailed ==
    ASSUME ExitCode(Result) = 1, Result.ok
    PROVE  \/ call.allowlist # {} /\ Result.trusted = {}
           \/ call.accept # {} /\ Result.accepted = FALSE
           \/ ~ /\ Cardinality(Checked) >= Len(call.predecessors)
                /\ \A i \in Checked : entries[i].status = "verified"
  <1>1. FALSE \in {TrustPolicy(Result), VersionPolicy(Result), CustodyPolicy}
    BY ExitOfDemands, Zenon DEF ExitCode
  <1>2. FALSE # Null
    BY NullAssumption
  <1>3. \/ TrustPolicy(Result) = FALSE
        \/ VersionPolicy(Result) = FALSE
        \/ CustodyPolicy = FALSE
    BY <1>1, Zenon
  <1>4. TrustPolicy(Result) = FALSE => call.allowlist # {} /\ Result.trusted = {}
    BY <1>2, Zenon DEF TrustPolicy
  <1>5. VersionPolicy(Result) = FALSE => call.accept # {} /\ Result.accepted = FALSE
    BY <1>2, Zenon DEF VersionPolicy
  <1>6. CustodyPolicy = FALSE =>
            ~ /\ Cardinality(Checked) >= Len(call.predecessors)
              /\ \A i \in Checked : entries[i].status = "verified"
    BY <1>2, Zenon DEF CustodyPolicy
  <1> QED BY <1>3, <1>4, <1>5, <1>6

(* Exit 1 always has a reason in what the operator supplied: whatever the   *)
(* order of the predecessor files and whatever these declare themselves.    *)
THEOREM RefusalsHaveReasons == RewrapSpec => []ExitOneHasAReason
  <1>1. ReportInv /\ LinkInv /\ ServedInv /\ CallInv => ExitOneHasAReason
    <2> DEFINE c == subject
    <2> SUFFICES ASSUME ReportInv, LinkInv, ServedInv, CallInv, exit = 1,
                        IsCapsule(c), Holds(c),
                        call.allowlist # {} =>
                            \E k \in call.allowlist, i \in DOMAIN c.signers :
                                /\ c.signers[i].public_key = k
                                /\ SignatureValid(c.signers[i], c.envelope),
                        call.accept # {} => c.manifest.version \in call.accept,
                        FilesInOrder
                 PROVE  FALSE
      BY DEF ExitOneHasAReason, FilesInOrder
    <2>1. ~Unreported
      <3>1. Null # 1
        BY NullAssumption
      <3> QED BY <3>1 DEF Unreported
    <2>2. Reported /\ Linked /\ done /\ Kept
      BY <2>1 DEF ReportInv, LinkInv, ServedInv
    <2>3. ExitCode(Result) = 1
      <3>1. Null # 1
        BY NullAssumption
      <3> QED BY <2>2, <3>1 DEF Reported
    <2>4. VerifyOk(c, Options)
      BY HoldsWhateverTheAllowlist
    <2>5. Gate(c) = "pass"
      BY <2>4 DEF VerifyOk
    <2>6. /\ Result.ok = VerifyOk(c, Options)
          /\ Result.trusted = TrustedSigners(c, Options)
          /\ Result.accepted = AcceptedByPolicy(c, Options)
      BY DEF Result
    <2>7. Result.ok
      BY <2>4, <2>6, Zenon
    <2>8. ~(call.allowlist # {} /\ Result.trusted = {})
      <3> SUFFICES ASSUME call.allowlist # {} PROVE TrustedSigners(c, Options) # {}
        BY <2>6
      <3>1. PICK k \in call.allowlist, i \in DOMAIN c.signers :
                /\ c.signers[i].public_key = k
                /\ SignatureValid(c.signers[i], c.envelope)
        OBVIOUS
      <3>2. RowsEvaluated(c)
        BY <2>4 DEF VerifyOk, SignaturesOk
      <3>3. k \in Options.allowlist
        BY DEF Options
      <3>4. k \in TrustedSigners(c, Options)
        BY <2>5, <3>1, <3>2, <3>3 DEF TrustedSigners
      <3> QED BY <3>4
    <2>9. ~(call.accept # {} /\ Result.accepted = FALSE)
      <3> SUFFICES ASSUME call.accept # {} PROVE AcceptedByPolicy(c, Options) # FALSE
        BY <2>6, Zenon
      <3>1. Options.acceptVersions = call.accept /\ call.accept # Null
        BY DEF Options, CallInv
      <3>2. AcceptedByPolicy(c, Options)
        BY <2>5, <3>1 DEF AcceptedByPolicy
      <3> QED BY <3>2, Zenon
    <2> QED BY <2>2, <2>3, <2>5, <2>7, <2>8, <2>9, CustodyIsMet, DemandsFailed
  <1> QED BY <1>1, ReportInvariant, LinkInvariant, ServedInvariant, CallInvariant, PTL

=============================================================================

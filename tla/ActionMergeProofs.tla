-------------------------- MODULE ActionMergeProofs --------------------------
(***************************************************************************)
(* The actions of a thread come out of the merge in the order of time, for *)
(* every number of workers, every script and every division of it.  The    *)
(* merge only keeps what its sources have: so the invariant says that a    *)
(* set that a parse job has finished is in order (SetsOrdered), which for  *)
(* unsorted parsed actions follows from the script's own order through the *)
(* lines they come from (FromLines), and that nothing that a source has    *)
(* left is older than what was taken (RestIsLater).                        *)
(*                                                                         *)
(* The second half is about what the sets hold: the lines that a job has   *)
(* read of its range, each once (ParseInv), and the ranges divide the      *)
(* script (Division).                                                      *)
(*                                                                         *)
(* The third is about extract_actions(), which takes every line that is    *)
(* kept, once, and in the order of the file where the time stamps are      *)
(* equal; the time that assign_thread_jobs() prints spans these lines.     *)
(* The invariant says that what was taken is what the sources had before   *)
(* their pointers (TakenFrom), and that what is left is further down in    *)
(* the script than what was taken with the same time stamp (RestIsFurther).*)
(***************************************************************************)
EXTENDS ActionMerge, TLAPS

Act == [tid : Tid, ts : Nat, kind : LineKind, file : Nat, line : Nat]
Ordered(s) == \A k, l \in 1..Len(s) : k < l => s[k].ts <= s[l].ts

JobTypes ==
  /\ input \in Inputs
  /\ phase \in {"assign", "parse", "extract"}
  /\ parse_jobs \in Seq([file : Nat \ {0}, from : Nat, to : Nat])
  /\ lnum \in [Job -> Nat]
  /\ parsed_actions \in [Job -> [Tid -> Seq(Act)]]
  /\ error_actions \in [Job -> [Tid -> Seq(Act)]]
  /\ sorted \subseteq Job

(* Action a of thread t comes from one of the first n lines of a file. *)
FromLine(a, content, t, n) ==
  LET line == content[a.line]
  IN  /\ a.line \in 1..n /\ a.line <= Len(content)
      /\ line.tid = t /\ line.kind \in {"target", "mark"} /\ a.ts = line.ts
FromLines == \A j \in Job : \A t \in Tid : j \notin sorted =>
  \A k \in 1..Len(parsed_actions[j][t]) :
    FromLine(parsed_actions[j][t][k], Content(j), t, lnum[j])

SetsOrdered == \A j \in Job : \A t \in Tid :
  /\ j \in sorted \/ ~input.out_of_order => Ordered(parsed_actions[j][t])
  /\ j \in sorted => Ordered(error_actions[j][t])

MergeTypes ==
  /\ actions \in [Tid -> Seq(Act)]
  /\ phase = "extract" => sorted = Job /\ pointers \in [Tid -> [Sources -> Nat]]
  /\ phase # "extract" => \A t \in Tid : actions[t] = <<>>
  /\ phase = "assign" => sorted = {}

RestIsLater == phase = "extract" =>
  \A t \in Tid : \A i \in Sources : \A k \in 1..Len(Source(t, i)) : pointers[t][i] < k =>
    \A m \in 1..Len(actions[t]) : actions[t][m].ts <= Source(t, i)[k].ts

MergeInv == JobTypes /\ FromLines /\ SetsOrdered /\ MergeTypes /\ RestIsLater /\ ThreadOrder

-----------------------------------------------------------------------------
(* A file of the script is a sequence of lines, a missing one is empty. *)
LEMMA FileType ==
  ASSUME input \in Inputs, NEW f \in Nat \ {0}
  PROVE  File(f) \in Seq(Line)
<1>1. input.files \in Seq(Seq(Line))
  BY InputAssumption, Zenon DEF Input
<1>. QED
  BY <1>1 DEF File

(* The elements of a vector of actions are actions. *)
LEMMA ElementType ==
  ASSUME NEW S, NEW s \in Seq(S), NEW k \in 1..Len(s)
  PROVE  s[k] \in S
OBVIOUS

(* emplace_back() and push_back() leave the other elements where they are. *)
LEMMA AppendAt ==
  ASSUME NEW S, NEW s \in Seq(S), NEW x \in S
  PROVE  /\ Len(s) \in Nat /\ Len(Append(s, x)) = Len(s) + 1
         /\ \A k \in 1..Len(s) : Append(s, x)[k] = s[k]
         /\ Append(s, x)[Len(s) + 1] = x
OBVIOUS

(* stable_sort() of a set leaves it in order. *)
LEMMA SortedIsOrdered ==
  ASSUME NEW s \in Seq(Act), NEW r \in StableSorts(s)
  PROVE  r \in Seq(Act) /\ Ordered(r)
<1>1. PICK p \in Orders(s) : r = [k \in 1..Len(s) |-> s[p[k]]]
  BY Zenon DEF StableSorts
<1>2. p \in [1..Len(s) -> 1..Len(s)] /\ Len(s) \in Nat
  BY DEF Orders
<1>3. \A k \in 1..Len(s) : s[p[k]] \in Act
  BY <1>2
<1>4. r \in Seq(Act) /\ Len(r) = Len(s)
  BY <1>1, <1>2, <1>3
<1>5. ASSUME NEW k \in 1..Len(s), NEW l \in 1..Len(s), k < l
      PROVE  r[k].ts <= r[l].ts
  <2>1. Before(s, p[k], p[l])
    BY <1>5, Zenon DEF Orders
  <2>2. s[p[k]].ts \in Nat /\ s[p[l]].ts \in Nat
    BY <1>3, Zenon DEF Act
  <2>. QED
    BY <1>1, <2>1, <2>2 DEF Before
<1>. QED
  BY <1>4, <1>5, Zenon DEF Ordered

(* An action that is not older than the others may be appended. *)
LEMMA AppendOrdered ==
  ASSUME NEW s \in Seq(Act), Ordered(s), NEW a \in Act,
         \A k \in 1..Len(s) : s[k].ts <= a.ts
  PROVE  Ordered(Append(s, a))
<1>1. Len(Append(s, a)) = Len(s) + 1 /\ Len(s) \in Nat
  OBVIOUS
<1>. SUFFICES ASSUME NEW k \in 1..(Len(s) + 1), NEW l \in 1..(Len(s) + 1), k < l
              PROVE  Append(s, a)[k].ts <= Append(s, a)[l].ts
  BY <1>1, Zenon DEF Ordered
<1>2. k \in 1..Len(s) /\ Append(s, a)[k] = s[k]
  BY <1>1
<1>3. CASE l = Len(s) + 1
  BY <1>2, <1>3
<1>4. CASE l # Len(s) + 1
  <2>1. l \in 1..Len(s) /\ Append(s, a)[l] = s[l]
    BY <1>1, <1>4
  <2>. QED
    BY <1>2, <2>1, Zenon DEF Ordered
<1>. QED
  BY <1>3, <1>4, Zenon

(* The sources of the merge are sets of actions, in order once the parse   *)
(* jobs are done.                                                          *)
LEMMA SourceType ==
  ASSUME JobTypes, NEW t \in Tid, NEW i \in Sources
  PROVE  /\ Source(t, i) \in Seq(Act)
         /\ SetsOrdered /\ sorted = Job => Ordered(Source(t, i))
<1>1. Len(parse_jobs) \in Nat
  BY DEF JobTypes
<1>2. CASE i % 2 = 1
  <2>1. (i + 1) \div 2 \in Job
    BY <1>1, <1>2 DEF Sources, Job
  <2>. QED
    BY <1>2, <2>1, Zenon DEF Source, JobTypes, SetsOrdered
<1>3. CASE i % 2 # 1
  <2>1. i \div 2 \in Job
    BY <1>1, <1>3 DEF Sources, Job
  <2>. QED
    BY <1>3, <2>1, Zenon DEF Source, JobTypes, SetsOrdered
<1>. QED
  BY <1>2, <1>3, Zenon

-----------------------------------------------------------------------------
(* Before the scripts are divided there is no job. *)
LEMMA MergeInitInv == Init => MergeInv
<1>. SUFFICES ASSUME Init PROVE MergeInv
  BY Zenon
<1>1. Job = {} /\ parse_jobs = <<>>
  BY DEF Init, Job
<1>2. JobTypes
  BY <1>1 DEF Init, JobTypes
<1>3. FromLines /\ SetsOrdered
  BY <1>1, Zenon DEF FromLines, SetsOrdered
<1>4. MergeTypes /\ RestIsLater /\ ThreadOrder
  BY DEF Init, MergeTypes, RestIsLater, ThreadOrder
<1>. QED
  BY <1>2, <1>3, <1>4, Zenon DEF MergeInv

(* Indexed from 1 on, a family is a sequence. *)
LEMMA FamilyIsSeq ==
  ASSUME NEW S, NEW n \in Nat, NEW F \in [1..n -> S]
  PROVE  F \in Seq(S) /\ Len(F) = n
OBVIOUS

(* Every job that assign_parse_jobs() creates has a file and a range. *)
LEMMA ParseJobsType ==
  ASSUME input \in Inputs
  PROVE  ParseJobs \in Seq([file : Nat \ {0}, from : Nat, to : Nat])
<1>1. input.worker_num \in Nat \ {0} /\ UINT32_MAX \in Nat
  BY InputAssumption, Zenon DEF Input
<1>2. Len(File(1)) \in Nat
  BY FileType
<1>3. Step(Len(File(1))) \in Nat
  BY <1>1, <1>2 DEF Step
<1>4. \A i \in 1..input.worker_num : i * Step(Len(File(1))) \in Nat /\ (i - 1) * Step(Len(File(1))) \in Nat
  BY <1>1, <1>3
<1>5. \A i \in 1..input.worker_num :
        LineRange(i, Len(File(1))) \in [file : Nat \ {0}, from : Nat, to : Nat]
  BY <1>2, <1>4 DEF LineRange
<1>6. \A f \in Nat \ {0} : WholeFile(f) \in [file : Nat \ {0}, from : Nat, to : Nat]
  BY <1>1, Zenon DEF WholeFile
<1>7. [i \in 1..input.worker_num |-> WholeFile(i)] \in Seq([file : Nat \ {0}, from : Nat, to : Nat])
  <2>1. [i \in 1..input.worker_num |-> WholeFile(i)]
          \in [1..input.worker_num -> [file : Nat \ {0}, from : Nat, to : Nat]]
    BY <1>1, <1>6
  <2>. QED
    BY <1>1, <2>1, FamilyIsSeq, Zenon
<1>8. [i \in 1..input.worker_num |-> LineRange(i, Len(File(1)))]
        \in Seq([file : Nat \ {0}, from : Nat, to : Nat])
  <2>1. [i \in 1..input.worker_num |-> LineRange(i, Len(File(1)))]
          \in [1..input.worker_num -> [file : Nat \ {0}, from : Nat, to : Nat]]
    BY <1>1, <1>5, Zenon
  <2>. QED
    BY <1>1, <2>1, FamilyIsSeq, Zenon
<1>9. <<WholeFile(1)>> \in Seq([file : Nat \ {0}, from : Nat, to : Nat])
  BY <1>6
<1>. QED
  BY <1>7, <1>8, <1>9, Zenon DEF ParseJobs

(* assign_parse_jobs(): all sets are empty. *)
LEMMA AssignParseJobsInv ==
  ASSUME MergeInv, AssignParseJobs
  PROVE  MergeInv'
<1>. USE DEF MergeInv
<1>1. input' = input /\ parse_jobs' = ParseJobs /\ phase' = "parse"
      /\ sorted' = sorted /\ actions' = actions /\ phase = "assign"
  BY Zenon DEF AssignParseJobs, threadVars
<1>2. parse_jobs' \in Seq([file : Nat \ {0}, from : Nat, to : Nat])
  BY <1>1, ParseJobsType, Zenon DEF JobTypes
<1>3. Job' = 1..Len(ParseJobs)
  BY <1>1, Zenon DEF Job
<1>4. sorted' = {}
  BY <1>1, Zenon DEF MergeTypes
<1>5. /\ lnum' = [j \in Job' |-> 0]
      /\ parsed_actions' = [j \in Job' |-> NoActions]
      /\ error_actions' = [j \in Job' |-> NoActions]
  BY <1>3, Zenon DEF AssignParseJobs
<1>6. NoActions \in [Tid -> Seq(Act)] /\ \A t \in Tid : NoActions[t] = <<>>
  BY DEF NoActions
<1>7. JobTypes'
  BY <1>1, <1>2, <1>4, <1>5, <1>6, Zenon DEF JobTypes
<1>8. \A j \in Job' : \A t \in Tid : parsed_actions'[j][t] = <<>> /\ error_actions'[j][t] = <<>>
  BY <1>5, <1>6, Zenon
<1>9. FromLines' /\ SetsOrdered'
  BY <1>8 DEF FromLines, SetsOrdered, Ordered
<1>. QED
  BY <1>1, <1>4, <1>7, <1>9, Zenon DEF MergeTypes, RestIsLater, ThreadOrder

(* A line is read: a branch that is appended is not older than the ones    *)
(* the job has, which come from earlier lines of the same file.            *)
LEMMA ReadLineInv ==
  ASSUME MergeInv, NEW j \in Job, ReadLine(j)
  PROVE  MergeInv'
<1>. USE DEF MergeInv
<1>. DEFINE line == Content(j)[lnum[j] + 1]
            a == Action(line, parse_jobs[j].file, lnum[j] + 1)
            mine == parse_jobs[j].from <= lnum[j] /\ lnum[j] < parse_jobs[j].to
            old == parsed_actions[j][line.tid]
<1>1. /\ input' = input /\ phase' = phase /\ parse_jobs' = parse_jobs /\ sorted' = sorted
      /\ actions' = actions /\ phase = "parse" /\ j \notin sorted
      /\ lnum' = [lnum EXCEPT ![j] = @ + 1] /\ lnum[j] < Len(Content(j))
  BY Zenon DEF ReadLine, threadVars
<1>2. Job' = Job /\ \A i \in Job : Content(i)' = Content(i)
  BY <1>1, Zenon DEF Job, Content, File
<1>3. \A i \in Job : Content(i) \in Seq(Line) /\ parse_jobs[i].file \in Nat \ {0}
  <2>. SUFFICES ASSUME NEW i \in Job
                PROVE  Content(i) \in Seq(Line) /\ parse_jobs[i].file \in Nat \ {0}
    BY Zenon
  <2>1. parse_jobs \in Seq([file : Nat \ {0}, from : Nat, to : Nat]) /\ i \in 1..Len(parse_jobs)
    BY Zenon DEF JobTypes, Job
  <2>2. parse_jobs[i] \in [file : Nat \ {0}, from : Nat, to : Nat]
    BY <2>1, ElementType, Zenon
  <2>. QED
    BY <2>2, FileType, Zenon DEF Content, JobTypes
<1>4. lnum[j] \in Nat /\ lnum[j] + 1 \in 1..Len(Content(j)) /\ line \in Line
  BY <1>1, <1>3 DEF JobTypes
<1>5. a \in Act /\ a.tid = line.tid /\ a.ts = line.ts /\ a.line = lnum[j] + 1 /\ line.tid \in Tid
  BY <1>3, <1>4 DEF Action, Act, Line
<1>6. /\ parsed_actions' = IF mine /\ line.kind \in {"target", "mark"}
                             THEN [parsed_actions EXCEPT ![j][line.tid] = Append(@, a)]
                             ELSE parsed_actions
      /\ error_actions' = IF mine /\ line.kind = "error"
                            THEN [error_actions EXCEPT ![j][line.tid] = Append(@, a)]
                            ELSE error_actions
  BY <1>5, Zenon DEF ReadLine
<1>. HIDE DEF line, a, mine
<1>7. old \in Seq(Act) /\ error_actions[j][line.tid] \in Seq(Act)
  BY <1>5, Zenon DEF JobTypes
<1>8. JobTypes'
  <2>1. parsed_actions' \in [Job -> [Tid -> Seq(Act)]]
    BY <1>5, <1>6, <1>7 DEF JobTypes
  <2>2. error_actions' \in [Job -> [Tid -> Seq(Act)]]
    BY <1>5, <1>6, <1>7 DEF JobTypes
  <2>3. lnum' \in [Job -> Nat]
    BY <1>1, <1>4 DEF JobTypes
  <2>. QED
    BY <1>1, <1>2, <2>1, <2>2, <2>3, Zenon DEF JobTypes
<1>9. ASSUME NEW i \in Job, NEW t \in Tid, i # j \/ t # line.tid
      PROVE  parsed_actions'[i][t] = parsed_actions[i][t] /\ error_actions'[i][t] = error_actions[i][t]
  BY <1>5, <1>6, <1>9, Zenon DEF JobTypes
<1>10. parsed_actions'[j][line.tid] =
         IF mine /\ line.kind \in {"target", "mark"} THEN Append(old, a) ELSE old
  BY <1>5, <1>6, Zenon DEF JobTypes
<1>11. \A i \in Job : lnum'[i] \in Nat /\ lnum[i] <= lnum'[i]
  BY <1>1, <1>4 DEF JobTypes
<1>. HIDE DEF old
<1>12. /\ Len(old) \in Nat /\ Len(Append(old, a)) = Len(old) + 1
       /\ \A k \in 1..Len(old) : Append(old, a)[k] = old[k]
       /\ Append(old, a)[Len(old) + 1] = a
  BY <1>5, <1>7, AppendAt
<1>13. \A k \in 1..Len(old) : FromLine(old[k], Content(j), line.tid, lnum[j])
  BY <1>1, <1>5, Zenon DEF FromLines, old
<1>14. FromLines'
  <2>. SUFFICES ASSUME NEW i \in Job, NEW t \in Tid, i \notin sorted,
                       NEW k \in 1..Len(parsed_actions'[i][t])
                PROVE  FromLine(parsed_actions'[i][t][k], Content(i), t, lnum'[i])
    BY <1>1, <1>2, Zenon DEF FromLines
  <2>1. lnum[i] \in Nat /\ lnum'[i] \in Nat /\ lnum[i] <= lnum'[i]
    BY <1>11, Zenon DEF JobTypes
  <2>2. \A b : FromLine(b, Content(i), t, lnum[i]) => FromLine(b, Content(i), t, lnum'[i])
    BY <2>1 DEF FromLine
  <2>3. CASE i # j \/ t # line.tid
    <3>1. k \in 1..Len(parsed_actions[i][t]) /\ parsed_actions'[i][t] = parsed_actions[i][t]
      BY <1>9, <2>3, Zenon
    <3>2. FromLine(parsed_actions[i][t][k], Content(i), t, lnum[i])
      BY <3>1, Zenon DEF FromLines
    <3>. QED
      BY <2>2, <3>1, <3>2, Zenon
  <2>4. CASE i = j /\ t = line.tid /\ k \in 1..Len(old)
    <3>1. parsed_actions'[i][t][k] = old[k]
      BY <1>10, <1>12, <2>4, Zenon
    <3>. QED
      BY <1>13, <2>2, <2>4, <3>1, Zenon
  <2>5. CASE i = j /\ t = line.tid /\ k \notin 1..Len(old)
    <3>1. line.kind \in {"target", "mark"} /\ parsed_actions'[i][t][k] = a
      <4>1. parsed_actions'[j][line.tid] = Append(old, a) /\ line.kind \in {"target", "mark"}
        BY <1>10, <2>5, Zenon
      <4>. QED
        BY <1>12, <2>5, <4>1
    <3>2. lnum'[j] = lnum[j] + 1
      BY <1>1, Zenon DEF JobTypes
    <3>. QED
      BY <1>4, <1>5, <2>5, <3>1, <3>2 DEF FromLine, line
  <2>. QED
    BY <2>3, <2>4, <2>5, Zenon
<1>15. SetsOrdered'
  <2>1. ASSUME NEW i \in Job, NEW t \in Tid
        PROVE  /\ i \in sorted \/ ~input.out_of_order => Ordered(parsed_actions'[i][t])
               /\ i \in sorted => Ordered(error_actions'[i][t])
    <3>1. CASE i # j \/ t # line.tid
      BY <1>9, <3>1, Zenon DEF SetsOrdered
    <3>2. CASE i = j /\ t = line.tid /\ ~input.out_of_order
                 /\ mine /\ line.kind \in {"target", "mark"}
      <4>1. InTime(input) /\ input.files \in Seq(Seq(Line))
        BY <3>2, InputAssumption, Zenon DEF JobTypes, Input
      <4>2. parse_jobs[j].file \in 1..Len(input.files) /\ Content(j) = input.files[parse_jobs[j].file]
        BY <1>3, <1>4, <4>1 DEF Content, File
      <4>3. ASSUME NEW k \in 1..Len(old)
            PROVE  old[k].ts <= a.ts
        <5>1. /\ old[k].line \in 1..Len(Content(j)) /\ old[k].line < lnum[j] + 1
              /\ Content(j)[old[k].line].tid = line.tid
              /\ Content(j)[old[k].line].kind \in {"target", "mark"}
              /\ old[k].ts = Content(j)[old[k].line].ts
          BY <1>3, <1>4, <1>13, <4>3 DEF FromLine
        <5>2. Content(j)[old[k].line].ts <= line.ts
          BY <1>4, <3>2, <4>1, <4>2, <5>1, Zenon DEF InTime, line
        <5>. QED
          BY <1>5, <5>1, <5>2, Zenon
      <4>4. Ordered(old)
        BY <1>5, <3>2, Zenon DEF SetsOrdered, old
      <4>5. Ordered(Append(old, a))
        BY <1>5, <1>7, <4>3, <4>4, AppendOrdered, Zenon
      <4>. QED
        BY <1>1, <1>10, <3>2, <4>5, Zenon
    <3>3. CASE i = j /\ t = line.tid
                 /\ ~(~input.out_of_order /\ mine /\ line.kind \in {"target", "mark"})
      BY <1>1, <1>10, <3>3, Zenon DEF SetsOrdered, old
    <3>. QED
      BY <3>1, <3>2, <3>3, Zenon
  <2>. QED
    BY <1>1, <1>2, <2>1, Zenon DEF SetsOrdered
<1>. QED
  BY <1>1, <1>8, <1>14, <1>15, Zenon DEF MergeTypes, RestIsLater, ThreadOrder

(* sort_actions() sorts the set of every thread. *)
LEMMA SortedSetsOrdered ==
  ASSUME NEW sets \in [Tid -> Seq(Act)], NEW r \in SortedSets(sets)
  PROVE  r \in [Tid -> Seq(Act)] /\ \A t \in Tid : Ordered(r[t])
<1>1. r \in [Tid -> UNION {StableSorts(sets[t]) : t \in Tid}]
      /\ \A t \in Tid : r[t] \in StableSorts(sets[t])
  BY Zenon DEF SortedSets
<1>2. \A t \in Tid : r[t] \in Seq(Act) /\ Ordered(r[t])
  BY <1>1, SortedIsOrdered, Zenon
<1>. QED
  BY <1>1, <1>2, Zenon

(* exec() of a parse job ends with its sets in order. *)
LEMMA SortActionsInv ==
  ASSUME MergeInv, NEW j \in Job, SortActions(j)
  PROVE  MergeInv'
<1>. USE DEF MergeInv
<1>1. /\ input' = input /\ phase' = phase /\ parse_jobs' = parse_jobs /\ lnum' = lnum
      /\ actions' = actions /\ phase = "parse" /\ sorted' = sorted \cup {j}
  BY Zenon DEF SortActions, threadVars
<1>2. Job' = Job /\ \A i \in Job : Content(i)' = Content(i)
  BY <1>1, Zenon DEF Job, Content, File
<1>3. PICK e \in SortedSets(error_actions[j]) : error_actions' = [error_actions EXCEPT ![j] = e]
  BY Zenon DEF SortActions
<1>4. PICK p \in (IF input.out_of_order THEN SortedSets(parsed_actions[j]) ELSE {parsed_actions[j]}) :
        parsed_actions' = [parsed_actions EXCEPT ![j] = p]
  BY Zenon DEF SortActions
<1>5. parsed_actions[j] \in [Tid -> Seq(Act)] /\ error_actions[j] \in [Tid -> Seq(Act)]
  BY Zenon DEF JobTypes
<1>6. e \in [Tid -> Seq(Act)] /\ \A t \in Tid : Ordered(e[t])
  BY <1>3, <1>5, SortedSetsOrdered, Zenon
<1>7. p \in [Tid -> Seq(Act)] /\ \A t \in Tid : Ordered(p[t])
  <2>1. CASE input.out_of_order
    BY <1>4, <1>5, <2>1, SortedSetsOrdered, Zenon
  <2>2. CASE ~input.out_of_order
    BY <1>4, <1>5, <2>2, Zenon DEF SetsOrdered
  <2>. QED
    BY <2>1, <2>2, Zenon
<1>8. JobTypes'
  BY <1>1, <1>2, <1>3, <1>4, <1>6, <1>7, Zenon DEF JobTypes
<1>9. \A i \in Job : i # j => parsed_actions'[i] = parsed_actions[i] /\ error_actions'[i] = error_actions[i]
  BY <1>3, <1>4, Zenon DEF JobTypes
<1>10. parsed_actions'[j] = p /\ error_actions'[j] = e
  BY <1>3, <1>4, Zenon DEF JobTypes
<1>11. FromLines'
  BY <1>1, <1>2, <1>9 DEF FromLines
<1>12. SetsOrdered'
  <2>. SUFFICES ASSUME NEW i \in Job, NEW t \in Tid
                PROVE  /\ i \in sorted' \/ ~input.out_of_order => Ordered(parsed_actions'[i][t])
                       /\ i \in sorted' => Ordered(error_actions'[i][t])
    BY <1>1, <1>2, Zenon DEF SetsOrdered
  <2>1. CASE i = j
    BY <1>6, <1>7, <1>10, <2>1, Zenon
  <2>2. CASE i # j
    BY <1>1, <1>9, <2>2, Zenon DEF SetsOrdered
  <2>. QED
    BY <2>1, <2>2, Zenon
<1>. QED
  BY <1>1, <1>8, <1>11, <1>12, Zenon DEF MergeTypes, RestIsLater, ThreadOrder

(* A step that leaves the parse jobs alone keeps what is known of them. *)
LEMMA ParseKept ==
  ASSUME JobTypes, FromLines, SetsOrdered, phase' \in {"assign", "parse", "extract"},
         UNCHANGED <<input, parse_jobs, lnum, parsed_actions, error_actions, sorted>>
  PROVE  /\ JobTypes' /\ FromLines' /\ SetsOrdered'
         /\ Job' = Job /\ Sources' = Sources
         /\ \A t \in Tid : \A i \in Sources : Source(t, i)' = Source(t, i)
<1>1. Job' = Job /\ Sources' = Sources
  BY Zenon DEF Job, Sources
<1>2. \A j \in Job : Content(j)' = Content(j)
  BY Zenon DEF Content, File
<1>3. \A t \in Tid : \A i \in Sources : Source(t, i)' = Source(t, i)
  BY Zenon DEF Source
<1>4. JobTypes'
  BY <1>1, Zenon DEF JobTypes
<1>5. FromLines'
  BY <1>1, <1>2, Zenon DEF FromLines
<1>6. SetsOrdered'
  BY <1>1, Zenon DEF SetsOrdered
<1>. QED
  BY <1>1, <1>3, <1>4, <1>5, <1>6, Zenon

(* assign_thread_jobs(): nothing has been taken yet. *)
LEMMA AssignThreadJobsInv ==
  ASSUME MergeInv, AssignThreadJobs
  PROVE  MergeInv'
<1>. USE DEF MergeInv
<1>1. /\ input' = input /\ parse_jobs' = parse_jobs /\ lnum' = lnum /\ sorted' = sorted
      /\ parsed_actions' = parsed_actions /\ error_actions' = error_actions
      /\ actions' = actions /\ phase = "parse" /\ phase' = "extract" /\ sorted = Job
      /\ pointers' = [t \in Tid |-> [i \in Sources |-> 0]]
  BY Zenon DEF AssignThreadJobs, parseVars
<1>2. Job' = Job /\ Sources' = Sources /\ JobTypes' /\ FromLines' /\ SetsOrdered'
  BY <1>1, ParseKept, Zenon
<1>3. \A t \in Tid : actions'[t] = <<>>
  BY <1>1, Zenon DEF MergeTypes
<1>4. MergeTypes'
  BY <1>1, <1>2, Zenon DEF MergeTypes
<1>5. RestIsLater' /\ ThreadOrder'
  BY <1>3 DEF RestIsLater, ThreadOrder
<1>. QED
  BY <1>2, <1>4, <1>5, Zenon

(* What one turn of the loop takes is the oldest action that any source    *)
(* has left: the sources are in order, and it is the oldest of their next  *)
(* actions.                                                                *)
LEMMA TakenIsOldest ==
  ASSUME MergeInv, NEW t \in Tid, phase = "extract",
         NEW i \in Remaining(t), IsMin(t, i),
         NEW n \in Sources, NEW k \in 1..Len(Source(t, n)), pointers[t][n] < k
  PROVE  NextAction(t, i).ts <= Source(t, n)[k].ts
<1>. USE DEF MergeInv
<1>1. i \in Sources /\ pointers[t][i] \in Nat /\ pointers[t][n] \in Nat
  BY Zenon DEF MergeTypes, Remaining
<1>2. Source(t, n) \in Seq(Act) /\ Ordered(Source(t, n)) /\ Source(t, i) \in Seq(Act)
  BY SourceType, Zenon DEF MergeTypes, Remaining
<1>3. n \in Remaining(t) /\ pointers[t][n] + 1 \in 1..Len(Source(t, n)) /\ pointers[t][n] + 1 <= k
  BY <1>1, <1>2 DEF Remaining
<1>4. pointers[t][i] + 1 \in 1..Len(Source(t, i))
  BY <1>1, <1>2 DEF Remaining
<1>5. NextAction(t, i) \in Act /\ NextAction(t, n) \in Act /\ Source(t, n)[k] \in Act
  BY <1>2, <1>3, <1>4, ElementType, Zenon DEF NextAction
<1>6. NextAction(t, i).ts <= NextAction(t, n).ts
  BY <1>3, <1>5 DEF IsMin, Act
<1>7. NextAction(t, n).ts <= Source(t, n)[k].ts
  <2>1. CASE pointers[t][n] + 1 = k
    BY <1>5, <2>1 DEF NextAction, Act
  <2>2. CASE pointers[t][n] + 1 < k
    BY <1>2, <1>3, <2>2, Zenon DEF NextAction, Ordered
  <2>. QED
    BY <1>1, <1>3, <2>1, <2>2
<1>. QED
  BY <1>5, <1>6, <1>7 DEF Act

(* A turn of the loop of extract_actions(): what it takes is not older     *)
(* than what was taken, and nothing that is left is older.                 *)
LEMMA ExtractNextInv ==
  ASSUME MergeInv, NEW t \in Tid, ExtractNext(t)
  PROVE  MergeInv'
<1>. USE DEF MergeInv
<1>1. /\ input' = input /\ phase' = phase /\ parse_jobs' = parse_jobs /\ lnum' = lnum
      /\ sorted' = sorted /\ parsed_actions' = parsed_actions /\ error_actions' = error_actions
      /\ phase = "extract"
  BY Zenon DEF ExtractNext, Extracting, parseVars
<1>2. PICK i \in Remaining(t) :
        /\ IsMin(t, i)
        /\ actions' = [actions EXCEPT ![t] = Append(@, NextAction(t, i))]
        /\ pointers' = [pointers EXCEPT ![t][i] = @ + 1]
  BY Zenon DEF ExtractNext
<1>3. /\ Job' = Job /\ Sources' = Sources
      /\ \A u \in Tid : \A n \in Sources : Source(u, n)' = Source(u, n)
  BY <1>1, ParseKept, Zenon DEF JobTypes
<1>4. JobTypes' /\ FromLines' /\ SetsOrdered'
  BY <1>1, ParseKept, Zenon DEF JobTypes
<1>5. i \in Sources /\ pointers \in [Tid -> [Sources -> Nat]] /\ actions \in [Tid -> Seq(Act)]
  BY <1>1, Zenon DEF MergeTypes, Remaining
<1>6. Source(t, i) \in Seq(Act) /\ pointers[t][i] \in Nat /\ pointers[t][i] < Len(Source(t, i))
  BY <1>5, SourceType, Zenon DEF Remaining
<1>7. pointers[t][i] + 1 \in 1..Len(Source(t, i))
  BY <1>6
<1>8. NextAction(t, i) \in Act
  BY <1>6, <1>7, ElementType, Zenon DEF NextAction
<1>9. actions'[t] = Append(actions[t], NextAction(t, i)) /\ actions'[t] \in Seq(Act)
      /\ \A u \in Tid : u # t => actions'[u] = actions[u]
  BY <1>2, <1>5, <1>8
<1>10. actions' \in [Tid -> Seq(Act)] /\ pointers' \in [Tid -> [Sources -> Nat]]
  BY <1>2, <1>5, <1>8
<1>11. MergeTypes'
  BY <1>1, <1>3, <1>10, Zenon DEF MergeTypes
<1>12. \A u \in Tid : \A n \in Sources : pointers[u][n] <= pointers'[u][n]
  BY <1>2, <1>5
<1>13. \A m \in 1..Len(actions[t]) : actions[t][m].ts <= NextAction(t, i).ts
  BY <1>1, <1>5, <1>6, <1>7 DEF RestIsLater, NextAction
<1>14. ThreadOrder'
  <2>1. Ordered(actions[t]) /\ actions[t] \in Seq(Act)
    BY <1>5, Zenon DEF ThreadOrder, Ordered
  <2>2. Ordered(actions'[t])
    BY <1>8, <1>9, <1>13, <2>1, AppendOrdered, Zenon
  <2>3. \A u \in Tid : u # t => Ordered(actions'[u])
    BY <1>9, Zenon DEF ThreadOrder, Ordered
  <2>. QED
    BY <2>2, <2>3, Zenon DEF ThreadOrder, Ordered
<1>15. RestIsLater'
  <2>. SUFFICES ASSUME NEW u \in Tid, NEW n \in Sources, NEW k \in 1..Len(Source(u, n)),
                       pointers'[u][n] < k, NEW m \in 1..Len(actions'[u])
                PROVE  actions'[u][m].ts <= Source(u, n)[k].ts
    BY <1>3 DEF RestIsLater
  <2>1. pointers[u][n] < k
    <3>1. pointers[u][n] \in Nat /\ pointers'[u][n] \in Nat /\ Source(u, n) \in Seq(Act)
      BY <1>5, <1>10, SourceType, Zenon
    <3>2. k \in Nat
      BY <3>1
    <3>. QED
      BY <1>12, <3>1, <3>2
  <2>2. CASE u # t
    BY <1>1, <1>9, <2>1, <2>2, Zenon DEF RestIsLater
  <2>3. CASE u = t
    <3>1. /\ Len(actions[t]) \in Nat /\ Len(actions'[t]) = Len(actions[t]) + 1
          /\ \A x \in 1..Len(actions[t]) : actions'[t][x] = actions[t][x]
          /\ actions'[t][Len(actions[t]) + 1] = NextAction(t, i)
      BY <1>5, <1>8, <1>9, AppendAt
    <3>2. CASE m \in 1..Len(actions[t])
      BY <1>1, <2>1, <2>3, <3>1, <3>2, Zenon DEF RestIsLater
    <3>3. CASE m = Len(actions[t]) + 1
      BY <1>1, <1>2, <2>1, <2>3, <3>1, <3>3, TakenIsOldest, Zenon
    <3>. QED
      BY <2>3, <3>1, <3>2, <3>3
  <2>. QED
    BY <2>2, <2>3, Zenon
<1>. QED
  BY <1>4, <1>11, <1>14, <1>15, Zenon

(* The end of extract_actions(), and a step that changes nothing. *)
LEMMA ExtractDoneInv ==
  ASSUME MergeInv,
         UNCHANGED <<input, phase, parse_jobs, lnum, parsed_actions, error_actions, sorted,
                     pointers, actions>>
  PROVE  MergeInv'
<1>1. /\ JobTypes' /\ FromLines' /\ SetsOrdered' /\ Job' = Job /\ Sources' = Sources
      /\ \A u \in Tid : \A n \in Sources : Source(u, n)' = Source(u, n)
  BY ParseKept, Zenon DEF MergeInv, JobTypes
<1>2. MergeTypes'
  BY <1>1, Zenon DEF MergeInv, MergeTypes
<1>3. RestIsLater' /\ ThreadOrder'
  BY <1>1, Zenon DEF MergeInv, RestIsLater, ThreadOrder
<1>. QED
  BY <1>1, <1>2, <1>3, Zenon DEF MergeInv

-----------------------------------------------------------------------------
(* The invariant holds throughout: parsing, sorting and merging keep it,   *)
(* for any number of workers, threads, files and lines.                    *)
THEOREM MergeInvariant == Spec => []MergeInv
<1>1. MergeInv /\ [Next]_vars => MergeInv'
  <2>. SUFFICES ASSUME MergeInv, [Next]_vars PROVE MergeInv'
    BY Zenon
  <2>1. CASE AssignParseJobs
    BY <2>1, AssignParseJobsInv, Zenon
  <2>2. CASE AssignThreadJobs
    BY <2>2, AssignThreadJobsInv, Zenon
  <2>3. ASSUME NEW j \in Job, ReadLine(j) PROVE MergeInv'
    BY <2>3, ReadLineInv, Zenon
  <2>4. ASSUME NEW j \in Job, SortActions(j) PROVE MergeInv'
    BY <2>4, SortActionsInv, Zenon
  <2>5. ASSUME NEW t \in Tid, ExtractNext(t) PROVE MergeInv'
    BY <2>5, ExtractNextInv, Zenon
  <2>6. ASSUME NEW t \in Tid, ExtractDone(t) PROVE MergeInv'
    BY <2>6, ExtractDoneInv, Zenon DEF ExtractDone, parseVars
  <2>7. CASE UNCHANGED vars
    BY <2>7, ExtractDoneInv, Zenon DEF vars, parseVars, threadVars
  <2>. QED
    BY <2>1, <2>2, <2>3, <2>4, <2>5, <2>6, <2>7, Zenon DEF Next
<1>. QED
  BY <1>1, MergeInitInv, PTL DEF Spec

(* extract_actions() hands do_analyze() the actions of a thread in the     *)
(* order of time, errors included, however the script was divided.         *)
THEOREM MergeKeepsOrder == Spec => []ThreadOrder
<1>1. MergeInv => ThreadOrder
  BY Zenon DEF MergeInv
<1>. QED
  BY <1>1, MergeInvariant, PTL

-----------------------------------------------------------------------------
(* What is in the sets.  A set of a parse job has the lines of its range   *)
(* that were read, each once: stable_sort() only changes their order, and  *)
(* keeps that of equal time stamps.                                        *)
Branch == {"target", "mark"}
Elements(s) == {s[k] : k \in 1..Len(s)}
LineOrder(s) == \A k, l \in 1..Len(s) : k < l /\ s[k].ts = s[l].ts => s[k].line < s[l].line

InRange(job, l) == job.from <= l - 1 /\ l - 1 < job.to
Keeps(job, content, l, t, kinds) ==
  InRange(job, l) /\ content[l].tid = t /\ content[l].kind \in kinds
(* What a job keeps of the first n lines, for thread t *)
Kept(job, content, n, t, kinds) ==
  {Action(content[l], job.file, l) : l \in {x \in 1..n : Keeps(job, content, x, t, kinds)}}

SetsHold == \A j \in Job : \A t \in Tid :
  /\ Elements(parsed_actions[j][t]) = Kept(parse_jobs[j], Content(j), lnum[j], t, Branch)
  /\ Elements(error_actions[j][t]) = Kept(parse_jobs[j], Content(j), lnum[j], t, {"error"})
SetsInLineOrder == \A j \in Job : \A t \in Tid :
  LineOrder(parsed_actions[j][t]) /\ LineOrder(error_actions[j][t])
ReadUpTo == \A j \in Job :
  lnum[j] <= Len(Content(j)) /\ (j \in sorted => lnum[j] = Len(Content(j)))
Divided == phase # "assign" => parse_jobs = ParseJobs

ParseInv == SetsHold /\ SetsInLineOrder /\ ReadUpTo /\ Divided

LEMMA ActionFields ==
  ASSUME NEW line, NEW f, NEW l
  PROVE  /\ Action(line, f, l).tid = line.tid /\ Action(line, f, l).ts = line.ts
         /\ Action(line, f, l).kind = line.kind
         /\ Action(line, f, l).file = f /\ Action(line, f, l).line = l
BY Zenon DEF Action

LEMMA KeptGrows ==
  ASSUME NEW job, NEW c, NEW n \in Nat, NEW t, NEW kinds
  PROVE  Kept(job, c, n + 1, t, kinds) =
           Kept(job, c, n, t, kinds)
             \cup (IF Keeps(job, c, n + 1, t, kinds) THEN {Action(c[n + 1], job.file, n + 1)} ELSE {})
<1>1. 1..(n + 1) = (1..n) \cup {n + 1}
  OBVIOUS
<1>2. {x \in 1..(n + 1) : Keeps(job, c, x, t, kinds)} =
        {x \in 1..n : Keeps(job, c, x, t, kinds)}
          \cup (IF Keeps(job, c, n + 1, t, kinds) THEN {n + 1} ELSE {})
  BY <1>1, Zenon
<1>. QED
  BY <1>2, Zenon DEF Kept

(* A kept action knows its line. *)
LEMMA KeptFields ==
  ASSUME NEW job, NEW c, NEW n \in Nat, NEW t, NEW kinds, NEW a \in Kept(job, c, n, t, kinds)
  PROVE  /\ a.line \in 1..n /\ Keeps(job, c, a.line, t, kinds) /\ a = Action(c[a.line], job.file, a.line)
         /\ a.file = job.file /\ a.tid = t /\ a.kind \in kinds /\ a.ts = c[a.line].ts
<1>1. PICK l \in 1..n : Keeps(job, c, l, t, kinds) /\ a = Action(c[l], job.file, l)
  BY Zenon DEF Kept
<1>2. a.line = l
  BY <1>1, ActionFields
<1>. QED
  BY <1>1, <1>2, ActionFields DEF Keeps

LEMMA ElementsAppend ==
  ASSUME NEW S, NEW s \in Seq(S), NEW x \in S
  PROVE  Elements(Append(s, x)) = Elements(s) \cup {x}
<1>1. 1..(Len(s) + 1) = (1..Len(s)) \cup {Len(s) + 1}
  BY AppendAt
<1>. QED
  BY <1>1, AppendAt DEF Elements

(* An injection of an interval into itself reaches every element of it     *)
(* (proved below as PigeonholeHolds, where the library is at hand).        *)
Pigeonhole ==
  \A n \in Nat : \A p \in [1..n -> 1..n] :
    (\A k, l \in 1..n : k # l => p[k] # p[l]) => \A l \in 1..n : \E k \in 1..n : p[k] = l

(* A permutation of the positions loses no element. *)
LEMMA SortedElements ==
  ASSUME Pigeonhole, NEW s \in Seq(Act), NEW r \in StableSorts(s)
  PROVE  Elements(r) = Elements(s) /\ (LineOrder(s) => LineOrder(r))
<1>. DEFINE n == Len(s)
<1>1. PICK p \in Orders(s) : r = [k \in 1..n |-> s[p[k]]]
  BY Zenon DEF StableSorts
<1>2. p \in [1..n -> 1..n] /\ n \in Nat
  BY DEF Orders
<1>3. Len(r) = n
  BY <1>1, <1>2
<1>4. \A k \in 1..n : s[k].ts \in Nat
  <2>1. \A k \in 1..n : s[k] \in Act
    OBVIOUS
  <2>. QED
    BY <2>1, Zenon DEF Act
<1>. HIDE DEF n
<1>5. \A k, l \in 1..n : k < l => Before(s, p[k], p[l])
  BY Zenon DEF Orders, n
<1>6. ASSUME NEW k \in 1..n, NEW l \in 1..n, k < l PROVE p[k] # p[l]
  <2>1. Before(s, p[k], p[l]) /\ p[k] \in 1..n /\ p[l] \in 1..n
    BY <1>2, <1>5, <1>6, Zenon
  <2>2. s[p[k]].ts \in Nat /\ s[p[l]].ts \in Nat
    BY <1>4, <2>1, Zenon
  <2>. QED
    BY <1>2, <2>1, <2>2 DEF Before
<1>7. \A k, l \in 1..n : k # l => p[k] # p[l]
  BY <1>2, <1>6
<1>9. \A l \in 1..n : \E k \in 1..n : p[k] = l
  BY <1>2, <1>7, Zenon DEF Pigeonhole
<1>10. Elements(r) = Elements(s)
  BY <1>1, <1>2, <1>3, <1>9, Zenon DEF Elements, n
<1>11. ASSUME LineOrder(s), NEW k \in 1..n, NEW l \in 1..n, k < l, r[k].ts = r[l].ts
       PROVE  r[k].line < r[l].line
  <2>1. r[k] = s[p[k]] /\ r[l] = s[p[l]] /\ p[k] \in 1..n /\ p[l] \in 1..n
    BY <1>1, <1>2, Zenon
  <2>2. Before(s, p[k], p[l])
    BY <1>5, <1>11, Zenon
  <2>3. p[k] < p[l]
    BY <1>4, <1>11, <2>1, <2>2 DEF Before
  <2>. QED
    BY <1>11, <2>1, <2>3, Zenon DEF LineOrder, n
<1>. QED
  BY <1>3, <1>10, <1>11, Zenon DEF LineOrder

LEMMA SortedSetsElements ==
  ASSUME Pigeonhole, NEW sets \in [Tid -> Seq(Act)], NEW r \in SortedSets(sets), NEW t \in Tid
  PROVE  Elements(r[t]) = Elements(sets[t]) /\ (LineOrder(sets[t]) => LineOrder(r[t]))
<1>1. r[t] \in StableSorts(sets[t])
  BY Zenon DEF SortedSets
<1>. QED
  BY <1>1, SortedElements, Zenon

-----------------------------------------------------------------------------
LEMMA ParseInit == ASSUME Init PROVE ParseInv
<1>1. Job = {}
  BY DEF Init, Job
<1>. QED
  BY <1>1, Zenon DEF Init, ParseInv, SetsHold, SetsInLineOrder, ReadUpTo, Divided

LEMMA ParseAssigned ==
  ASSUME MergeInv, MergeInv', AssignParseJobs
  PROVE  ParseInv'
<1>1. /\ input' = input /\ parse_jobs' = ParseJobs /\ sorted' = {}
      /\ Job' = 1..Len(ParseJobs)
      /\ lnum' = [j \in 1..Len(ParseJobs) |-> 0]
      /\ parsed_actions' = [j \in 1..Len(ParseJobs) |-> NoActions]
      /\ error_actions' = [j \in 1..Len(ParseJobs) |-> NoActions]
  BY Zenon DEF AssignParseJobs, threadVars, MergeInv, MergeTypes, Job
<1>2. ParseJobs' = ParseJobs
  BY <1>1, Zenon DEF ParseJobs, File, WholeFile, LineRange, Step
<1>3. \A j \in Job' : \A t \in Tid :
        parsed_actions'[j][t] = <<>> /\ error_actions'[j][t] = <<>> /\ lnum'[j] = 0
  BY <1>1, Zenon DEF NoActions
<1>4. \A job, c, t, kinds : Kept(job, c, 0, t, kinds) = {}
  BY DEF Kept
<1>5. Elements(<<>>) = {} /\ LineOrder(<<>>)
  BY DEF Elements, LineOrder
<1>6. \A j \in Job' : Len(Content(j)') \in Nat
  <2>. TAKE j \in Job'
  <2>1. parse_jobs'[j] \in [file : Nat \ {0}, from : Nat, to : Nat]
    BY ElementType, Zenon DEF MergeInv, JobTypes, Job
  <2>2. File(parse_jobs'[j].file) \in Seq(Line)
    BY <2>1, FileType, Zenon DEF MergeInv, JobTypes
  <2>. QED
    BY <1>1, <2>2 DEF Content, File
<1>7. SetsHold' /\ SetsInLineOrder'
  BY <1>3, <1>4, <1>5, Zenon DEF SetsHold, SetsInLineOrder
<1>8. ReadUpTo'
  BY <1>1, <1>3, <1>6 DEF ReadUpTo
<1>. QED
  BY <1>1, <1>2, <1>7, <1>8, Zenon DEF ParseInv, Divided

(* One turn of the loop over the lines *)
LEMMA ParseRead ==
  ASSUME MergeInv, ParseInv, NEW j \in Job, ReadLine(j)
  PROVE  ParseInv'
<1>. USE DEF MergeInv, ParseInv
<1>1. PICK n \in Nat : n = lnum[j]
  BY Zenon DEF JobTypes
<1>2. PICK c : c = Content(j)
  BY Zenon
<1>3. PICK job : job = parse_jobs[j]
  BY Zenon
<1>4. PICK line : line = c[n + 1]
  BY Zenon
<1>5. PICK a : a = Action(line, job.file, n + 1)
  BY Zenon
<1>6. /\ input' = input /\ phase' = phase /\ parse_jobs' = parse_jobs /\ sorted' = sorted
      /\ phase = "parse" /\ j \notin sorted /\ n < Len(c)
      /\ lnum' = [lnum EXCEPT ![j] = n + 1]
      /\ parsed_actions' = IF InRange(job, n + 1) /\ line.kind \in Branch
                             THEN [parsed_actions EXCEPT ![j][a.tid] = Append(@, a)]
                             ELSE parsed_actions
      /\ error_actions' = IF InRange(job, n + 1) /\ line.kind = "error"
                            THEN [error_actions EXCEPT ![j][a.tid] = Append(@, a)]
                            ELSE error_actions
  <2>1. n + 1 - 1 = n
    OBVIOUS
  <2>2. parse_jobs[j].from <= lnum[j] /\ lnum[j] < parse_jobs[j].to <=> InRange(job, n + 1)
    BY <2>1, <1>1, <1>3 DEF InRange
  <2>3. Content(j)[lnum[j] + 1] = line /\ Action(line, parse_jobs[j].file, lnum[j] + 1) = a
    BY <1>1, <1>2, <1>3, <1>4, <1>5, Zenon
  <2>4. /\ input' = input /\ phase' = phase /\ parse_jobs' = parse_jobs /\ sorted' = sorted
        /\ phase = "parse" /\ j \notin sorted /\ n < Len(c)
        /\ lnum' = [lnum EXCEPT ![j] = n + 1]
    BY <1>1, <1>2, Zenon DEF ReadLine
  <2>5. parsed_actions' = IF InRange(job, n + 1) /\ line.kind \in Branch
                             THEN [parsed_actions EXCEPT ![j][a.tid] = Append(@, a)]
                             ELSE parsed_actions
    BY <2>2, <2>3, Zenon DEF ReadLine, Branch
  <2>6. error_actions' = IF InRange(job, n + 1) /\ line.kind = "error"
                            THEN [error_actions EXCEPT ![j][a.tid] = Append(@, a)]
                            ELSE error_actions
    BY <2>2, <2>3, Zenon DEF ReadLine
  <2>. QED
    BY <2>4, <2>5, <2>6, Zenon
<1>7. Job' = Job /\ ParseJobs' = ParseJobs /\ \A i \in Job : Content(i)' = Content(i)
  BY <1>6, Zenon DEF Job, Content, File, ParseJobs, WholeFile, LineRange, Step
<1>8. c \in Seq(Line) /\ job.file \in Nat \ {0}
  <2>1. job \in [file : Nat \ {0}, from : Nat, to : Nat]
    BY <1>3, ElementType, Zenon DEF JobTypes, Job
  <2>. QED
    BY <1>2, <1>3, <2>1, FileType, Zenon DEF Content, JobTypes
<1>9. line \in Line /\ n + 1 \in 1..Len(c) /\ Len(c) \in Nat
  BY <1>4, <1>6, <1>8
<1>10. a \in Act /\ a.tid = line.tid /\ a.line = n + 1 /\ line.tid \in Tid
  BY <1>5, <1>8, <1>9 DEF Action, Act, Line
<1>11. PICK s \in Seq(Act) : s = parsed_actions[j][line.tid]
  BY <1>10, Zenon DEF JobTypes
<1>12. PICK e \in Seq(Act) : e = error_actions[j][line.tid]
  BY <1>10, Zenon DEF JobTypes
<1>13. /\ parsed_actions'[j][line.tid] = IF InRange(job, n + 1) /\ line.kind \in Branch THEN Append(s, a) ELSE s
       /\ \A i \in Job : \A t \in Tid : i # j \/ t # line.tid => parsed_actions'[i][t] = parsed_actions[i][t]
  BY <1>6, <1>10, <1>11, Zenon DEF JobTypes
<1>14. /\ error_actions'[j][line.tid] = IF InRange(job, n + 1) /\ line.kind = "error" THEN Append(e, a) ELSE e
       /\ \A i \in Job : \A t \in Tid : i # j \/ t # line.tid => error_actions'[i][t] = error_actions[i][t]
  BY <1>6, <1>10, <1>12, Zenon DEF JobTypes
<1>15. lnum'[j] = n + 1 /\ \A i \in Job : i # j => lnum'[i] = lnum[i]
  BY <1>6, Zenon DEF JobTypes
<1>16. /\ Elements(s) = Kept(job, c, n, line.tid, Branch)
       /\ Elements(e) = Kept(job, c, n, line.tid, {"error"})
  BY <1>1, <1>2, <1>3, <1>10, <1>11, <1>12, Zenon DEF SetsHold
<1>17. \A t, kinds : Keeps(job, c, n + 1, t, kinds) <=> InRange(job, n + 1) /\ line.tid = t /\ line.kind \in kinds
  BY <1>4, Zenon DEF Keeps
<1>18. \A kinds : Kept(job, c, n + 1, line.tid, kinds) =
         Kept(job, c, n, line.tid, kinds) \cup (IF InRange(job, n + 1) /\ line.kind \in kinds THEN {a} ELSE {})
  <2>. TAKE kinds
  <2>1. Keeps(job, c, n + 1, line.tid, kinds) <=> InRange(job, n + 1) /\ line.kind \in kinds
    BY <1>17, Zenon
  <2>2. Kept(job, c, n + 1, line.tid, kinds) =
          Kept(job, c, n, line.tid, kinds)
            \cup (IF Keeps(job, c, n + 1, line.tid, kinds) THEN {Action(c[n + 1], job.file, n + 1)} ELSE {})
    BY KeptGrows
  <2>3. Action(c[n + 1], job.file, n + 1) = a
    BY <1>4, <1>5, Zenon
  <2>4. CASE Keeps(job, c, n + 1, line.tid, kinds)
    BY <2>1, <2>2, <2>3, <2>4, Zenon
  <2>5. CASE ~Keeps(job, c, n + 1, line.tid, kinds)
    BY <2>1, <2>2, <2>5, Zenon
  <2>. QED
    BY <2>4, <2>5, Zenon
<1>19. \A t \in Tid : t # line.tid => \A kinds : Kept(job, c, n + 1, t, kinds) = Kept(job, c, n, t, kinds)
  <2>. TAKE t \in Tid
  <2>. HAVE t # line.tid
  <2>. TAKE kinds
  <2>1. ~Keeps(job, c, n + 1, t, kinds)
    BY <1>17, Zenon
  <2>2. Kept(job, c, n + 1, t, kinds) =
          Kept(job, c, n, t, kinds)
            \cup (IF Keeps(job, c, n + 1, t, kinds) THEN {Action(c[n + 1], job.file, n + 1)} ELSE {})
    BY KeptGrows
  <2>. QED
    BY <2>1, <2>2, Zenon
<1>20. /\ Elements(parsed_actions'[j][line.tid]) = Kept(job, c, n + 1, line.tid, Branch)
       /\ Elements(error_actions'[j][line.tid]) = Kept(job, c, n + 1, line.tid, {"error"})
  <2>1. Elements(Append(s, a)) = Elements(s) \cup {a} /\ Elements(Append(e, a)) = Elements(e) \cup {a}
    BY <1>10, ElementsAppend
  <2>2. Elements(parsed_actions'[j][line.tid]) = Kept(job, c, n + 1, line.tid, Branch)
    <3>1. CASE InRange(job, n + 1) /\ line.kind \in Branch
      BY <2>1, <1>13, <1>16, <1>18, <3>1, Zenon
    <3>2. CASE ~(InRange(job, n + 1) /\ line.kind \in Branch)
      BY <1>13, <1>16, <1>18, <3>2, Zenon
    <3>. QED
      BY <3>1, <3>2, Zenon
  <2>3. Elements(error_actions'[j][line.tid]) = Kept(job, c, n + 1, line.tid, {"error"})
    <3>1. CASE InRange(job, n + 1) /\ line.kind = "error"
      BY <2>1, <1>14, <1>16, <1>18, <3>1, Zenon
    <3>2. CASE ~(InRange(job, n + 1) /\ line.kind = "error")
      BY <1>14, <1>16, <1>18, <3>2, Zenon
    <3>. QED
      BY <3>1, <3>2, Zenon
  <2>. QED
    BY <2>2, <2>3, Zenon
<1>21. SetsHold'
  <2>. SUFFICES ASSUME NEW i \in Job, NEW t \in Tid
                PROVE  /\ Elements(parsed_actions'[i][t]) = Kept(parse_jobs[i], Content(i), lnum'[i], t, Branch)
                       /\ Elements(error_actions'[i][t]) = Kept(parse_jobs[i], Content(i), lnum'[i], t, {"error"})
    BY <1>6, <1>7 DEF SetsHold
  <2>1. CASE i # j
    BY <1>13, <1>14, <1>15, <2>1, Zenon DEF SetsHold
  <2>2. CASE i = j /\ t # line.tid
    <3>1. /\ Elements(parsed_actions[j][t]) = Kept(job, c, n, t, Branch)
          /\ Elements(error_actions[j][t]) = Kept(job, c, n, t, {"error"})
      BY <1>1, <1>2, <1>3, Zenon DEF SetsHold
    <3>2. parsed_actions'[j][t] = parsed_actions[j][t] /\ error_actions'[j][t] = error_actions[j][t]
      BY <1>13, <1>14, <2>2, Zenon
    <3>3. \A kinds : Kept(job, c, n + 1, t, kinds) = Kept(job, c, n, t, kinds)
      BY <1>19, <2>2, Zenon
    <3>. QED
      BY <1>2, <1>3, <1>15, <2>2, <3>1, <3>2, <3>3, Zenon
  <2>3. CASE i = j /\ t = line.tid
    BY <1>2, <1>3, <1>15, <1>20, <2>3, Zenon
  <2>. QED
    BY <2>1, <2>2, <2>3, Zenon
<1>22. ASSUME NEW q \in Seq(Act), LineOrder(q), NEW kinds, Elements(q) = Kept(job, c, n, line.tid, kinds)
       PROVE  LineOrder(Append(q, a))
  <2>1. \A k \in 1..Len(q) : q[k].line \in 1..n
    <3>. TAKE k \in 1..Len(q)
    <3>1. q[k] \in Kept(job, c, n, line.tid, kinds)
      BY <1>22, Zenon DEF Elements
    <3>. QED
      BY <3>1, KeptFields, Zenon
  <2>2. /\ Len(q) \in Nat /\ Len(Append(q, a)) = Len(q) + 1
        /\ \A k \in 1..Len(q) : Append(q, a)[k] = q[k]
        /\ Append(q, a)[Len(q) + 1] = a
    BY <1>10, AppendAt
  <2>3. PICK r : r = Append(q, a)
    BY Zenon
  <2>4. ASSUME NEW k \in 1..(Len(q) + 1), NEW l \in 1..(Len(q) + 1), k < l, r[k].ts = r[l].ts
        PROVE  r[k].line < r[l].line
    <3>1. k \in 1..Len(q) /\ r[k] = q[k]
      BY <2>2, <2>3, <2>4
    <3>2. CASE l \in 1..Len(q)
      BY <1>22, <2>2, <2>3, <2>4, <3>1, <3>2, Zenon DEF LineOrder
    <3>3. CASE l = Len(q) + 1
      BY <1>10, <2>1, <2>2, <2>3, <3>1, <3>3
    <3>. QED
      BY <2>2, <3>2, <3>3
  <2>. QED
    BY <2>2, <2>3, <2>4, Zenon DEF LineOrder
<1>23. SetsInLineOrder'
  <2>. SUFFICES ASSUME NEW i \in Job, NEW t \in Tid
                PROVE  LineOrder(parsed_actions'[i][t]) /\ LineOrder(error_actions'[i][t])
    BY <1>7, Zenon DEF SetsInLineOrder
  <2>1. CASE i # j \/ t # line.tid
    BY <1>13, <1>14, <2>1, Zenon DEF SetsInLineOrder
  <2>2. CASE i = j /\ t = line.tid
    <3>1. LineOrder(s) /\ LineOrder(e)
      BY <1>10, <1>11, <1>12, Zenon DEF SetsInLineOrder
    <3>2. LineOrder(Append(s, a)) /\ LineOrder(Append(e, a))
      BY <1>16, <1>22, <3>1, Zenon
    <3>. QED
      BY <1>13, <1>14, <2>2, <3>1, <3>2, Zenon
  <2>. QED
    BY <2>1, <2>2, Zenon
<1>24. ReadUpTo'
  <2>. SUFFICES ASSUME NEW i \in Job
                PROVE  lnum'[i] <= Len(Content(i)) /\ (i \in sorted => lnum'[i] = Len(Content(i)))
    BY <1>6, <1>7, Zenon DEF ReadUpTo
  <2>1. CASE i = j
    BY <1>2, <1>6, <1>9, <1>15, <2>1
  <2>2. CASE i # j
    BY <1>15, <2>2, Zenon DEF ReadUpTo
  <2>. QED
    BY <2>1, <2>2, Zenon
<1>. QED
  BY <1>6, <1>7, <1>21, <1>23, <1>24, Zenon DEF Divided

(* sort_actions() *)
LEMMA ParseSorted ==
  ASSUME Pigeonhole, MergeInv, ParseInv, NEW j \in Job, SortActions(j)
  PROVE  ParseInv'
<1>. USE DEF MergeInv, ParseInv
<1>1. /\ input' = input /\ phase' = phase /\ parse_jobs' = parse_jobs /\ lnum' = lnum
      /\ sorted' = sorted \cup {j} /\ lnum[j] = Len(Content(j))
  BY Zenon DEF SortActions
<1>2. Job' = Job /\ ParseJobs' = ParseJobs /\ \A i \in Job : Content(i)' = Content(i)
  BY <1>1, Zenon DEF Job, Content, File, ParseJobs, WholeFile, LineRange, Step
<1>3. PICK e \in SortedSets(error_actions[j]) : error_actions' = [error_actions EXCEPT ![j] = e]
  BY Zenon DEF SortActions
<1>4. PICK p \in (IF input.out_of_order THEN SortedSets(parsed_actions[j]) ELSE {parsed_actions[j]}) :
        parsed_actions' = [parsed_actions EXCEPT ![j] = p]
  BY Zenon DEF SortActions
<1>5. parsed_actions[j] \in [Tid -> Seq(Act)] /\ error_actions[j] \in [Tid -> Seq(Act)]
  BY Zenon DEF JobTypes
<1>6. \A t \in Tid : /\ Elements(e[t]) = Elements(error_actions[j][t])
                     /\ LineOrder(error_actions[j][t]) => LineOrder(e[t])
  BY <1>3, <1>5, SortedSetsElements, Zenon
<1>7. \A t \in Tid : /\ Elements(p[t]) = Elements(parsed_actions[j][t])
                     /\ LineOrder(parsed_actions[j][t]) => LineOrder(p[t])
  <2>1. CASE input.out_of_order
    BY <1>4, <1>5, <2>1, SortedSetsElements, Zenon
  <2>2. CASE ~input.out_of_order
    BY <1>4, <2>2, Zenon
  <2>. QED
    BY <2>1, <2>2, Zenon
<1>8. \A i \in Job : i # j => parsed_actions'[i] = parsed_actions[i] /\ error_actions'[i] = error_actions[i]
  BY <1>3, <1>4, Zenon DEF JobTypes
<1>9. parsed_actions'[j] = p /\ error_actions'[j] = e
  BY <1>3, <1>4, Zenon DEF JobTypes
<1>10. \A i \in Job : \A t \in Tid :
         /\ Elements(parsed_actions'[i][t]) = Elements(parsed_actions[i][t])
         /\ Elements(error_actions'[i][t]) = Elements(error_actions[i][t])
         /\ LineOrder(parsed_actions[i][t]) => LineOrder(parsed_actions'[i][t])
         /\ LineOrder(error_actions[i][t]) => LineOrder(error_actions'[i][t])
  BY <1>6, <1>7, <1>8, <1>9, Zenon
<1>11. SetsHold' /\ SetsInLineOrder'
  <2>1. SetsHold'
    <3>. SUFFICES ASSUME NEW i \in Job, NEW t \in Tid
                  PROVE  /\ Elements(parsed_actions'[i][t]) = Kept(parse_jobs[i], Content(i), lnum[i], t, Branch)
                         /\ Elements(error_actions'[i][t]) = Kept(parse_jobs[i], Content(i), lnum[i], t, {"error"})
      BY <1>1, <1>2 DEF SetsHold
    <3>. QED
      BY <1>10, Zenon DEF SetsHold
  <2>2. SetsInLineOrder'
    BY <1>2, <1>10, Zenon DEF SetsInLineOrder
  <2>. QED
    BY <2>1, <2>2, Zenon
<1>12. ReadUpTo'
  BY <1>1, <1>2, Zenon DEF ReadUpTo
<1>. QED
  BY <1>1, <1>2, <1>11, <1>12, Zenon DEF Divided

LEMMA ParseUnchanged ==
  ASSUME ParseInv, UNCHANGED <<input, parseVars>>, phase' = phase \/ phase # "assign"
  PROVE  ParseInv'
<1>0. /\ input' = input /\ parse_jobs' = parse_jobs /\ lnum' = lnum /\ sorted' = sorted
      /\ parsed_actions' = parsed_actions /\ error_actions' = error_actions
  BY Zenon DEF parseVars
<1>1. Job' = Job /\ ParseJobs' = ParseJobs /\ \A i \in Job : Content(i)' = Content(i)
  BY <1>0, Zenon DEF Job, Content, File, ParseJobs, WholeFile, LineRange, Step
<1>2. SetsHold'
  BY <1>0, <1>1 DEF ParseInv, SetsHold
<1>3. SetsInLineOrder'
  BY <1>0, <1>1, Zenon DEF ParseInv, SetsInLineOrder
<1>4. ReadUpTo' /\ Divided'
  BY <1>0, <1>1, Zenon DEF ParseInv, ReadUpTo, Divided
<1>. QED
  BY <1>2, <1>3, <1>4, Zenon DEF ParseInv

-----------------------------------------------------------------------------
(* assign_parse_jobs() divides the lines: every line is in the range of a  *)
(* job, and the range of a job is before that of the next.                 *)
LEMMA Monotone == \A a, b, c \in Nat : a <= b => a * c <= b * c
OBVIOUS

LEMMA Steps ==
  ASSUME NEW total \in Nat, NEW w \in Nat \ {0}
  PROVE  total < w * (total \div w + 1)
<1>1. PICK q \in Nat : q = total \div w
  OBVIOUS
<1>2. total < w * q + w
  BY <1>1
<1>3. w * (q + 1) = w * q + w
  OBVIOUS
<1>. QED
  BY <1>1, <1>2, <1>3, Zenon

Covered == \A f \in 1..Len(input.files) : \A l \in 1..Len(File(f)) :
  \E j \in Job : parse_jobs[j].file = f /\ InRange(parse_jobs[j], l)
Apart == \A i, j \in Job : i < j =>
  \/ parse_jobs[i].file < parse_jobs[j].file
  \/ /\ parse_jobs[i].file = parse_jobs[j].file
     /\ \A l, m \in Nat \ {0} : InRange(parse_jobs[i], l) /\ InRange(parse_jobs[j], m) => l < m

LEMMA Division ==
  ASSUME input \in Inputs, parse_jobs = ParseJobs
  PROVE  Covered /\ Apart
<1>0. PICK w \in Nat \ {0} : w = input.worker_num
  BY InputAssumption, Zenon DEF Input
<1>1. PICK total \in Nat : total = Len(File(1))
  BY FileType
<1>2. PICK d \in Nat \ {0} : d = Step(total)
  BY <1>0 DEF Step
<1>3. \A f \in 1..Len(input.files) : File(f) = input.files[f] /\ Len(File(f)) <= UINT32_MAX
  BY InputAssumption DEF File
<1>4. UINT32_MAX \in Nat
  BY InputAssumption, Zenon
<1>5. input.files \in Seq(Seq(Line))
  BY InputAssumption, Zenon DEF Input
<1>6. \A f \in 1..Len(input.files) : \A l \in 1..Len(File(f)) :
        l \in Nat \ {0} /\ InRange(WholeFile(f), l) /\ \A g : InRange(WholeFile(g), l) <=> InRange(WholeFile(f), l)
  <2>. TAKE f \in 1..Len(input.files)
  <2>. TAKE l \in 1..Len(File(f))
  <2>1. Len(File(f)) \in Nat
    BY <1>5, FileType
  <2>2. l \in Nat \ {0} /\ 0 <= l - 1 /\ l - 1 < UINT32_MAX
    BY <1>3, <1>4, <2>1
  <2>. QED
    BY <2>2, Zenon DEF InRange, WholeFile
<1>7. CASE input.parallel_script
  <2>1. parse_jobs = [i \in 1..w |-> WholeFile(i)] /\ Job = 1..w /\ Len(input.files) <= w
    <3>1. parse_jobs = [i \in 1..w |-> WholeFile(i)]
      BY <1>0, <1>7, Zenon DEF ParseJobs
    <3>2. Len(input.files) <= w
      BY <1>0, <1>7, InputAssumption, Zenon
    <3>. QED
      BY <3>1, <3>2 DEF Job
  <2>2. \A i \in Job : parse_jobs[i] = WholeFile(i) /\ parse_jobs[i].file = i
    BY <2>1 DEF WholeFile
  <2>3. Covered
    <3>. SUFFICES ASSUME NEW f \in 1..Len(input.files), NEW l \in 1..Len(File(f))
                  PROVE  \E j \in Job : parse_jobs[j].file = f /\ InRange(parse_jobs[j], l)
      BY Zenon DEF Covered
    <3>1. f \in Job
      BY <1>5, <2>1
    <3>2. InRange(WholeFile(f), l)
      BY <1>6, Zenon
    <3>. QED
      BY <2>2, <3>1, <3>2, Zenon
  <2>4. Apart
    BY <2>2, Zenon DEF Apart
  <2>. QED
    BY <2>3, <2>4, Zenon
<1>8. CASE ~input.parallel_script /\ total > LinesPerWorker * input.worker_num
  <2>0. Len(input.files) = 1
    BY <1>8, InputAssumption, Zenon
  <2>1. parse_jobs = [i \in 1..w |-> LineRange(i, total)] /\ Job = 1..w
    <3>1. parse_jobs = [i \in 1..w |-> LineRange(i, total)]
      BY <1>0, <1>1, <1>8, Zenon DEF ParseJobs
    <3>. QED
      BY <3>1 DEF Job
  <2>2. \A i \in Job : /\ parse_jobs[i].file = 1 /\ parse_jobs[i].from = (i - 1) * d
                       /\ parse_jobs[i].to = IF i * d < total THEN i * d ELSE total
    BY <1>2, <2>1 DEF LineRange
  <2>3. ASSUME NEW l \in 1..total PROVE \E j \in Job : InRange(parse_jobs[j], l)
    <3>1. PICK x \in Nat : x = l - 1 /\ x < total
      BY <2>3
    <3>2. PICK q \in Nat : q = x \div d
      OBVIOUS
    <3>3. q * d <= x /\ x < q * d + d
      BY <3>2
    <3>4. (q + 1) * d = q * d + d /\ q * d \in Nat
      OBVIOUS
    <3>5. total < w * d
      BY <1>0, <1>2, Steps, Zenon DEF Step
    <3>6. q < w
      <4>1. w * d <= q * d \/ q < w
        BY Monotone
      <4>. QED
        BY <3>1, <3>3, <3>4, <3>5, <4>1
    <3>7. q + 1 \in Job /\ q + 1 - 1 = q
      BY <2>1, <3>6
    <3>8. InRange(parse_jobs[q + 1], l)
      BY <2>2, <3>1, <3>3, <3>4, <3>7 DEF InRange
    <3>. QED
      BY <3>7, <3>8, Zenon
  <2>4. Covered
    BY <1>1, <2>0, <2>2, <2>3 DEF Covered
  <2>5. Apart
    <3>. SUFFICES ASSUME NEW i \in Job, NEW j \in Job, i < j, NEW l \in Nat \ {0}, NEW m \in Nat \ {0},
                         InRange(parse_jobs[i], l), InRange(parse_jobs[j], m)
                  PROVE  l < m
      BY <2>2, Zenon DEF Apart
    <3>0. i \in Nat /\ j - 1 \in Nat /\ i <= j - 1
      BY <2>1
    <3>1. i * d <= (j - 1) * d /\ i * d \in Nat /\ (j - 1) * d \in Nat
      BY <3>0, Monotone
    <3>2. l - 1 < i * d
      BY <2>2, <3>1 DEF InRange
    <3>3. (j - 1) * d <= m - 1
      BY <2>2, Zenon DEF InRange
    <3>. QED
      BY <3>1, <3>2, <3>3
  <2>. QED
    BY <2>4, <2>5
<1>9. CASE ~input.parallel_script /\ ~(total > LinesPerWorker * input.worker_num)
  <2>1. parse_jobs = <<WholeFile(1)>> /\ Len(input.files) = 1
    BY <1>0, <1>1, <1>9, InputAssumption, Zenon DEF ParseJobs
  <2>2. Job = {1} /\ parse_jobs[1] = WholeFile(1) /\ WholeFile(1).file = 1
    BY <2>1 DEF Job, WholeFile
  <2>3. Covered
    BY <1>6, <2>1, <2>2 DEF Covered
  <2>. QED
    BY <2>2, <2>3, Zenon DEF Apart
<1>. QED
  BY <1>7, <1>8, <1>9, Zenon

-----------------------------------------------------------------------------
(* The merge.  What was taken from the sources is what the actions of the  *)
(* thread are; nothing a source has left belongs before it in the script;  *)
(* and extract_actions() returns when the sources are exhausted.           *)
JobOf(i) == (i + 1) \div 2
KindsOf(i) == IF i % 2 = 1 THEN Branch ELSE {"error"}

TakenFrom == phase = "extract" => \A t \in Tid :
  /\ \A i \in Sources : pointers[t][i] <= Len(Source(t, i))
  /\ \A m \in 1..Len(actions[t]) : \E i \in Sources : \E k \in 1..pointers[t][i] : actions[t][m] = Source(t, i)[k]
  /\ \A i \in Sources : \A k \in 1..pointers[t][i] : \E m \in 1..Len(actions[t]) : actions[t][m] = Source(t, i)[k]
RestIsFurther == phase = "extract" => \A t \in Tid : \A i \in Sources : \A k \in 1..Len(Source(t, i)) :
  pointers[t][i] < k => \A m \in 1..Len(actions[t]) :
    IsError(actions[t][m]) = IsError(Source(t, i)[k]) /\ actions[t][m].ts = Source(t, i)[k].ts
      => EarlierLine(actions[t][m], Source(t, i)[k])
AllTaken ==
  /\ extracted \subseteq Tid /\ (extracted # {} => phase = "extract")
  /\ \A t \in extracted : \A i \in Sources : pointers[t][i] = Len(Source(t, i))

TakeInv == TakenFrom /\ RestIsFurther /\ AllTaken /\ FileOrder

(* A source has the branches or the errors of the range of one job, all of *)
(* them once the job is done.                                              *)
LEMMA SourceHolds ==
  ASSUME MergeInv, ParseInv, sorted = Job, NEW t \in Tid, NEW i \in Sources
  PROVE  LET j == JobOf(i)
         IN  /\ j \in Job /\ Content(j) \in Seq(Line)
             /\ Source(t, i) \in Seq(Act)
             /\ Elements(Source(t, i)) = Kept(parse_jobs[j], Content(j), Len(Content(j)), t, KindsOf(i))
             /\ LineOrder(Source(t, i))
<1>0. Len(parse_jobs) \in Nat
  BY DEF MergeInv, JobTypes
<1>1. i \in Nat /\ JobOf(i) \in Job
  BY <1>0 DEF Sources, Job, JobOf
<1>2. Source(t, i) = IF i % 2 = 1 THEN parsed_actions[JobOf(i)][t] ELSE error_actions[JobOf(i)][t]
  <2>1. i % 2 # 1 => i \div 2 = JobOf(i)
    BY <1>1 DEF JobOf
  <2>. QED
    BY <2>1, Zenon DEF Source, JobOf
<1>3. lnum[JobOf(i)] = Len(Content(JobOf(i)))
  BY <1>1, Zenon DEF ParseInv, ReadUpTo
<1>4. Source(t, i) \in Seq(Act)
  BY SourceType, Zenon DEF MergeInv
<1>5. Content(JobOf(i)) \in Seq(Line)
  <2>1. parse_jobs[JobOf(i)] \in [file : Nat \ {0}, from : Nat, to : Nat]
    BY <1>1, ElementType, Zenon DEF MergeInv, JobTypes, Job
  <2>. QED
    BY <2>1, FileType, Zenon DEF Content, MergeInv, JobTypes
<1>6. Elements(Source(t, i)) = Kept(parse_jobs[JobOf(i)], Content(JobOf(i)), Len(Content(JobOf(i))), t, KindsOf(i))
  BY <1>1, <1>2, <1>3, Zenon DEF ParseInv, SetsHold, KindsOf
<1>7. LineOrder(Source(t, i))
  BY <1>1, <1>2, Zenon DEF ParseInv, SetsInLineOrder
<1>. QED
  BY <1>1, <1>4, <1>5, <1>6, <1>7, Zenon

(* An element of a source knows its job. *)
LEMMA SourceElement ==
  ASSUME MergeInv, ParseInv, sorted = Job, NEW t \in Tid, NEW i \in Sources, NEW k \in 1..Len(Source(t, i))
  PROVE  LET a == Source(t, i)[k]
             j == JobOf(i)
         IN  /\ j \in Job /\ a \in Act
             /\ a.line \in 1..Len(Content(j)) /\ a.line \in Nat \ {0} /\ InRange(parse_jobs[j], a.line)
             /\ a.file = parse_jobs[j].file /\ a.tid = t
             /\ a = Action(Content(j)[a.line], parse_jobs[j].file, a.line)
             /\ a.ts = Content(j)[a.line].ts /\ a.kind \in KindsOf(i)
             /\ IsError(a) <=> i % 2 # 1
<1>. DEFINE a == Source(t, i)[k]
            j == JobOf(i)
<1>1. /\ j \in Job /\ Content(j) \in Seq(Line) /\ Source(t, i) \in Seq(Act)
      /\ Elements(Source(t, i)) = Kept(parse_jobs[j], Content(j), Len(Content(j)), t, KindsOf(i))
  BY SourceHolds, Zenon
<1>2. a \in Kept(parse_jobs[j], Content(j), Len(Content(j)), t, KindsOf(i)) /\ a \in Act
  BY <1>1, ElementType, Zenon DEF Elements
<1>3. Len(Content(j)) \in Nat
  BY <1>1
<1>. HIDE DEF a, j
<1>4. /\ a.line \in 1..Len(Content(j)) /\ Keeps(parse_jobs[j], Content(j), a.line, t, KindsOf(i))
      /\ a = Action(Content(j)[a.line], parse_jobs[j].file, a.line)
      /\ a.file = parse_jobs[j].file /\ a.tid = t /\ a.kind \in KindsOf(i) /\ a.ts = Content(j)[a.line].ts
  BY <1>2, <1>3, KeptFields
<1>5. a.line \in Nat \ {0}
  BY <1>3, <1>4
<1>6. IsError(a) <=> i % 2 # 1
  BY <1>4, Zenon DEF IsError, KindsOf, Branch
<1>. QED
  BY <1>1, <1>2, <1>4, <1>5, <1>6, Zenon DEF Keeps, a, j

(* The sources of a thread have what is kept of its lines, and only that. *)
LEMMA SourcesComplete ==
  ASSUME MergeInv, ParseInv, sorted = Job, phase # "assign", NEW t \in Tid
  PROVE  \A a : a \in KeptActions(t) <=> \E i \in Sources : \E k \in 1..Len(Source(t, i)) : a = Source(t, i)[k]
<1>0. input \in Inputs /\ Len(parse_jobs) \in Nat /\ input.files \in Seq(Seq(Line))
  BY InputAssumption DEF MergeInv, JobTypes, Input
<1>1. Covered
  BY <1>0, Division, Zenon DEF ParseInv, Divided
<1>2. \A a : a \in KeptActions(t) <=>
        \E f \in 1..Len(input.files) : \E l \in 1..Len(File(f)) :
          a = Action(File(f)[l], f, l) /\ a.tid = t /\ a.kind \in {"target", "mark", "error"}
  BY DEF KeptActions
<1>3. ASSUME NEW i \in Sources, NEW k \in 1..Len(Source(t, i))
      PROVE  Source(t, i)[k] \in KeptActions(t)
  <2>1. PICK a : a = Source(t, i)[k]
    BY Zenon
  <2>2. PICK j \in Job : j = JobOf(i)
    BY SourceElement, Zenon
  <2>3. /\ a.line \in 1..Len(Content(j)) /\ a.tid = t
        /\ a = Action(Content(j)[a.line], parse_jobs[j].file, a.line)
        /\ a.kind \in KindsOf(i)
    BY <2>1, <2>2, SourceElement
  <2>4. a.kind \in {"target", "mark", "error"}
    BY <2>3, Zenon DEF KindsOf, Branch
  <2>5. parse_jobs[j].file \in Nat \ {0}
    <3>1. parse_jobs[j] \in [file : Nat \ {0}, from : Nat, to : Nat]
      BY ElementType, Zenon DEF MergeInv, JobTypes, Job
    <3>. QED
      BY <3>1, Zenon
  <2>6. parse_jobs[j].file \in 1..Len(input.files)
    <3>1. Content(j) # <<>>
      BY <2>3
    <3>. QED
      BY <1>0, <2>5, <3>1 DEF Content, File
  <2>. QED
    BY <1>2, <2>1, <2>3, <2>4, <2>6, Zenon DEF Content
<1>4. ASSUME NEW f \in 1..Len(input.files), NEW l \in 1..Len(File(f)),
             File(f)[l].tid = t, File(f)[l].kind \in {"target", "mark", "error"}
      PROVE  \E i \in Sources : \E k \in 1..Len(Source(t, i)) : Action(File(f)[l], f, l) = Source(t, i)[k]
  <2>1. PICK j \in Job : parse_jobs[j].file = f /\ InRange(parse_jobs[j], l)
    BY <1>1, Zenon DEF Covered
  <2>2. Content(j) = File(f)
    BY <2>1, Zenon DEF Content
  <2>3. PICK i \in Sources : JobOf(i) = j /\ File(f)[l].kind \in KindsOf(i)
    <3>1. CASE File(f)[l].kind = "error"
      <4>1. 2 * j \in Sources /\ JobOf(2 * j) = j /\ (2 * j) % 2 # 1
        BY <1>0 DEF Job, Sources, JobOf
      <4>. QED
        BY <3>1, <4>1, Zenon DEF KindsOf
    <3>2. CASE File(f)[l].kind \in Branch
      <4>1. 2 * j - 1 \in Sources /\ JobOf(2 * j - 1) = j /\ (2 * j - 1) % 2 = 1
        BY <1>0 DEF Job, Sources, JobOf
      <4>. QED
        BY <3>2, <4>1, Zenon DEF KindsOf
    <3>. QED
      BY <1>4, <3>1, <3>2, Zenon DEF Branch
  <2>4. Elements(Source(t, i)) = Kept(parse_jobs[j], File(f), Len(File(f)), t, KindsOf(i))
    BY <2>2, <2>3, SourceHolds, Zenon
  <2>5. Keeps(parse_jobs[j], File(f), l, t, KindsOf(i))
    BY <1>4, <2>1, <2>3, Zenon DEF Keeps
  <2>6. Action(File(f)[l], f, l) \in Kept(parse_jobs[j], File(f), Len(File(f)), t, KindsOf(i))
    BY <2>1, <2>5, Zenon DEF Kept
  <2>. QED
    BY <2>4, <2>6, Zenon DEF Elements
<1>. QED
  BY <1>2, <1>3, <1>4, ActionFields

(* Time stamps are below UINT64_MAX: the end of extract_actions() finds    *)
(* every source exhausted.                                                 *)
LEMMA StampsFit ==
  ASSUME MergeInv, ParseInv, sorted = Job, NEW t \in Tid, NEW i \in Sources, NEW k \in 1..Len(Source(t, i))
  PROVE  Source(t, i)[k].ts \in Nat /\ Source(t, i)[k].ts < UINT64_MAX
<1>1. PICK j \in Job : j = JobOf(i)
  BY SourceElement, Zenon
<1>2. PICK a \in Act : a = Source(t, i)[k]
  BY SourceElement, Zenon
<1>3. a.line \in 1..Len(Content(j)) /\ a.ts = Content(j)[a.line].ts
  BY <1>1, <1>2, SourceElement
<1>4. parse_jobs[j].file \in Nat \ {0}
  <2>1. parse_jobs[j] \in [file : Nat \ {0}, from : Nat, to : Nat]
    BY ElementType, Zenon DEF MergeInv, JobTypes, Job
  <2>. QED
    BY <2>1, Zenon
<1>5. input \in Inputs /\ input.files \in Seq(Seq(Line))
  BY InputAssumption, Zenon DEF MergeInv, JobTypes, Input
<1>6. Content(j) = input.files[parse_jobs[j].file] /\ parse_jobs[j].file \in 1..Len(input.files)
  <2>1. Content(j) # <<>>
    BY <1>3
  <2>. QED
    BY <1>4, <1>5, <2>1 DEF Content, File
<1>7. Content(j)[a.line].ts < UINT64_MAX
  BY <1>3, <1>5, <1>6, InputAssumption, Zenon
<1>. QED
  BY <1>2, <1>3, <1>7, Zenon DEF Act

(* The order of two actions of the same kind in the sources is that of     *)
(* their lines.                                                            *)
LEMMA SourcesApart ==
  ASSUME MergeInv, ParseInv, sorted = Job, phase # "assign", NEW t \in Tid,
         NEW i \in Sources, NEW k \in 1..Len(Source(t, i)),
         NEW n \in Sources, NEW l \in 1..Len(Source(t, n)),
         IsError(Source(t, i)[k]) = IsError(Source(t, n)[l]), i < n
  PROVE  EarlierLine(Source(t, i)[k], Source(t, n)[l])
<1>0. Apart /\ Len(parse_jobs) \in Nat
  BY Division DEF ParseInv, Divided, MergeInv, JobTypes
<1>1. PICK a : a = Source(t, i)[k]
  BY Zenon
<1>2. PICK b : b = Source(t, n)[l]
  BY Zenon
<1>3. /\ JobOf(i) \in Job /\ a.line \in Nat \ {0} /\ InRange(parse_jobs[JobOf(i)], a.line)
      /\ a.file = parse_jobs[JobOf(i)].file /\ (IsError(a) <=> i % 2 # 1)
  BY <1>1, SourceElement
<1>4. /\ JobOf(n) \in Job /\ b.line \in Nat \ {0} /\ InRange(parse_jobs[JobOf(n)], b.line)
      /\ b.file = parse_jobs[JobOf(n)].file /\ (IsError(b) <=> n % 2 # 1)
  BY <1>2, SourceElement
<1>5. i % 2 = 1 <=> n % 2 = 1
  BY <1>1, <1>2, <1>3, <1>4, Zenon
<1>6. JobOf(i) < JobOf(n)
  BY <1>0, <1>5 DEF JobOf, Sources
<1>7. \/ parse_jobs[JobOf(i)].file < parse_jobs[JobOf(n)].file
      \/ parse_jobs[JobOf(i)].file = parse_jobs[JobOf(n)].file /\ a.line < b.line
  BY <1>0, <1>3, <1>4, <1>6, Zenon DEF Apart
<1>. QED
  BY <1>1, <1>2, <1>3, <1>4, <1>7, Zenon DEF EarlierLine

(* The action that a turn of the loop takes comes before every other       *)
(* action of the same time and kind that is left.                          *)
LEMMA TakenIsFirst ==
  ASSUME MergeInv, ParseInv, phase = "extract", NEW t \in Tid,
         NEW i \in Remaining(t), IsMin(t, i),
         NEW n \in Sources, NEW k \in 1..Len(Source(t, n)), pointers[t][n] < k,
         n = i => pointers[t][i] + 1 < k,
         IsError(NextAction(t, i)) = IsError(Source(t, n)[k]), NextAction(t, i).ts = Source(t, n)[k].ts
  PROVE  EarlierLine(NextAction(t, i), Source(t, n)[k])
<1>0. /\ sorted = Job /\ i \in Sources /\ pointers[t][i] \in Nat /\ pointers[t][n] \in Nat
      /\ Len(parse_jobs) \in Nat
  BY DEF MergeInv, MergeTypes, Remaining, JobTypes
<1>1. /\ Source(t, i) \in Seq(Act) /\ Source(t, n) \in Seq(Act) /\ LineOrder(Source(t, i))
      /\ Ordered(Source(t, n))
  BY <1>0, SourceHolds, SourceType, Zenon DEF MergeInv
<1>2. PICK x \in 1..Len(Source(t, i)) : x = pointers[t][i] + 1 /\ NextAction(t, i) = Source(t, i)[x]
  BY <1>0, <1>1 DEF Remaining, NextAction
<1>3. CASE n = i
  <2>1. Source(t, i)[x].line < Source(t, i)[k].line
    BY <1>1, <1>2, <1>3, Zenon DEF LineOrder
  <2>2. Source(t, i)[x].file = Source(t, i)[k].file
    BY <1>0, <1>3, SourceElement
  <2>. QED
    BY <1>2, <1>3, <2>1, <2>2, Zenon DEF EarlierLine
<1>4. CASE n # i
  <2>1. n \in Remaining(t) /\ pointers[t][n] + 1 \in 1..Len(Source(t, n)) /\ pointers[t][n] + 1 <= k
    BY <1>0, <1>1 DEF Remaining
  <2>2. NextAction(t, n).ts \in Nat /\ Source(t, n)[k].ts \in Nat
    BY <1>0, <2>1, StampsFit, Zenon DEF NextAction
  <2>3. NextAction(t, n).ts <= Source(t, n)[k].ts
    <3>1. CASE pointers[t][n] + 1 = k
      BY <2>2, <3>1 DEF NextAction
    <3>2. CASE pointers[t][n] + 1 < k
      BY <1>1, <2>1, <3>2, Zenon DEF NextAction, Ordered
    <3>. QED
      BY <1>0, <2>1, <3>1, <3>2
  <2>4. i <= n
    BY <2>1, <2>2, <2>3 DEF IsMin
  <2>5. i < n
    BY <1>0, <1>4, <2>4 DEF Sources
  <2>. QED
    BY <1>0, <1>2, <2>5, SourcesApart, Zenon
<1>. QED
  BY <1>3, <1>4, Zenon

-----------------------------------------------------------------------------
(* Before assign_thread_jobs() nothing is merged. *)
LEMMA TakeParsing ==
  ASSUME MergeInv, AllTaken, phase # "extract", phase' # "extract",
         actions' = actions, extracted' = extracted
  PROVE  TakeInv'
<1>1. \A t \in Tid : actions'[t] = <<>>
  BY Zenon DEF MergeInv, MergeTypes
<1>2. extracted' = {}
  BY Zenon DEF AllTaken
<1>. QED
  BY <1>1, <1>2 DEF TakeInv, TakenFrom, RestIsFurther, AllTaken, FileOrder

LEMMA TakeAssigned ==
  ASSUME MergeInv, MergeInv', AllTaken, AssignThreadJobs
  PROVE  TakeInv'
<1>1. \A t \in Tid : actions'[t] = <<>>
  BY Zenon DEF MergeInv, MergeTypes, AssignThreadJobs
<1>2. extracted' = {}
  BY Zenon DEF AllTaken, AssignThreadJobs
<1>3. Sources' = Sources /\ \A t \in Tid : \A i \in Sources : pointers'[t][i] = 0
  BY Zenon DEF AssignThreadJobs, parseVars, Sources
<1>4. \A t \in Tid : \A i \in Sources' : Len(Source(t, i)') \in Nat
  <2>1. \A t \in Tid : \A i \in Sources : Source(t, i) \in Seq(Act)
    BY SourceType, Zenon DEF MergeInv
  <2>2. \A t \in Tid : \A i \in Sources : Source(t, i)' = Source(t, i)
    BY Zenon DEF AssignThreadJobs, parseVars, Source
  <2>. QED
    BY <1>3, <2>1, <2>2
<1>5. TakenFrom'
  BY <1>1, <1>3, <1>4 DEF TakenFrom
<1>. QED
  BY <1>1, <1>2, <1>5 DEF TakeInv, RestIsFurther, AllTaken, FileOrder

(* Where pointers and actions stay, so does what is known of them. *)
LEMMA TakeKept ==
  ASSUME TakeInv, UNCHANGED <<phase, parseVars, pointers, actions>>
  PROVE  TakenFrom' /\ RestIsFurther' /\ FileOrder' /\ Sources' = Sources
         /\ \A t \in Tid : \A i \in Sources : Source(t, i)' = Source(t, i)
<1>1. /\ phase' = phase /\ pointers' = pointers /\ actions' = actions
      /\ Sources' = Sources /\ \A t \in Tid : \A i \in Sources : Source(t, i)' = Source(t, i)
  BY Zenon DEF parseVars, Sources, Source
<1>2. TakenFrom'
  BY <1>1 DEF TakeInv, TakenFrom
<1>3. RestIsFurther'
  BY <1>1 DEF TakeInv, RestIsFurther
<1>4. FileOrder'
  BY <1>1, Zenon DEF TakeInv, FileOrder
<1>. QED
  BY <1>1, <1>2, <1>3, <1>4, Zenon

LEMMA TakeDone ==
  ASSUME MergeInv, ParseInv, TakeInv, NEW t \in Tid, ExtractDone(t)
  PROVE  TakeInv'
<1>1. /\ phase = "extract" /\ phase' = phase /\ pointers' = pointers /\ actions' = actions
      /\ extracted' = extracted \cup {t} /\ UNCHANGED parseVars
      /\ \A i \in Remaining(t) : NextAction(t, i).ts >= UINT64_MAX
  BY Zenon DEF ExtractDone, Extracting
<1>2. /\ TakenFrom' /\ RestIsFurther' /\ FileOrder' /\ Sources' = Sources
      /\ \A u \in Tid : \A i \in Sources : Source(u, i)' = Source(u, i)
  BY <1>1, TakeKept, Zenon
<1>3. ASSUME NEW i \in Sources PROVE pointers[t][i] = Len(Source(t, i))
  <2>1. /\ pointers[t][i] \in Nat /\ Source(t, i) \in Seq(Act) /\ sorted = Job
        /\ pointers[t][i] <= Len(Source(t, i)) /\ UINT64_MAX \in Nat
    BY <1>1, SourceType, InputAssumption DEF MergeInv, MergeTypes, TakeInv, TakenFrom
  <2>2. ASSUME pointers[t][i] < Len(Source(t, i)) PROVE FALSE
    <3>1. i \in Remaining(t) /\ pointers[t][i] + 1 \in 1..Len(Source(t, i))
      BY <2>1, <2>2 DEF Remaining
    <3>2. NextAction(t, i).ts \in Nat /\ NextAction(t, i).ts < UINT64_MAX
      BY <2>1, <3>1, StampsFit, Zenon DEF NextAction
    <3>. QED
      BY <1>1, <2>1, <3>1, <3>2
  <2>. QED
    BY <2>1, <2>2
<1>4. AllTaken'
  BY <1>1, <1>2, <1>3 DEF TakeInv, AllTaken
<1>. QED
  BY <1>2, <1>4, Zenon DEF TakeInv

LEMMA TakeNext ==
  ASSUME MergeInv, ParseInv, TakeInv, NEW t \in Tid, ExtractNext(t)
  PROVE  TakeInv'
<1>1. /\ phase = "extract" /\ phase' = phase /\ UNCHANGED parseVars
      /\ extracted' = extracted /\ t \notin extracted
  BY Zenon DEF ExtractNext, Extracting
<1>2. PICK i \in Remaining(t) :
        /\ IsMin(t, i)
        /\ actions' = [actions EXCEPT ![t] = Append(@, NextAction(t, i))]
        /\ pointers' = [pointers EXCEPT ![t][i] = @ + 1]
  BY Zenon DEF ExtractNext
<1>3. Sources' = Sources /\ \A u \in Tid : \A n \in Sources : Source(u, n)' = Source(u, n)
  BY <1>1, Zenon DEF parseVars, Sources, Source
<1>4. /\ i \in Sources /\ pointers \in [Tid -> [Sources -> Nat]] /\ actions \in [Tid -> Seq(Act)]
      /\ sorted = Job
  BY <1>1, Zenon DEF MergeInv, MergeTypes, Remaining
<1>5. \A u \in Tid : \A n \in Sources : Source(u, n) \in Seq(Act) /\ Len(Source(u, n)) \in Nat
  <2>1. \A u \in Tid : \A n \in Sources : Source(u, n) \in Seq(Act)
    BY SourceType, Zenon DEF MergeInv
  <2>. QED
    BY <2>1
<1>6. PICK x \in Nat : x = pointers[t][i] + 1 /\ x \in 1..Len(Source(t, i)) /\ NextAction(t, i) = Source(t, i)[x]
  BY <1>4, <1>5 DEF Remaining, NextAction
<1>7. PICK a \in Act : a = NextAction(t, i)
  BY <1>4, <1>5, <1>6, ElementType, Zenon
<1>8. PICK y \in Nat : y = Len(actions[t])
  BY <1>4
<1>9. /\ Len(actions'[t]) = y + 1 /\ actions'[t][y + 1] = a
      /\ \A m \in 1..y : actions'[t][m] = actions[t][m]
      /\ \A u \in Tid : u # t => actions'[u] = actions[u]
  <2>1. actions'[t] = Append(actions[t], a) /\ \A u \in Tid : u # t => actions'[u] = actions[u]
    BY <1>2, <1>4, <1>7, Zenon
  <2>. QED
    BY <1>4, <1>7, <1>8, <2>1, AppendAt
<1>10. /\ pointers'[t][i] = x
       /\ \A u \in Tid : \A n \in Sources : u # t \/ n # i => pointers'[u][n] = pointers[u][n]
  BY <1>2, <1>4, <1>6, Zenon
<1>11. \A u \in Tid : \A n \in Sources : pointers[u][n] \in Nat /\ pointers'[u][n] \in Nat /\ pointers[u][n] <= pointers'[u][n]
  <2>. TAKE u \in Tid
  <2>. TAKE n \in Sources
  <2>1. CASE u = t /\ n = i
    BY <1>4, <1>6, <1>10, <2>1
  <2>2. CASE u # t \/ n # i
    BY <1>4, <1>10, <2>2
  <2>. QED
    BY <2>1, <2>2, Zenon
<1>12. TakenFrom'
  <2>. SUFFICES ASSUME NEW u \in Tid
                PROVE  /\ \A n \in Sources : pointers'[u][n] <= Len(Source(u, n))
                       /\ \A m \in 1..Len(actions'[u]) : \E n \in Sources : \E k \in 1..pointers'[u][n] :
                            actions'[u][m] = Source(u, n)[k]
                       /\ \A n \in Sources : \A k \in 1..pointers'[u][n] : \E m \in 1..Len(actions'[u]) :
                            actions'[u][m] = Source(u, n)[k]
    BY <1>3 DEF TakenFrom
  <2>0. /\ \A n \in Sources : pointers[u][n] <= Len(Source(u, n))
        /\ \A m \in 1..Len(actions[u]) : \E n \in Sources : \E k \in 1..pointers[u][n] :
             actions[u][m] = Source(u, n)[k]
        /\ \A n \in Sources : \A k \in 1..pointers[u][n] : \E m \in 1..Len(actions[u]) :
             actions[u][m] = Source(u, n)[k]
    BY <1>1, Zenon DEF TakeInv, TakenFrom
  <2>1. CASE u # t
    <3>1. actions'[u] = actions[u] /\ \A n \in Sources : pointers'[u][n] = pointers[u][n]
      BY <1>9, <1>10, <2>1, Zenon
    <3>2. \A n \in Sources : pointers'[u][n] <= Len(Source(u, n))
      BY <2>0, <3>1, Zenon
    <3>3. ASSUME NEW m \in 1..Len(actions'[u])
          PROVE  \E n \in Sources : \E k \in 1..pointers'[u][n] : actions'[u][m] = Source(u, n)[k]
      <4>1. PICK n \in Sources : \E k \in 1..pointers[u][n] : actions[u][m] = Source(u, n)[k]
        BY <2>0, <3>1, Zenon
      <4>. QED
        BY <3>1, <4>1, Zenon
    <3>4. ASSUME NEW n \in Sources, NEW k \in 1..pointers'[u][n]
          PROVE  \E m \in 1..Len(actions'[u]) : actions'[u][m] = Source(u, n)[k]
      BY <2>0, <3>1
    <3>. QED
      BY <3>2, <3>3, <3>4, Zenon
  <2>2. CASE u = t
    <3>1. \A n \in Sources : pointers'[t][n] <= Len(Source(t, n))
      BY <1>5, <1>6, <1>10, <2>0, <2>2
    <3>2. ASSUME NEW m \in 1..(y + 1)
          PROVE  \E n \in Sources : \E k \in 1..pointers'[t][n] : actions'[t][m] = Source(t, n)[k]
      <4>1. CASE m = y + 1
        BY <1>4, <1>6, <1>7, <1>9, <1>10, <4>1
      <4>2. CASE m \in 1..y
        <5>0. PICK n \in Sources : \E k \in 1..pointers[t][n] : actions[t][m] = Source(t, n)[k]
          BY <1>8, <2>0, <2>2, <4>2, Zenon
        <5>1. PICK k \in 1..pointers[t][n] : actions[t][m] = Source(t, n)[k]
          BY <5>0, Zenon
        <5>2. k \in 1..pointers'[t][n]
          BY <1>11, <5>1
        <5>. QED
          BY <1>9, <4>2, <5>1, <5>2, Zenon
      <4>. QED
        BY <4>1, <4>2
    <3>3. ASSUME NEW n \in Sources, NEW k \in 1..pointers'[t][n]
          PROVE  \E m \in 1..(y + 1) : actions'[t][m] = Source(t, n)[k]
      <4>1. CASE n = i /\ k = x
        <5>1. y + 1 \in 1..(y + 1)
          OBVIOUS
        <5>2. actions'[t][y + 1] = Source(t, n)[k]
          BY <1>6, <1>7, <1>9, <4>1, Zenon
        <5>. QED
          BY <5>1, <5>2, Zenon
      <4>2. CASE ~(n = i /\ k = x)
        <5>1. k \in 1..pointers[t][n]
          <6>1. CASE n = i
            BY <1>4, <1>6, <1>10, <4>2, <6>1
          <6>2. CASE n # i
            BY <1>10, <6>2, Zenon
          <6>. QED
            BY <6>1, <6>2, Zenon
        <5>2. PICK m \in 1..y : actions[t][m] = Source(t, n)[k]
          BY <1>8, <2>0, <2>2, <5>1
        <5>. QED
          BY <1>9, <5>2
      <4>. QED
        BY <4>1, <4>2, Zenon
    <3>4. 1..Len(actions'[t]) = 1..(y + 1)
      BY <1>9, Zenon
    <3>5. \A m \in 1..Len(actions'[t]) : \E n \in Sources : \E k \in 1..pointers'[t][n] :
            actions'[t][m] = Source(t, n)[k]
      BY <3>2, <3>4, Zenon
    <3>6. \A n \in Sources : \A k \in 1..pointers'[t][n] : \E m \in 1..Len(actions'[t]) :
            actions'[t][m] = Source(t, n)[k]
      BY <3>3, <3>4, Zenon
    <3>. QED
      BY <2>2, <3>1, <3>5, <3>6, Zenon
  <2>. QED
    BY <2>1, <2>2, Zenon
<1>13. RestIsFurther'
  <2>. SUFFICES ASSUME NEW u \in Tid, NEW n \in Sources, NEW k \in 1..Len(Source(u, n)), pointers'[u][n] < k,
                       NEW m \in 1..Len(actions'[u]),
                       IsError(actions'[u][m]) = IsError(Source(u, n)[k]), actions'[u][m].ts = Source(u, n)[k].ts
                PROVE  EarlierLine(actions'[u][m], Source(u, n)[k])
    BY <1>3, Zenon DEF RestIsFurther
  <2>0. k \in Nat /\ pointers[u][n] < k
    BY <1>5, <1>11
  <2>1. CASE u # t
    BY <1>1, <1>9, <2>0, <2>1, Zenon DEF TakeInv, RestIsFurther
  <2>2. CASE u = t /\ m \in 1..y
    BY <1>1, <1>8, <1>9, <2>0, <2>2, Zenon DEF TakeInv, RestIsFurther
  <2>3. CASE u = t /\ m = y + 1
    <3>1. actions'[u][m] = NextAction(t, i)
      BY <1>7, <1>9, <2>3, Zenon
    <3>2. n = i => pointers[t][i] + 1 < k
      BY <1>6, <1>10, <2>3, Zenon
    <3>. QED
      BY <1>1, <1>2, <2>0, <2>3, <3>1, <3>2, TakenIsFirst, Zenon
  <2>. QED
    BY <1>9, <2>1, <2>2, <2>3
<1>14. FileOrder'
  <2>. SUFFICES ASSUME NEW u \in Tid, NEW k \in 1..Len(actions'[u]), NEW l \in 1..Len(actions'[u]), k < l,
                       IsError(actions'[u][k]) = IsError(actions'[u][l]), actions'[u][k].ts = actions'[u][l].ts
                PROVE  EarlierLine(actions'[u][k], actions'[u][l])
    BY Zenon DEF FileOrder
  <2>1. CASE u # t
    BY <1>9, <2>1, Zenon DEF TakeInv, FileOrder
  <2>2. CASE u = t /\ l \in 1..y
    <3>1. k \in 1..y
      BY <1>9, <2>2
    <3>. QED
      BY <1>8, <1>9, <2>2, <3>1, Zenon DEF TakeInv, FileOrder
  <2>3. CASE u = t /\ l = y + 1
    <3>1. k \in 1..y /\ actions'[t][k] = actions[t][k] /\ actions'[t][l] = Source(t, i)[x]
      BY <1>6, <1>7, <1>9, <2>3
    <3>2. pointers[t][i] < x
      BY <1>4, <1>6
    <3>. QED
      BY <1>1, <1>4, <1>6, <1>8, <2>3, <3>1, <3>2, Zenon DEF TakeInv, RestIsFurther
  <2>. QED
    BY <1>9, <2>1, <2>2, <2>3
<1>15. AllTaken'
  BY <1>1, <1>3, <1>10 DEF TakeInv, AllTaken
<1>. QED
  BY <1>12, <1>13, <1>14, <1>15, Zenon DEF TakeInv

-----------------------------------------------------------------------------
(* The range of time *)
LOCAL INSTANCE FiniteSetTheorems

LEMMA PigeonholeHolds == Pigeonhole
<1>. SUFFICES ASSUME NEW n \in Nat, NEW p \in [1..n -> 1..n],
                     \A k, l \in 1..n : k # l => p[k] # p[l]
              PROVE  \A l \in 1..n : \E k \in 1..n : p[k] = l
  BY Zenon DEF Pigeonhole
<1>1. p \in Injection(1..n, 1..n)
  BY Zenon DEF Injection, IsInjective
<1>2. IsFiniteSet(1..n)
  BY FS_Interval
<1>3. p \in Surjection(1..n, 1..n)
  BY <1>1, <1>2, FS_Injection, Zenon
<1>. QED
  BY <1>3, Zenon DEF Surjection

(* Every nonempty set of natural numbers has a least element.              *)
LEMMA LeastNat ==
  ASSUME NEW S, S \subseteq Nat, S # {}
  PROVE  \E m \in S : \A k \in S : m <= k
<1>1. IsWellFoundedOn(OpToRel(<, Nat), Nat)
  BY NatLessThanWellFounded, Zenon
<1>2. PICK m \in S : \A k \in S : ~(<<k, m>> \in OpToRel(<, Nat))
  BY <1>1, WFMin, Zenon
<1>3. \A k \in S : k \in Nat /\ ~(k < m)
  BY <1>2, Zenon DEF OpToRel
<1>. QED
  BY <1>3

(* A bounded one has a greatest element.                                   *)
LEMMA GreatestNat ==
  ASSUME NEW S, S \subseteq Nat, S # {}, NEW b \in Nat, \A x \in S : x <= b
  PROVE  \E m \in S : \A k \in S : k <= m
<1>1. PICK T : T = {b - x : x \in S}
  BY Zenon
<1>2. T \subseteq Nat /\ T # {}
  <2>1. \A x \in S : b - x \in Nat
    OBVIOUS
  <2>. QED
    BY <1>1, <2>1, Zenon
<1>3. PICK y \in T : \A z \in T : y <= z
  BY <1>2, LeastNat, Zenon
<1>4. PICK m \in S : y = b - m
  BY <1>1, Zenon
<1>5. ASSUME NEW k \in S PROVE k <= m
  <2>1. b - k \in T /\ k \in Nat /\ m \in Nat
    BY <1>1, Zenon
  <2>2. b - m <= b - k
    BY <1>3, <1>4, <2>1, Zenon
  <2>. QED
    BY <2>1, <2>2
<1>. QED
  BY <1>5, Zenon

(* Two sets have the same least element when each of the one has one below *)
(* it in the other; and so for the greatest.                               *)
LEMMA SameLeast ==
  ASSUME NEW S, S \subseteq Nat, NEW T, T \subseteq Nat, S # {},
         \A x \in S : \E y \in T : y <= x, \A y \in T : \E x \in S : x <= y
  PROVE  Least(S) = Least(T)
<1>1. PICK m \in S : \A k \in S : m <= k
  BY LeastNat, Zenon
<1>2. m \in T /\ \A k \in T : m <= k
  <2>1. \A k \in T : m <= k
    <3>. TAKE k \in T
    <3>1. PICK x \in S : x <= k
      BY Zenon
    <3>2. m <= x /\ m \in Nat /\ x \in Nat /\ k \in Nat
      BY <1>1, Zenon
    <3>. QED
      BY <3>1, <3>2
  <2>2. PICK y \in T : y <= m
    BY Zenon
  <2>3. y = m
    <3>1. m <= y /\ y \in Nat /\ m \in Nat
      BY <2>1, Zenon
    <3>. QED
      BY <2>2, <3>1
  <2>. QED
    BY <2>1, <2>3, Zenon
<1>3. \A k \in S : (\A y \in S : k <= y) => k = m
  BY <1>1
<1>4. \A k \in T : (\A y \in T : k <= y) => k = m
  BY <1>2
<1>5. Least(S) = m
  BY <1>1, <1>3, Zenon DEF Least
<1>6. Least(T) = m
  BY <1>2, <1>4, Zenon DEF Least
<1>. QED
  BY <1>5, <1>6, Zenon

LEMMA SameGreatest ==
  ASSUME NEW S, S \subseteq Nat, NEW T, T \subseteq Nat, S # {}, NEW b \in Nat, \A x \in S : x <= b,
         \A x \in S : \E y \in T : x <= y, \A y \in T : \E x \in S : y <= x
  PROVE  Greatest(S) = Greatest(T)
<1>1. PICK m \in S : \A k \in S : k <= m
  BY GreatestNat, Zenon
<1>2. m \in T /\ \A k \in T : k <= m
  <2>1. \A k \in T : k <= m
    <3>. TAKE k \in T
    <3>1. PICK x \in S : k <= x
      BY Zenon
    <3>2. x <= m /\ m \in Nat /\ x \in Nat /\ k \in Nat
      BY <1>1, Zenon
    <3>. QED
      BY <3>1, <3>2
  <2>2. PICK y \in T : m <= y
    BY Zenon
  <2>3. y = m
    <3>1. y <= m /\ y \in Nat /\ m \in Nat
      BY <2>1, Zenon
    <3>. QED
      BY <2>2, <3>1
  <2>. QED
    BY <2>1, <2>3, Zenon
<1>3. \A k \in S : (\A y \in S : k >= y) => k = m
  BY <1>1
<1>4. \A k \in T : (\A y \in T : k >= y) => k = m
  BY <1>2
<1>5. Greatest(S) = m
  <2>1. \A y \in S : m >= y
    BY <1>1, Zenon
  <2>. QED
    BY <1>3, <2>1, Zenon DEF Greatest
<1>6. Greatest(T) = m
  <2>1. \A y \in T : m >= y
    BY <1>2, Zenon
  <2>. QED
    BY <1>2, <1>4, <2>1, Zenon DEF Greatest
<1>. QED
  BY <1>5, <1>6, Zenon

RealInv == (phase # "extract" => real = <<UINT64_MAX, 0>>) /\ RealSpansActions

(* The first and the last action of every set that is in order bound the   *)
(* time stamps of all.                                                     *)
LEMMA RealAssigned ==
  ASSUME MergeInv, ParseInv, RealInv, AssignThreadJobs
  PROVE  RealInv'
<1>0. /\ input' = input /\ phase = "parse" /\ phase' = "extract" /\ sorted = Job /\ real = <<UINT64_MAX, 0>>
      /\ real' = <<Least({real[1]} \cup {MinTimestamp(s) : s \in Sets}),
                   Greatest({real[2]} \cup {MaxTimestamp(s) : s \in Sets})>>
  BY Zenon DEF AssignThreadJobs, RealInv
<1>1. PICK St : St = {a.ts : a \in UNION {KeptActions(t) : t \in Tid}}
  BY Zenon
<1>2. UINT64_MAX \in Nat
  BY InputAssumption, Zenon
<1>3. PICK Mi : Mi = {UINT64_MAX} \cup {MinTimestamp(s) : s \in Sets}
  BY Zenon
<1>4. PICK Ma : Ma = {0} \cup {MaxTimestamp(s) : s \in Sets}
  BY Zenon
<1>5. real' = <<Least(Mi), Greatest(Ma)>>
  BY <1>0, <1>3, <1>4, Zenon
<1>6. \A t \in Tid : \A a : a \in KeptActions(t) <=>
        \E i \in Sources : \E k \in 1..Len(Source(t, i)) : a = Source(t, i)[k]
  BY <1>0, SourcesComplete, Zenon
<1>7. ASSUME NEW s \in Sets
      PROVE  /\ s \in Seq(Act) /\ Len(s) \in Nat \ {0} /\ Ordered(s)
             /\ \A k \in 1..Len(s) : s[k].ts \in St /\ s[k].ts \in Nat /\ s[k].ts < UINT64_MAX
  <2>1. PICK t \in Tid, i \in Sources : s = Source(t, i) /\ s # <<>>
    BY DEF Sets
  <2>2. s \in Seq(Act) /\ Ordered(s)
    BY <1>0, <2>1, SourceType, Zenon DEF MergeInv
  <2>3. \A k \in 1..Len(s) : s[k] \in KeptActions(t) /\ s[k].ts \in Nat /\ s[k].ts < UINT64_MAX
    BY <1>0, <1>6, <2>1, StampsFit, Zenon
  <2>. QED
    BY <1>1, <2>1, <2>2, <2>3
<1>8. ASSUME NEW x \in St
      PROVE  x \in Nat /\ x < UINT64_MAX /\ \E s \in Sets : \E k \in 1..Len(s) : x = s[k].ts
  <2>1. PICK t \in Tid : \E a \in KeptActions(t) : x = a.ts
    BY <1>1, Zenon
  <2>2. PICK i \in Sources : \E k \in 1..Len(Source(t, i)) : x = Source(t, i)[k].ts
    BY <1>6, <2>1
  <2>3. Source(t, i) \in Sets
    BY <2>2 DEF Sets
  <2>. QED
    BY <1>7, <2>2, <2>3, Zenon
<1>9. ASSUME NEW s \in Sets
      PROVE  /\ MinTimestamp(s) \in St /\ MaxTimestamp(s) \in St
             /\ \A k \in 1..Len(s) : MinTimestamp(s) <= s[k].ts /\ s[k].ts <= MaxTimestamp(s)
  <2>1. s \in Seq(Act) /\ Len(s) \in Nat \ {0} /\ Ordered(s) /\ 1 \in 1..Len(s) /\ Len(s) \in 1..Len(s)
    BY <1>7
  <2>2. \A k \in 1..Len(s) : s[k].ts \in Nat
    BY <1>7, Zenon
  <2>3. ASSUME NEW k \in 1..Len(s) PROVE s[1].ts <= s[k].ts /\ s[k].ts <= s[Len(s)].ts
    <3>1. s[1].ts <= s[k].ts
      <4>1. CASE k = 1
        BY <2>2, <4>1
      <4>2. CASE 1 < k
        BY <2>1, <4>2, Zenon DEF Ordered
      <4>. QED
        BY <2>1, <4>1, <4>2
    <3>2. s[k].ts <= s[Len(s)].ts
      <4>1. CASE k = Len(s)
        BY <2>2, <4>1
      <4>2. CASE k < Len(s)
        BY <2>1, <4>2, Zenon DEF Ordered
      <4>. QED
        BY <2>1, <4>1, <4>2
    <3>. QED
      BY <3>1, <3>2, Zenon
  <2>. QED
    BY <1>7, <2>1, <2>3, Zenon DEF MinTimestamp, MaxTimestamp
<1>10. St \subseteq Nat /\ Mi \subseteq Nat /\ Ma \subseteq Nat
  BY <1>2, <1>3, <1>4, <1>8, <1>9
<1>11. ASSUME St # {} PROVE Least(Mi) = Least(St)
  <2>1. \A x \in St : \E y \in Mi : y <= x
    BY <1>3, <1>8, <1>9, Zenon
  <2>2. \A y \in Mi : \E x \in St : x <= y
    <3>. TAKE y \in Mi
    <3>1. CASE y = UINT64_MAX
      <4>1. PICK x \in St : TRUE
        BY <1>11, Zenon
      <4>2. x \in Nat /\ x < UINT64_MAX
        BY <1>8, Zenon
      <4>. QED
        BY <1>2, <3>1, <4>2
    <3>2. CASE y \in St
      BY <1>10, <3>2
    <3>. QED
      BY <1>3, <1>9, <3>1, <3>2, Zenon
  <2>3. Mi # {}
    BY <1>3, Zenon
  <2>. QED
    BY <1>10, <2>1, <2>2, <2>3, SameLeast, Zenon
<1>12. ASSUME St # {} PROVE Greatest(Ma) = Greatest(St)
  <2>1. \A x \in St : \E y \in Ma : x <= y
    BY <1>4, <1>8, <1>9, Zenon
  <2>2. \A y \in Ma : \E x \in St : y <= x
    <3>. TAKE y \in Ma
    <3>1. CASE y = 0
      <4>1. PICK x \in St : TRUE
        BY <1>12
      <4>2. x \in Nat
        BY <1>8, Zenon
      <4>. QED
        BY <3>1, <4>2
    <3>2. CASE y \in St
      BY <1>10, <3>2
    <3>. QED
      BY <1>4, <1>9, <3>1, <3>2, Zenon
  <2>3. Ma # {} /\ \A y \in Ma : y <= UINT64_MAX
    <3>. SUFFICES ASSUME NEW y \in Ma PROVE y <= UINT64_MAX
      BY <1>4, Zenon
    <3>1. CASE y = 0
      BY <1>2, <3>1
    <3>2. CASE y \in St
      BY <1>2, <1>8, <3>2
    <3>. QED
      BY <1>4, <1>9, <3>1, <3>2
  <2>. QED
    BY <1>2, <1>10, <2>1, <2>2, <2>3, SameGreatest, Zenon
<1>13. \A t \in Tid : KeptActions(t)' = KeptActions(t)
  BY <1>0 DEF KeptActions, File
<1>14. RealSpansActions'
  BY <1>1, <1>5, <1>11, <1>12, <1>13, Zenon DEF RealSpansActions
<1>. QED
  BY <1>0, <1>14, Zenon DEF RealInv

LEMMA RealKept ==
  ASSUME RealInv, input' = input, real' = real, phase' = "extract" <=> phase = "extract"
  PROVE  RealInv'
<1>1. \A t \in Tid : KeptActions(t)' = KeptActions(t)
  BY DEF KeptActions, File
<1>. QED
  BY <1>1, Zenon DEF RealInv, RealSpansActions

-----------------------------------------------------------------------------
ScriptInv == ParseInv /\ TakeInv /\ RealInv

LEMMA ScriptInit == ASSUME Init PROVE ScriptInv
<1>1. ParseInv
  BY ParseInit, Zenon
<1>2. TakeInv
  BY DEF Init, TakeInv, TakenFrom, RestIsFurther, AllTaken, FileOrder
<1>3. RealInv
  BY Zenon DEF Init, RealInv, RealSpansActions
<1>. QED
  BY <1>1, <1>2, <1>3, Zenon DEF ScriptInv

LEMMA ScriptNext == MergeInv /\ MergeInv' /\ ScriptInv /\ [Next]_vars => ScriptInv'
<1>. SUFFICES ASSUME MergeInv, MergeInv', ScriptInv, [Next]_vars PROVE ScriptInv'
  BY Zenon
<1>0. ParseInv /\ TakeInv /\ RealInv /\ AllTaken
  BY Zenon DEF ScriptInv, TakeInv
<1>1. CASE AssignParseJobs
  <2>1. phase = "assign" /\ phase' = "parse" /\ actions' = actions /\ extracted' = extracted /\ input' = input /\ real' = real
    BY <1>1, Zenon DEF AssignParseJobs, threadVars
  <2>. QED
    BY <1>0, <1>1, <2>1, ParseAssigned, TakeParsing, RealKept, Zenon DEF ScriptInv
<1>2. CASE AssignThreadJobs
  <2>1. UNCHANGED <<input, parseVars>> /\ phase # "assign"
    BY <1>2, Zenon DEF AssignThreadJobs
  <2>. QED
    BY <1>0, <1>2, <2>1, ParseUnchanged, TakeAssigned, RealAssigned, Zenon DEF ScriptInv
<1>3. ASSUME NEW j \in Job, ReadLine(j) \/ SortActions(j) PROVE ScriptInv'
  <2>1. phase = "parse" /\ phase' = "parse" /\ actions' = actions /\ extracted' = extracted /\ input' = input /\ real' = real
    BY <1>3, Zenon DEF ReadLine, SortActions, threadVars
  <2>. QED
    BY <1>0, <1>3, <2>1, ParseRead, ParseSorted, PigeonholeHolds, TakeParsing, RealKept DEF ScriptInv
<1>4. ASSUME NEW t \in Tid, ExtractNext(t) \/ ExtractDone(t) PROVE ScriptInv'
  <2>1. UNCHANGED <<input, parseVars>> /\ phase' = phase /\ real' = real
    BY <1>4, Zenon DEF ExtractNext, ExtractDone
  <2>2. ParseInv' /\ RealInv'
    BY <1>0, <2>1, ParseUnchanged, RealKept, Zenon
  <2>. QED
    BY <1>0, <1>4, <2>2, TakeNext, TakeDone, Zenon DEF ScriptInv
<1>5. CASE UNCHANGED vars
  <2>1. UNCHANGED <<input, parseVars>> /\ phase' = phase /\ real' = real /\ pointers' = pointers
        /\ actions' = actions /\ extracted' = extracted
    BY <1>5, Zenon DEF vars, threadVars
  <2>2. ParseInv' /\ RealInv'
    BY <1>0, <2>1, ParseUnchanged, RealKept, Zenon
  <2>3. TakenFrom' /\ RestIsFurther' /\ FileOrder' /\ Sources' = Sources
        /\ \A t \in Tid : \A i \in Sources : Source(t, i)' = Source(t, i)
    BY <1>0, <2>1, TakeKept, Zenon
  <2>4. AllTaken'
    BY <1>0, <2>1, <2>3, Zenon DEF AllTaken
  <2>. QED
    BY <2>2, <2>3, <2>4, Zenon DEF ScriptInv, TakeInv
<1>. QED
  BY <1>1, <1>2, <1>3, <1>4, <1>5, Zenon DEF Next

(* The invariant about the content of the sets and of the merge *)
THEOREM ScriptInvariant == Spec => []ScriptInv
BY ScriptInit, ScriptNext, MergeInvariant, PTL DEF Spec

(* The order of the merge does not depend on how the script was divided:   *)
(* branches of one time stamp keep the order perf wrote them in, and so do *)
(* errors.                                                                 *)
THEOREM MergeKeepsFileOrder == Spec => []FileOrder
<1>1. ScriptInv => FileOrder
  BY Zenon DEF ScriptInv, TakeInv
<1>. QED
  BY <1>1, ScriptInvariant, PTL

(* The analysis of a thread sees every line of the script that is kept for *)
(* it and nothing else: the assertion at the end of extract_actions().     *)
THEOREM MergeDropsNothing == Spec => []NothingDropped
<1>1. MergeInv /\ ScriptInv => NothingDropped
  <2>. SUFFICES ASSUME MergeInv, ScriptInv, NEW t \in extracted
                PROVE  {actions[t][k] : k \in 1..Len(actions[t])} = KeptActions(t)
    BY Zenon DEF NothingDropped
  <2>1. /\ t \in Tid /\ phase = "extract" /\ sorted = Job
        /\ \A i \in Sources : pointers[t][i] = Len(Source(t, i))
    BY Zenon DEF ScriptInv, TakeInv, AllTaken, MergeInv, MergeTypes
  <2>2. \A a : a \in KeptActions(t) <=> \E i \in Sources : \E k \in 1..Len(Source(t, i)) : a = Source(t, i)[k]
    BY <2>1, SourcesComplete, Zenon DEF ScriptInv
  <2>3. \A m \in 1..Len(actions[t]) : \E i \in Sources : \E k \in 1..Len(Source(t, i)) : actions[t][m] = Source(t, i)[k]
    <3>. TAKE m \in 1..Len(actions[t])
    <3>1. PICK i \in Sources : \E k \in 1..pointers[t][i] : actions[t][m] = Source(t, i)[k]
      BY <2>1, Zenon DEF ScriptInv, TakeInv, TakenFrom
    <3>. QED
      BY <2>1, <3>1, Zenon
  <2>4. \A i \in Sources : \A k \in 1..Len(Source(t, i)) : \E m \in 1..Len(actions[t]) : actions[t][m] = Source(t, i)[k]
    BY <2>1 DEF ScriptInv, TakeInv, TakenFrom
  <2>5. ASSUME NEW m \in 1..Len(actions[t])
        PROVE  actions[t][m] \in KeptActions(t)
    BY <2>2, <2>3, Zenon
  <2>6. ASSUME NEW a \in KeptActions(t)
        PROVE  \E m \in 1..Len(actions[t]) : actions[t][m] = a
    <3>1. PICK i \in Sources : \E k \in 1..Len(Source(t, i)) : a = Source(t, i)[k]
      BY <2>2, <2>6, Zenon
    <3>2. PICK k \in 1..Len(Source(t, i)) : a = Source(t, i)[k]
      BY <3>1, Zenon
    <3>. QED
      BY <2>4, <3>2, Zenon
  <2>7. PICK S, A, n : S = KeptActions(t) /\ A = actions[t] /\ n = Len(actions[t])
    BY Zenon
  <2>8. (\A m \in 1..n : A[m] \in S) /\ (\A a \in S : \E m \in 1..n : A[m] = a)
    BY <2>5, <2>6, <2>7, Zenon
  <2>9. {A[m] : m \in 1..n} = S
    BY <2>8
  <2>. QED
    BY <2>7, <2>9, Zenon
<1>. QED
  BY <1>1, MergeInvariant, ScriptInvariant, PTL

(* The real trace time that is printed begins with the first and ends with *)
(* the last kept line of all threads.                                      *)
THEOREM RealIsSpan == Spec => []RealSpansActions
<1>1. ScriptInv => RealSpansActions
  BY Zenon DEF ScriptInv, RealInv
<1>. QED
  BY <1>1, ScriptInvariant, PTL
=============================================================================

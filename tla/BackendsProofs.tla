--------------------------- MODULE BackendsProofs ---------------------------
(***************************************************************************)
(* Proofs about Backends, for any number of calls, any number of them at   *)
(* the same time, and any number of retries.                               *)
(***************************************************************************)
EXTENDS Backends, SequenceTheorems, TLAPS

Phases == {"none", "live", "deleting", "deleted", "purging"}
Entries == [phase : Phases, vers : Seq(Values), id : Nat]

(* The kinds whose Create is one request that stores the value, or none.   *)
Atomic == {"mem", "aws", "vault2", "fortanix", "entrust", "gemalto"}

(* Only KeyVault takes its time to delete, and only a file or a GCP secret *)
(* is there before its value is.                                           *)
EntryInv ==
    /\ entry \in Entries
    /\ kind # "azure" => entry.phase \in {"none", "live"}
    /\ Live /\ kind \notin Files \cup {"gcp"} => entry.vers # <<>>

(* An entry that is there was made by at most one call, a Create.          *)
MadeInv ==
    /\ \A c \in Calls :
           /\ pc[c] # "idle" => c <= calls
           /\ made[c] # "no" => op[c] = "create" /\ c <= calls
           /\ made[c] = "here" => Live
    /\ \A c, d \in Calls : made[c] = "here" /\ made[d] = "here" => c = d

(* A Create that returns nil, or is about to store the value, has made the *)
(* entry; and the value is its own.                                        *)
StoredInv ==
    /\ \A c \in Calls :
           op[c] = "create" /\ pc[c] \in {"ok", "version", "write"} /\ kind \notin {"azure", "vault1"}
               => made[c] # "no"
    /\ \A c \in Calls : made[c] = "here" /\ kind \in Atomic => Content(entry) = c

(* A file is written through the descriptor that created it, once.         *)
FilesInv ==
    kind \in Files =>
        \A c \in Calls :
            /\ ref[c] <= entry.id
            /\ made[c] = "here" => /\ ref[c] = entry.id
                                   /\ pc[c] = "write" => entry.vers = <<>>
                                   /\ pc[c] = "ok" => Content(entry) = c
            /\ pc[c] = "write" /\ Live /\ ref[c] = entry.id => made[c] = "here"

(* As long as a GCP secret was created once, all its versions are from the *)
(* call that created it.                                                   *)
GcpInv ==
    kind = "gcp" /\ entry.id <= 1 =>
        /\ entry.id = 0 => ~Live /\ \A c \in Calls : made[c] = "no"
        /\ \A c, d \in Calls : made[c] # "no" /\ made[d] # "no" => c = d
        /\ \A c \in Calls :
               made[c] = "here" => /\ Content(entry) \in {Empty, c}
                                   /\ pc[c] = "ok" => Content(entry) = c

(* The lock of a lone server on the files: whoever may leave a file that   *)
(* is not written yet holds it.                                            *)
LockInv ==
    alone /\ kind \in Files =>
        /\ \A c \in Calls : pc[c] \in {"write", "remove"} => lock = c
        /\ ~stranded /\ Content(entry) = Empty =>
               /\ lock \in Calls
               /\ pc[lock] \in {"write", "remove"}
               /\ pc[lock] = "write" => ref[lock] = entry.id

(* A file is created by one call, and what is in it is what the call has   *)
(* written to it, if anything.  A Get that has opened a file has seen what *)
(* was in it then; under the lock that stays so, and nobody writes.        *)
ReadInv ==
    kind \in Files =>
        /\ \A c, d \in Calls :
               op[c] = "create" /\ op[d] = "create" /\ ref[c] = ref[d] /\ ref[c] # 0 => c = d
        /\ \A c \in Calls : /\ pc[c] \in {"write", "read"} => ref[c] # 0
                            /\ pc[c] = "idle" => ref[c] = 0
        /\ Live => entry.id # 0
        /\ \A f \in Nat :
               /\ Live /\ entry.id = f => Content(entry) \in FileContent(f)
               /\ \A c \in Calls :
                      pc[c] = "read" /\ ref[c] = f =>
                          /\ \A v \in FileContent(f) :
                                 v \in seen[c] \/ (~alone /\ Empty \in seen[c])
                          /\ alone => lock = NoCall /\ (~stranded => Empty \notin FileContent(f))

(* What the calls under way have seen.                                     *)
SeenInv ==
    \A c \in Calls :
        /\ Busy(c) => Visible(entry) \subseteq seen[c]
        /\ pc[c] = "read" /\ kind = "azure" => ref[c] \in seen[c]
        /\ pc[c] = "clear" => Absent \in seen[c]

IInv == /\ TypeOK /\ EntryInv /\ MadeInv /\ StoredInv /\ FilesInv /\ GcpInv
        /\ LockInv /\ ReadInv /\ SeenInv /\ HonestAnswers

-----------------------------------------------------------------------------
(* The first version of a sequence of versions, with one more at its end.  *)
LEMMA AppendHead ==
    ASSUME NEW vs \in Seq(Values), NEW v \in Values
    PROVE  /\ Append(vs, v) \in Seq(Values) /\ Append(vs, v) # <<>>
           /\ vs = <<>> => Head(Append(vs, v)) = v
           /\ vs # <<>> => Head(Append(vs, v)) = Head(vs)
BY AppendProperties, HeadTailAppend

(* What is stored, told from an entry's phase and its versions.            *)
LEMMA ContentCases ==
    ASSUME NEW e \in Entries
    PROVE  /\ e.phase # "live" => Content(e) = Absent
           /\ e.phase = "live" /\ e.vers = <<>> => Content(e) = Empty
           /\ e.phase = "live" /\ e.vers # <<>> => Content(e) = Head(e.vers) /\ Content(e) \in Values
           /\ Absent \notin Values /\ Empty \notin Values /\ Absent # Empty
BY BoundsAssumption DEF Content, Entries, Values, Calls, Absent, Empty

(* What a Get may find is what is stored, and in KeyVault any version.     *)
LEMMA VisibleType ==
    ASSUME NEW e \in Entries
    PROVE  /\ Content(e) \in Visible(e) /\ Visible(e) \subseteq {Absent, Empty} \cup Values
           /\ Versions(e) \subseteq Values
           /\ kind = "azure" => Versions(e) \subseteq Visible(e)
<1>1. Content(e) \in {Absent, Empty} \cup Values
  BY ContentCases
<1>2. Versions(e) \subseteq Values
  BY DEF Versions, Entries
<1> QED
  BY <1>1, <1>2 DEF Visible

(* What is in a file.                                                      *)
Writers(f) == {d \in Calls : op[d] = "create" /\ ref[d] = f /\ pc[d] = "ok"}

LEMMA FileContentType ==
    ASSUME NEW f
    PROVE  /\ FileContent(f) = IF Writers(f) = {} THEN {Empty} ELSE Writers(f)
           /\ FileContent(f) \subseteq {Empty} \cup Values
BY DEF FileContent, Writers, Values

(* A file stays as it is unless its writer is done.                        *)
LEMMA FileKept ==
    ASSUME NEW f,
           \A d \in Calls : \/ op'[d] = op[d] /\ ref'[d] = ref[d] /\ (pc'[d] = "ok" <=> pc[d] = "ok")
                           \/ /\ ~(op[d] = "create" /\ pc[d] = "ok" /\ ref[d] = f)
                              /\ ~(op'[d] = "create" /\ pc'[d] = "ok" /\ ref'[d] = f)
    PROVE  FileContent(f)' = FileContent(f)
<1>1. Writers(f)' = Writers(f)
  BY DEF Writers
<1> QED
  BY <1>1 DEF FileContent, Writers

(* Entries as the services make, change and remove them.                   *)
LEMMA NewType ==
    ASSUME entry \in Entries, NEW vs \in Seq(Values)
    PROVE  New(vs) \in Entries /\ New(vs).phase = "live" /\ New(vs).vers = vs
BY DEF Entries, New, Phases

LEMMA NewEmptyType ==
    ASSUME entry \in Entries
    PROVE  New(<<>>) \in Entries /\ New(<<>>).phase = "live" /\ New(<<>>).vers = <<>>
<1> DEFINE none == <<>>
<1>1. none \in Seq(Values)
  OBVIOUS
<1> HIDE DEF none
<1>2. New(none) \in Entries /\ New(none).phase = "live" /\ New(none).vers = none
  BY <1>1, NewType
<1> QED
  BY <1>2 DEF none

LEMMA MoveType ==
    ASSUME entry \in Entries, NEW p \in Phases
    PROVE  /\ Move(p) \in Entries /\ Move(p).phase = p
           /\ Move(p).vers = <<>> /\ Move(p).id = entry.id
<1> DEFINE none == <<>>
<1>1. none \in Seq(Values)
  OBVIOUS
<1>2. Move(p) = [entry EXCEPT !.phase = p, !.vers = none]
  BY DEF Move
<1> HIDE DEF none
<1>3. Move(p) \in Entries /\ Move(p).phase = p /\ Move(p).vers = none /\ Move(p).id = entry.id
  BY <1>1, <1>2 DEF Entries
<1> QED
  BY <1>3 DEF none

LEMMA AddToType ==
    ASSUME entry \in Entries, NEW v \in Values
    PROVE  /\ AddTo(v) \in Entries /\ AddTo(v).phase = entry.phase
           /\ AddTo(v).vers = Append(entry.vers, v) /\ AddTo(v).id = entry.id
BY AppendHead DEF Entries, AddTo

(* What a request of the call c may do to the entry.                       *)
Creates(c) ==
    /\ pc[c] \in CreateSteps /\ entry.phase = "none"
    /\ entry' = New(IF kind \in Files \cup {"gcp"} THEN <<>> ELSE <<c>>)
Adds(c) ==
    /\ pc[c] \in CreateSteps /\ Live
    /\ entry' = AddTo(c)
    /\ kind \in Files \cup {"gcp", "azure"}
    /\ kind = "gcp" => pc[c] = "version"
Overwrites(c) ==
    /\ pc[c] \in CreateSteps /\ Live
    /\ entry' = [entry EXCEPT !.vers = <<c>>]
    /\ kind = "vault1"
Removes(c) ==
    /\ Live
    /\ entry' = Move(IF kind = "azure" THEN "deleting" ELSE "none")
    /\ \/ pc[c] \in DeleteSteps /\ <<pc, tries>>' # <<pc, tries>>
       \/ pc[c] = "remove" /\ kind \in Files
Purges == entry.phase = "deleted" /\ kind = "azure" /\ entry' = Move("purging")

Effect(c) ==
    entry' = entry \/ Creates(c) \/ Adds(c) \/ Overwrites(c) \/ Removes(c) \/ Purges

(* What is true when a call moves on or returns.                           *)
CreateOutcome(c) ==
    pc[c] \in CreateSteps =>
        /\ pc'[c] \in CreateSteps \cup {"ok", "exists", "error"}
        /\ pc'[c] = "ok" => \/ kind \in {"azure", "vault1"}
                            \/ kind \in Atomic /\ Creates(c)
                            \/ kind \in Files /\ pc[c] = "write"
                            \/ pc[c] = "version" /\ Adds(c)
        /\ pc'[c] \in {"write", "version"} => pc'[c] = pc[c] \/ Creates(c)
        /\ pc'[c] = "exists" => Live
GetOutcome(c) ==
    pc[c] \in GetSteps =>
        /\ pc'[c] \in GetSteps \cup {"ok", "notfound", "error"}
        /\ pc'[c] = "ok" =>
               /\ \/ got'[c] = Content(entry)
                  \/ pc[c] = "read" /\ kind = "azure" /\ got'[c] = ref[c]
                  \/ pc[c] = "read" /\ kind \in Files /\ got'[c] \in FileContent(ref[c])
               /\ \/ got'[c] \in Values
                  \/ pc[c] = "read" /\ kind = "fs" /\ Empty \in FileContent(ref[c])
        /\ pc'[c] = "notfound" =>
               Content(entry) = Absent \/ (kind = "gcp" /\ Content(entry) = Empty) \/ denied
        /\ pc'[c] = "read" /\ kind = "azure" =>
               (pc[c] = "read" /\ ref'[c] = ref[c]) \/ ref'[c] \in Versions(entry)
DeleteOutcome(c) ==
    pc[c] \in DeleteSteps =>
        /\ pc'[c] \in DeleteSteps \cup {"ok", "notfound", "error"}
        /\ pc'[c] \in {"ok", "clear"} =>
               pc[c] = "clear" \/ entry'.phase # "live" \/ (pc'[c] = "ok" /\ denied)
        /\ pc'[c] = "notfound" => Content(entry) = Absent

(* The call moves alone, and keeps its variables' types.                   *)
Steps == Results \cup CreateSteps \cup GetSteps \cup DeleteSteps

Alone(c) ==
    /\ \A d \in Calls \ {c} : pc'[d] = pc[d]
    /\ pc' \in [Calls -> Steps] /\ tries' \in [Calls -> 0 .. N]
Moves(c) ==
    /\ Alone(c)
    /\ \A d \in Calls \ {c} : ref'[d] = ref[d] /\ got'[d] = got[d]
    /\ UNCHANGED <<conf, callVars>>
    /\ stranded => stranded'
    /\ stranded' \in BOOLEAN /\ lock' \in Calls \cup {NoCall}
    /\ ref' \in [Calls -> Nat] /\ got' \in [Calls -> {Absent, Empty} \cup Values]
    /\ more' \in [Calls -> Nat]

Summary(c) ==
    Moves(c) /\ Effect(c) /\ CreateOutcome(c) /\ GetOutcome(c) /\ DeleteOutcome(c)

-----------------------------------------------------------------------------
(* Ask, for any service: the answer arrives, or the request is sent again, *)
(* or the call fails; in the last two cases it may have been carried out.  *)
Again(c) == pc'[c] = pc[c] /\ tries'[c] = tries[c] - 1 /\ tries[c] > 0
Fails(c) == pc'[c] = "error"

LEMMA AskSteps ==
    ASSUME TypeOK, NEW c \in Calls, NEW a, NEW next, Ask(c, a, next),
           next[a.code] \in Steps
    PROVE  /\ Alone(c) /\ entry' \in {entry, a.entry}
           /\ \/ pc'[c] = next[a.code] /\ entry' = a.entry /\ tries'[c] = N
              \/ Again(c)
              \/ Fails(c)
<1> DEFINE code == next[a.code]
<1>0. code \in Steps /\ "error" \in Steps /\ pc \in [Calls -> Steps] /\ tries \in [Calls -> 0 .. N]
  BY DEF Steps, Results, TypeOK
<1> USE BoundsAssumption DEF Alone, Again, Fails, Goto
<1>1. CASE entry' = a.entry /\ Goto(c, code) /\ tries' = [tries EXCEPT ![c] = N]
  BY <1>0, <1>1
<1>2. CASE entry' \in {entry, a.entry} /\ Resend(c)
  BY <1>0, <1>2 DEF Resend
<1> QED
  BY <1>1, <1>2 DEF Ask

(* Ask, for the requests that most services share.                         *)
LEMMA AskRead ==
    ASSUME TypeOK, NEW c \in Calls, NEW x \in Steps, NEW y \in Steps,
           Ask(c, Read, [ok |-> x, missing |-> y])
    PROVE  /\ Alone(c) /\ entry' = entry
           /\ \/ Again(c) \/ Fails(c)
              \/ pc'[c] = x /\ Content(entry) \in Values
              \/ pc'[c] = y /\ Content(entry) \notin Values
<1> DEFINE next == [ok |-> x, missing |-> y]
<1>1. /\ Read.entry = entry /\ Read.code \in {"ok", "missing"}
      /\ Read.code = "ok" <=> Content(entry) \in Values
      /\ next[Read.code] = IF Read.code = "ok" THEN x ELSE y
  BY DEF Read, Answer
<1>2. next[Read.code] \in Steps
  BY <1>1
<1> QED
  BY <1>1, <1>2, AskSteps

LEMMA AskInsert ==
    ASSUME TypeOK, NEW c \in Calls, NEW vs, NEW x \in Steps, NEW y \in Steps,
           Ask(c, Insert(vs), [ok |-> x, conflict |-> y])
    PROVE  /\ Alone(c)
           /\ entry' = entry \/ (entry.phase = "none" /\ entry' = New(vs))
           /\ \/ Again(c) \/ Fails(c)
              \/ pc'[c] = x /\ entry.phase = "none" /\ entry' = New(vs)
              \/ pc'[c] = y /\ entry.phase # "none" /\ entry' = entry
<1> DEFINE next == [ok |-> x, conflict |-> y]
           a == Insert(vs)
<1>1. /\ \/ a.code = "ok" /\ a.entry = New(vs) /\ entry.phase = "none"
         \/ a.code = "conflict" /\ a.entry = entry /\ entry.phase # "none"
      /\ next[a.code] = IF a.code = "ok" THEN x ELSE y
  BY DEF Insert, Answer
<1>2. next[a.code] \in Steps
  BY <1>1
<1> HIDE DEF next, a
<1>3. Ask(c, a, next)
  BY DEF next, a
<1> QED
  BY <1>1, <1>2, <1>3, AskSteps

LEMMA AskRemove ==
    ASSUME TypeOK, NEW c \in Calls, NEW really \in BOOLEAN, NEW x \in Steps, NEW y \in Steps,
           Ask(c, Remove(really), [ok |-> x, missing |-> y])
    PROVE  /\ Alone(c)
           /\ entry' = entry \/ (Live /\ really /\ entry' = Move("none"))
           /\ \/ Again(c) \/ Fails(c)
              \/ pc'[c] = x /\ Live /\ really /\ entry' = Move("none")
              \/ pc'[c] = y /\ ~(Live /\ really) /\ entry' = entry
<1> DEFINE next == [ok |-> x, missing |-> y]
           a == Remove(really)
<1>1. /\ \/ a.code = "ok" /\ a.entry = Move("none") /\ Live /\ really
         \/ a.code = "missing" /\ a.entry = entry /\ ~(Live /\ really)
      /\ next[a.code] = IF a.code = "ok" THEN x ELSE y
  BY DEF Remove, Answer
<1>2. next[a.code] \in Steps
  BY <1>1
<1> HIDE DEF next, a
<1>3. Ask(c, a, next)
  BY DEF next, a
<1> QED
  BY <1>1, <1>2, <1>3, AskSteps

-----------------------------------------------------------------------------
(* The names of the steps, of which no two kinds of call share one.        *)
LEMMA StepNames ==
    /\ {"open", "write", "remove", "insert", "secret", "version", "check", "set", "purge", "again",
        "put"} = CreateSteps
    /\ {"get", "first", "read"} = GetSteps
    /\ {"delete", "export", "destroy", "soft", "clear"} = DeleteSteps
    /\ {"idle", "ok", "exists", "notfound", "error"} = Results
    /\ Results \subseteq Steps /\ CreateSteps \subseteq Steps
    /\ GetSteps \subseteq Steps /\ DeleteSteps \subseteq Steps
BY DEF CreateSteps, GetSteps, DeleteSteps, Results, Steps

(* What a request leaves alone.                                            *)
LEMMA PlainMoves ==
    ASSUME TypeOK, NEW c \in Calls, Alone(c), Plain
    PROVE  Moves(c)
BY DEF Plain, Frame, Moves, TypeOK, NoCall, conf, callVars

(* A Create that is one request.                                           *)
LEMMA InsertSummary ==
    ASSUME TypeOK, EntryInv, NEW c \in Calls, kind \in Atomic, pc[c] = "insert",
           Ask(c, Insert(<<c>>), [ok |-> "ok", conflict |-> "exists"]), Plain
    PROVE  Summary(c)
<1>1. /\ Alone(c)
      /\ entry' = entry \/ (entry.phase = "none" /\ entry' = New(<<c>>))
      /\ \/ Again(c) \/ Fails(c)
         \/ pc'[c] = "ok" /\ entry.phase = "none" /\ entry' = New(<<c>>)
         \/ pc'[c] = "exists" /\ entry.phase # "none" /\ entry' = entry
  BY AskInsert, StepNames
<1>2. kind \notin Files \cup {"gcp"} /\ kind # "azure"
  BY DEF Atomic, Files
<1>3. pc[c] \in CreateSteps /\ pc[c] \notin GetSteps \cup DeleteSteps
  BY DEF CreateSteps, GetSteps, DeleteSteps
<1>4. Effect(c)
  BY <1>1, <1>2, <1>3 DEF Effect, Creates
<1>5. CreateOutcome(c)
  BY <1>1, <1>2, <1>3 DEF CreateOutcome, Creates, EntryInv, Live, Again, Fails
<1> QED
  BY <1>1, <1>3, <1>4, <1>5, PlainMoves DEF Summary, GetOutcome, DeleteOutcome

(* A Get that is one request.                                              *)
LEMMA GetSummary ==
    ASSUME TypeOK, EntryInv, NEW c \in Calls, kind \notin Files, pc[c] = "get",
           NEW a, a = Read \/ (denied /\ a = Answer("missing", entry)),
           Ask(c, a, [ok |-> "ok", missing |-> "notfound"]),
           Returns(c, Content(entry)), Frame, UNCHANGED <<ref, more>>
    PROVE  Summary(c)
<1>1. /\ Alone(c) /\ entry' = entry
      /\ \/ Again(c) \/ Fails(c)
         \/ pc'[c] = "ok" /\ Content(entry) \in Values
         \/ pc'[c] = "notfound" /\ (Content(entry) \notin Values \/ denied)
  <2> DEFINE next == [ok |-> "ok", missing |-> "notfound"]
  <2>1. /\ a.entry = entry
        /\ \/ a.code = "ok" /\ Content(entry) \in Values
           \/ a.code = "missing" /\ (Content(entry) \notin Values \/ denied)
    BY DEF Read, Answer
  <2>2. next[a.code] = (IF a.code = "ok" THEN "ok" ELSE "notfound") /\ next[a.code] \in Steps
    BY <2>1, StepNames
  <2> HIDE DEF next
  <2>3. Ask(c, a, next)
    BY DEF next
  <2> QED
    BY <2>1, <2>2, <2>3, AskSteps
<1>2. pc[c] \in GetSteps /\ pc[c] \notin CreateSteps \cup DeleteSteps
  BY DEF CreateSteps, GetSteps, DeleteSteps
<1>3. got' \in [Calls -> {Absent, Empty} \cup Values] /\ \A d \in Calls \ {c} : got'[d] = got[d]
  BY <1>1, ContentCases DEF Returns, TypeOK, EntryInv
<1>4. Moves(c)
  BY <1>1, <1>3 DEF Frame, Moves, TypeOK, NoCall, conf, callVars
<1>5. pc'[c] = "ok" => got'[c] = Content(entry)
  BY DEF Returns, TypeOK
<1>6. Content(entry) \notin Values =>
          Content(entry) = Absent \/ (kind = "gcp" /\ Content(entry) = Empty)
  BY ContentCases DEF EntryInv, Live
<1>7. GetOutcome(c)
  BY <1>1, <1>2, <1>5, <1>6 DEF GetOutcome, Again, Fails
<1> QED
  BY <1>1, <1>2, <1>4, <1>7 DEF Summary, Effect, CreateOutcome, DeleteOutcome

(* A Delete that KeySecure refuses, as if there was nothing.               *)
LEMMA DeniedSummary ==
    ASSUME TypeOK, EntryInv, NEW c \in Calls, pc[c] = "delete", denied,
           Ask(c, Answer("missing", entry), [ok |-> "ok", missing |-> "ok"]), Plain
    PROVE  Summary(c)
<1> DEFINE a == Answer("missing", entry)
           next == [ok |-> "ok", missing |-> "ok"]
<1>1. a.entry = entry /\ next[a.code] = "ok" /\ next[a.code] \in Steps /\ Ask(c, a, next)
  BY StepNames DEF Answer
<1> HIDE DEF a, next
<1>2. Alone(c) /\ entry' = entry /\ (Again(c) \/ Fails(c) \/ pc'[c] = "ok")
  BY <1>1, AskSteps
<1>3. pc[c] \in DeleteSteps /\ pc[c] \notin CreateSteps \cup GetSteps
  BY DEF CreateSteps, GetSteps, DeleteSteps
<1>4. DeleteOutcome(c)
  BY <1>2, <1>3 DEF DeleteOutcome, Again, Fails
<1> QED
  BY <1>2, <1>3, <1>4, PlainMoves DEF Summary, Effect, CreateOutcome, GetOutcome

(* A Delete that is one request.                                           *)
LEMMA DeleteSummary ==
    ASSUME TypeOK, EntryInv, NEW c \in Calls, kind # "azure", pc[c] \in {"delete", "destroy"},
           NEW really \in BOOLEAN, NEW y \in {"ok", "notfound", "error"}, ~really => y = "error",
           Ask(c, Remove(really), [ok |-> "ok", missing |-> y]), Plain
    PROVE  Summary(c)
<1>1. /\ Alone(c)
      /\ entry' = entry \/ (Live /\ really /\ entry' = Move("none"))
      /\ \/ Again(c) \/ Fails(c)
         \/ pc'[c] = "ok" /\ Live /\ really /\ entry' = Move("none")
         \/ pc'[c] = y /\ ~(Live /\ really) /\ entry' = entry
  <2>1. "ok" \in Steps /\ y \in Steps
    BY StepNames
  <2> QED
    BY <2>1, AskRemove
<1>2. pc[c] \in DeleteSteps /\ pc[c] \notin CreateSteps \cup GetSteps
  BY DEF CreateSteps, GetSteps, DeleteSteps
<1>3. Effect(c)
  <2>1. pc'[c] # pc[c] \/ tries'[c] # tries[c]
    BY <1>1, BoundsAssumption DEF Again, Fails, TypeOK
  <2> QED
    BY <1>1, <1>2, <2>1 DEF Effect, Removes
<1>4. Move("none").phase # "live"
  BY MoveType DEF EntryInv, Phases
<1>5. DeleteOutcome(c)
  BY <1>1, <1>2, <1>4, ContentCases DEF DeleteOutcome, Again, Fails, Live, EntryInv
<1> QED
  BY <1>1, <1>2, <1>3, <1>5, PlainMoves DEF Summary, CreateOutcome, GetOutcome

(* Looking before the real request.                                        *)
LEMMA CheckSummary ==
    ASSUME TypeOK, EntryInv, NEW c \in Calls, pc[c] = "check", NEW y \in {"set", "put"},
           Ask(c, Read, [ok |-> "exists", missing |-> y]), Plain
    PROVE  Summary(c)
<1>1. /\ Alone(c) /\ entry' = entry
      /\ \/ Again(c) \/ Fails(c)
         \/ pc'[c] = "exists" /\ Content(entry) \in Values
         \/ pc'[c] = y /\ Content(entry) \notin Values
  <2>1. "exists" \in Steps /\ y \in Steps
    BY StepNames
  <2> QED
    BY <2>1, AskRead
<1>2. pc[c] \in CreateSteps /\ y \in CreateSteps /\ pc[c] \notin GetSteps \cup DeleteSteps
  BY DEF CreateSteps, GetSteps, DeleteSteps
<1>3. Content(entry) \in Values => Live
  BY ContentCases DEF EntryInv, Live
<1>4. CreateOutcome(c)
  BY <1>1, <1>2, <1>3 DEF CreateOutcome, Again, Fails
<1> QED
  BY <1>1, <1>2, <1>4, PlainMoves DEF Summary, Effect, GetOutcome, DeleteOutcome

(* MemKeyStore and the file systems.                                       *)
LEMMA MemSummary ==
    ASSUME TypeOK, EntryInv, NEW c \in Calls, MemCreate(c) \/ MemGet(c) \/ MemDelete(c)
    PROVE  Summary(c)
<1> USE DEF At, TypeOK, EntryInv, Goto
<1>1. pc \in [Calls -> Steps] /\ {"ok", "exists", "notfound"} \subseteq Steps /\ kind \notin Files
  BY DEF MemCreate, MemGet, MemDelete, Steps, Results, Files
<1>2. CASE MemCreate(c)
  <2>1. \/ pc' = [pc EXCEPT ![c] = "ok"] /\ entry.phase = "none" /\ entry' = New(<<c>>)
        \/ pc' = [pc EXCEPT ![c] = "exists"] /\ entry.phase # "none" /\ entry' = entry
    BY <1>2 DEF MemCreate, Insert, Answer
  <2>2. Moves(c)
    BY <1>1, <1>2, <2>1 DEF MemCreate, Local, Frame, Moves, Alone, NoCall, conf, callVars
  <2>3. Effect(c) /\ CreateOutcome(c)
    BY <1>1, <1>2, <2>1 DEF MemCreate, Effect, CreateOutcome, Creates, CreateSteps, Files, Atomic, Live
  <2> QED
    BY <1>2, <2>2, <2>3 DEF MemCreate, Summary, GetOutcome, DeleteOutcome, GetSteps, DeleteSteps
<1>3. CASE MemGet(c)
  <2>1. \/ pc' = [pc EXCEPT ![c] = "ok"] /\ Content(entry) \in Values
        \/ pc' = [pc EXCEPT ![c] = "notfound"] /\ Content(entry) \notin Values
    BY <1>3 DEF MemGet, Read, Answer
  <2>2. Content(entry) \in {Absent} \cup Values
    BY <1>1, <1>3, ContentCases DEF MemGet, Live
  <2>3. Moves(c) /\ got'[c] = IF pc'[c] = "ok" THEN Content(entry) ELSE got[c]
    BY <1>1, <1>3, <2>1, <2>2 DEF MemGet, Returns, Frame, Moves, Alone, NoCall, conf, callVars
  <2>4. GetOutcome(c)
    BY <1>1, <1>3, <2>1, <2>2, <2>3 DEF MemGet, GetOutcome, GetSteps
  <2> QED
    BY <1>3, <2>3, <2>4 DEF MemGet, Summary, Effect, CreateOutcome, DeleteOutcome,
                            CreateSteps, DeleteSteps
<1>4. CASE MemDelete(c)
  <2>1. \/ pc' = [pc EXCEPT ![c] = "ok"] /\ Live /\ entry' = Move("none")
        \/ pc' = [pc EXCEPT ![c] = "notfound"] /\ ~Live /\ entry' = entry
    BY <1>4 DEF MemDelete, Remove, Answer
  <2>2. Moves(c)
    BY <1>1, <1>4, <2>1 DEF MemDelete, Local, Frame, Moves, Alone, NoCall, conf, callVars
  <2>3. pc'[c] # pc[c]
    BY <1>1, <1>4, <2>1 DEF MemDelete
  <2>4. Effect(c)
    BY <1>1, <1>4, <2>1, <2>3 DEF MemDelete, Effect, Removes, DeleteSteps
  <2>5. DeleteOutcome(c)
    BY <1>1, <1>4, <2>1, MoveType, ContentCases DEF MemDelete, DeleteOutcome, DeleteSteps, Live, Phases
  <2> QED
    BY <1>4, <2>2, <2>4, <2>5 DEF MemDelete, Summary, CreateOutcome, GetOutcome,
                                  CreateSteps, GetSteps
<1> QED
  BY <1>2, <1>3, <1>4

(* The flag stranded is set, never reset.                                  *)
LEMMA StrandedKept ==
    ASSUME stranded \in BOOLEAN, stranded' = TRUE \/ stranded' = stranded
    PROVE  (stranded => stranded') /\ stranded' \in BOOLEAN
<1>1. CASE stranded' = TRUE
  BY <1>1
<1>2. CASE stranded' = stranded
  BY <1>2
<1> QED
  BY <1>1, <1>2

LEMMA FsSummary ==
    ASSUME TypeOK, EntryInv, NEW c \in Calls,
           FsOpen(c) \/ FsWrite(c) \/ FsRemove(c) \/ FsGet(c) \/ FsRead(c) \/ FsDelete(c)
    PROVE  Summary(c)
<1>0. stranded \in BOOLEAN
  BY DEF TypeOK
<1> USE DEF At, TypeOK, EntryInv, Goto, FsFrame, Files
<1>1. /\ pc \in [Calls -> Steps] /\ entry.phase \in {"none", "live"} /\ kind \in Files
      /\ {"ok", "exists", "notfound", "error", "write", "remove", "read"} \subseteq Steps
  BY DEF FsOpen, FsWrite, FsRemove, FsGet, FsRead, FsDelete, Steps, CreateSteps, GetSteps, Results
<1>a. ASSUME NEW to \in Steps, pc' = [pc EXCEPT ![c] = to], tries' = tries
      PROVE  Alone(c)
  BY <1>1, <1>a DEF Alone
<1>b. ASSUME Alone(c), \A d \in Calls \ {c} : ref'[d] = ref[d] /\ got'[d] = got[d],
             stranded' = TRUE \/ stranded' = stranded, lock' \in {lock, c, NoCall},
             ref' \in [Calls -> Nat], got' \in [Calls -> {Absent, Empty} \cup Values],
             UNCHANGED <<conf, callVars, more>>
      PROVE  Moves(c)
  <2>1. (stranded => stranded') /\ stranded' \in BOOLEAN
    BY <1>0, <1>b, StrandedKept, Zenon
  <2> QED
    BY <1>b, <2>1 DEF Moves, NoCall, conf, callVars
<1>2. CASE FsOpen(c)
  <2>1. PICK to \in {"write", "exists", "remove"} : pc' = [pc EXCEPT ![c] = to]
    BY <1>2 DEF FsOpen
  <2>2. ref' \in [Calls -> Nat] /\ \A d \in Calls \ {c} : ref'[d] = ref[d]
    <3>1. New(<<>>).id \in Nat
      BY NewEmptyType DEF Entries
    <3> QED
      BY <1>2, <3>1 DEF FsOpen
  <2>3. Moves(c)
    BY <1>1, <1>2, <1>a, <1>b, <2>1, <2>2 DEF FsOpen
  <2>4. Effect(c)
    BY <1>1, <1>2 DEF FsOpen, Effect, Creates, CreateSteps
  <2>5. CreateOutcome(c)
    BY <1>1, <1>2, <2>1 DEF FsOpen, CreateOutcome, Creates, CreateSteps, Live
  <2> QED
    BY <1>2, <2>3, <2>4, <2>5 DEF FsOpen, Summary, GetOutcome, DeleteOutcome, GetSteps, DeleteSteps
<1>3. CASE FsWrite(c)
  <2>1. PICK to \in {"ok", "remove"} : pc' = [pc EXCEPT ![c] = to]
    BY <1>3 DEF FsWrite
  <2>2. Moves(c)
    BY <1>1, <1>3, <1>a, <1>b, <2>1 DEF FsWrite, Unlock
  <2>3. Effect(c)
    BY <1>1, <1>3 DEF FsWrite, Effect, Adds, CreateSteps
  <2>4. CreateOutcome(c)
    BY <1>1, <1>3, <2>1 DEF FsWrite, CreateOutcome, CreateSteps
  <2> QED
    BY <1>3, <2>2, <2>3, <2>4 DEF FsWrite, Summary, GetOutcome, DeleteOutcome, GetSteps, DeleteSteps
<1>4. CASE FsRemove(c)
  <2>1. Moves(c)
    BY <1>1, <1>4, <1>a, <1>b DEF FsRemove, Unlock
  <2>2. Effect(c)
    BY <1>1, <1>4 DEF FsRemove, Effect, Removes, Remove, Answer
  <2>3. CreateOutcome(c)
    BY <1>1, <1>4 DEF FsRemove, CreateOutcome, CreateSteps
  <2> QED
    BY <1>4, <2>1, <2>2, <2>3 DEF FsRemove, Summary, GetOutcome, DeleteOutcome, GetSteps, DeleteSteps
<1>5. CASE FsGet(c)
  <2>1. \/ pc' = [pc EXCEPT ![c] = "read"]
        \/ ~Live /\ pc' = [pc EXCEPT ![c] = "notfound"]
        \/ pc' = [pc EXCEPT ![c] = "error"]
    BY <1>5 DEF FsGet
  <2>2. ~Live => Content(entry) = Absent
    BY ContentCases DEF Live
  <2>3. Moves(c)
    <3>1. ref' \in [Calls -> Nat] /\ \A d \in Calls \ {c} : ref'[d] = ref[d]
      BY <1>5 DEF FsGet
    <3>2. Alone(c)
      BY <1>1, <1>5, <1>a, <2>1 DEF FsGet
    <3> QED
      BY <1>5, <1>b, <3>1, <3>2 DEF FsGet
  <2>4. GetOutcome(c)
    BY <1>1, <1>5, <2>1, <2>2 DEF FsGet, GetOutcome, GetSteps
  <2> QED
    BY <1>5, <2>3, <2>4 DEF FsGet, Summary, Effect, CreateOutcome, DeleteOutcome,
                            CreateSteps, DeleteSteps
<1>c. CASE FsRead(c)
  <2>1. PICK v \in FileContent(ref[c]) :
            /\ pc' = [pc EXCEPT ![c] = EfsDecrypt(v)] \/ pc' = [pc EXCEPT ![c] = "error"]
            /\ Returns(c, v)
    BY <1>c DEF FsRead
  <2>2. v \in {Absent, Empty} \cup Values /\ EfsDecrypt(v) \in {"ok", "error"}
    BY FileContentType DEF EfsDecrypt
  <2>3. /\ Alone(c)
        /\ pc'[c] = "error" \/ (pc'[c] = "ok" /\ EfsDecrypt(v) = "ok")
    BY <1>1, <1>c, <1>a, <2>1, <2>2 DEF FsRead
  <2>4. /\ got' \in [Calls -> {Absent, Empty} \cup Values]
        /\ \A d \in Calls \ {c} : got'[d] = got[d]
        /\ pc'[c] = "ok" => got'[c] = v
    BY <2>1, <2>2 DEF Returns
  <2>5. Moves(c)
    BY <1>c, <1>b, <2>3, <2>4 DEF FsRead
  <2>6. EfsDecrypt(v) = "ok" => v \in Values \/ (kind = "fs" /\ v = Empty)
    BY <1>1, <2>1, FileContentType DEF EfsDecrypt
  <2>7. GetOutcome(c)
    BY <1>1, <1>c, <2>1, <2>3, <2>4, <2>6 DEF FsRead, GetOutcome, GetSteps
  <2> QED
    BY <1>c, <2>5, <2>7 DEF FsRead, Summary, Effect, CreateOutcome, DeleteOutcome,
                            CreateSteps, DeleteSteps
<1>6. CASE FsDelete(c)
  <2>1. \/ pc' = [pc EXCEPT ![c] = "ok"] /\ Live /\ entry' = Move("none")
        \/ pc' = [pc EXCEPT ![c] = "notfound"] /\ ~Live /\ entry' = entry
        \/ pc' = [pc EXCEPT ![c] = "error"] /\ entry' = entry
    BY <1>6 DEF FsDelete, Remove, Answer
  <2>2. Moves(c)
    BY <1>1, <1>6, <1>a, <1>b, <2>1 DEF FsDelete
  <2>3. pc'[c] # pc[c]
    BY <1>1, <1>6, <2>1 DEF FsDelete
  <2>4. Effect(c)
    BY <1>1, <1>6, <2>1, <2>3 DEF FsDelete, Effect, Removes, DeleteSteps
  <2>5. DeleteOutcome(c)
    BY <1>1, <1>6, <2>1, MoveType, ContentCases DEF FsDelete, DeleteOutcome, DeleteSteps, Live, Phases
  <2> QED
    BY <1>6, <2>2, <2>4, <2>5 DEF FsDelete, Summary, CreateOutcome, GetOutcome,
                                  CreateSteps, GetSteps
<1> QED
  BY <1>2, <1>3, <1>4, <1>5, <1>c, <1>6

(* The Create of GCP, in two requests.                                     *)
LEMMA GcpSummary ==
    ASSUME TypeOK, EntryInv, NEW c \in Calls, GcpCreateSecret(c) \/ GcpAddSecretVersion(c)
    PROVE  Summary(c)
<1> USE DEF At
<1>1. /\ pc[c] \in CreateSteps /\ pc[c] \notin GetSteps \cup DeleteSteps
      /\ kind = "gcp" /\ kind \in Files \cup {"gcp"} /\ "version" \in CreateSteps /\ Plain
      /\ "ok" \in Steps /\ "exists" \in Steps /\ "version" \in Steps /\ "error" \in Steps
  BY StepNames DEF GcpCreateSecret, GcpAddSecretVersion, CreateSteps, GetSteps, DeleteSteps
<1>2. CASE GcpCreateSecret(c)
  <2>1. /\ Alone(c)
        /\ entry' = entry \/ (entry.phase = "none" /\ entry' = New(<<>>))
        /\ \/ Again(c) \/ Fails(c)
           \/ pc'[c] = "version" /\ entry.phase = "none" /\ entry' = New(<<>>)
           \/ pc'[c] = "exists" /\ entry.phase # "none" /\ entry' = entry
    BY <1>1, <1>2, AskInsert DEF GcpCreateSecret
  <2>2. Effect(c)
    BY <1>1, <2>1 DEF Effect, Creates
  <2>3. CreateOutcome(c)
    BY <1>1, <1>2, <2>1 DEF GcpCreateSecret, CreateOutcome, Creates, EntryInv, Live, Again, Fails
  <2> QED
    BY <1>1, <2>1, <2>2, <2>3, PlainMoves DEF Summary, GetOutcome, DeleteOutcome
<1>3. CASE GcpAddSecretVersion(c)
  <2> DEFINE a == AddVersion(c)
             next == [ok |-> "ok", missing |-> "error"]
  <2>1. /\ \/ a.code = "ok" /\ a.entry = AddTo(c) /\ Live
           \/ a.code = "missing" /\ a.entry = entry /\ ~Live
        /\ next[a.code] = IF a.code = "ok" THEN "ok" ELSE "error"
        /\ Ask(c, a, next)
    BY <1>3 DEF AddVersion, Answer, GcpAddSecretVersion
  <2>2. next[a.code] \in Steps
    BY <1>1, <2>1
  <2> HIDE DEF a, next
  <2>3. /\ Alone(c) /\ pc'[c] \in {"ok", "error", pc[c]}
        /\ entry' = entry \/ (Live /\ entry' = AddTo(c))
        /\ pc'[c] = "ok" => Live /\ entry' = AddTo(c)
    BY <1>3, <2>1, <2>2, AskSteps DEF GcpAddSecretVersion, Again, Fails
  <2>4. Effect(c)
    BY <1>1, <1>3, <2>3 DEF GcpAddSecretVersion, Effect, Adds
  <2>5. CreateOutcome(c)
    BY <1>1, <1>3, <2>3 DEF GcpAddSecretVersion, CreateOutcome, Adds
  <2> QED
    BY <1>1, <2>3, <2>4, <2>5, PlainMoves DEF Summary, GetOutcome, DeleteOutcome
<1> QED
  BY <1>2, <1>3

(* Vault: v1 overwrites, v2 refuses to.                                    *)
LEMMA VaultSummary ==
    ASSUME TypeOK, EntryInv, NEW c \in Calls, VaultPut(c)
    PROVE  Summary(c)
<1> DEFINE a == IF kind = "vault2" THEN Insert(<<c>>) ELSE Overwrite(c)
           next == [ok |-> "ok", conflict |-> "error"]
<1>1. /\ pc[c] = "put" /\ pc[c] \in CreateSteps /\ pc[c] \notin GetSteps \cup DeleteSteps
      /\ kind \in {"vault1", "vault2"} /\ kind \notin Files \cup {"gcp"} /\ kind # "azure"
      /\ entry.phase \in {"none", "live"} /\ Plain /\ Ask(c, a, next)
      /\ "ok" \in Steps /\ "error" \in Steps
  BY StepNames DEF VaultPut, At, Vaults, CreateSteps, GetSteps, DeleteSteps, EntryInv, Files
<1>2. /\ \/ a.code = "ok" /\ a.entry = New(<<c>>) /\ entry.phase = "none"
         \/ a.code = "ok" /\ a.entry = [entry EXCEPT !.vers = <<c>>] /\ Live /\ kind = "vault1"
         \/ a.code = "conflict" /\ a.entry = entry
      /\ next[a.code] = IF a.code = "ok" THEN "ok" ELSE "error"
      /\ a.code = "ok" /\ kind = "vault2" => a.entry = New(<<c>>) /\ entry.phase = "none"
  BY <1>1 DEF Insert, Overwrite, Answer, Live
<1>3. next[a.code] \in Steps
  BY <1>1, <1>2
<1> HIDE DEF a, next
<1>4. /\ Alone(c) /\ entry' \in {entry, a.entry}
      /\ \/ pc'[c] \in {"error", pc[c]}
         \/ pc'[c] = "ok" /\ a.code = "ok" /\ entry' = a.entry
  BY <1>1, <1>2, <1>3, AskSteps DEF Again, Fails
<1>5. Effect(c)
  BY <1>1, <1>2, <1>4 DEF Effect, Creates, Overwrites
<1>6. CreateOutcome(c)
  BY <1>1, <1>2, <1>4 DEF CreateOutcome, Creates, Atomic
<1> QED
  BY <1>1, <1>4, <1>5, <1>6, PlainMoves DEF Summary, GetOutcome, DeleteOutcome

(* Fortanix looks up the ID of a key before it deletes the ID.             *)
LEMMA ExportSummary ==
    ASSUME TypeOK, EntryInv, NEW c \in Calls, FortanixExport(c)
    PROVE  Summary(c)
<1>1. /\ pc[c] = "export" /\ pc[c] \in DeleteSteps /\ pc[c] \notin CreateSteps \cup GetSteps
      /\ kind = "fortanix" /\ kind \notin Files \cup {"gcp"} /\ "destroy" \in DeleteSteps
      /\ "destroy" \in Steps /\ "notfound" \in Steps
  BY StepNames DEF FortanixExport, At, CreateSteps, GetSteps, DeleteSteps, Files
<1>2. /\ Alone(c) /\ entry' = entry
      /\ \/ Again(c) \/ Fails(c)
         \/ pc'[c] = "destroy" /\ Content(entry) \in Values
         \/ pc'[c] = "notfound" /\ Content(entry) \notin Values
  BY <1>1, AskRead DEF FortanixExport
<1>3. Content(entry) \notin Values => Content(entry) = Absent
  BY <1>1, ContentCases DEF EntryInv, Live
<1>4. DeleteOutcome(c)
  BY <1>1, <1>2, <1>3 DEF DeleteOutcome, Again, Fails
<1>5. ref' \in [Calls -> Nat] /\ \A d \in Calls \ {c} : ref'[d] = ref[d]
  BY DEF FortanixExport, TypeOK
<1>6. Moves(c)
  BY <1>2, <1>5 DEF FortanixExport, Frame, Moves, TypeOK, NoCall, conf, callVars
<1> QED
  BY <1>1, <1>2, <1>4, <1>6 DEF Summary, Effect, CreateOutcome, GetOutcome

(* The loops of Azure's methods: an iteration is counted when the answer   *)
(* is that the secret is being deleted or purged, and there is one left.   *)
LEMMA IterateType ==
    ASSUME TypeOK, NEW c \in Calls, NEW n \in Nat, Iterate(c, n),
           Again(c) \/ pc'[c] \in Results \/ pc'[c] # pc[c] \/ more[c] > 1,
           tries' \in [Calls -> 0 .. N]
    PROVE  more' \in [Calls -> Nat]
<1>1. more[c] \in Nat /\ tries[c] \in 0 .. N
  BY DEF TypeOK
<1> DEFINE m == IF pc'[c] \in Results THEN 0
                 ELSE IF pc'[c] # pc[c] THEN n
                 ELSE IF tries'[c] < tries[c] THEN more[c] ELSE more[c] - 1
<1>2. more' = [more EXCEPT ![c] = m]
  BY DEF Iterate, TypeOK
<1>3. m \in Nat
  BY <1>1, BoundsAssumption DEF Again
<1> HIDE DEF m
<1> QED
  BY <1>2, <1>3 DEF TypeOK

LEMMA AzureMoves ==
    ASSUME TypeOK, NEW c \in Calls, NEW n \in Nat, Iterate(c, n), AzureFrame, Alone(c),
           Again(c) \/ pc'[c] \in Results \/ pc'[c] # pc[c] \/ more[c] > 1
    PROVE  Moves(c)
<1>1. more' \in [Calls -> Nat]
  BY IterateType DEF Alone
<1> QED
  BY <1>1 DEF AzureFrame, Frame, Moves, TypeOK, NoCall, conf, callVars

LEMMA AskSetSecret ==
    ASSUME TypeOK, EntryInv, NEW c \in Calls, NEW x \in Steps, NEW y \in Steps,
           Ask(c, SetSecret(c), [ok |-> "ok", recoverable |-> x, being |-> y])
    PROVE  /\ Alone(c) /\ (Again(c) \/ Fails(c) \/ pc'[c] \in {"ok", x, y})
           /\ \/ entry' = entry
              \/ entry.phase = "none" /\ entry' = New(<<c>>)
              \/ Live /\ entry' = AddTo(c)
<1> DEFINE a == SetSecret(c)
           next == [ok |-> "ok", recoverable |-> x, being |-> y]
<1>1. \/ a.code = "ok" /\ Live /\ a.entry = AddTo(c)
      \/ a.code = "ok" /\ entry.phase = "none" /\ a.entry = New(<<c>>)
      \/ a.code \in {"recoverable", "being"} /\ a.entry = entry
  BY DEF SetSecret, Answer, Live, Changing, EntryInv, Entries, Phases
<1>2. next[a.code] \in {"ok", x, y} /\ "ok" \in Steps
  BY <1>1, StepNames
<1> HIDE DEF a, next
<1>3. Ask(c, a, next)
  BY DEF a, next
<1> QED
  BY <1>1, <1>2, <1>3, AskSteps

LEMMA AskPurgeDeleted ==
    ASSUME TypeOK, EntryInv, NEW c \in Calls, NEW x \in Steps, NEW z \in Steps,
           Ask(c, PurgeDeleted, [ok |-> x, missing |-> x, being |-> z])
    PROVE  /\ Alone(c) /\ (Again(c) \/ Fails(c) \/ pc'[c] \in {x, z})
           /\ \/ entry' = entry
              \/ entry.phase = "deleted" /\ entry' = Move("purging")
<1> DEFINE a == PurgeDeleted
           next == [ok |-> x, missing |-> x, being |-> z]
<1>1. \/ a.code = "ok" /\ entry.phase = "deleted" /\ a.entry = Move("purging")
      \/ a.code \in {"being", "missing"} /\ a.entry = entry
  BY DEF PurgeDeleted, Answer, Changing
<1>2. next[a.code] \in {x, z}
  BY <1>1
<1> HIDE DEF a, next
<1>3. Ask(c, a, next)
  BY DEF a, next
<1> QED
  BY <1>1, <1>2, <1>3, AskSteps

(* Azure's Create, Get and Delete.                                         *)
LEMMA AzureSummary ==
    ASSUME TypeOK, EntryInv, NEW c \in Calls,
           \/ AzureSet(c) \/ AzurePurge(c) \/ AzureSetAgain(c)
           \/ AzureFirst(c) \/ AzureRead(c) \/ AzureSoftDelete(c) \/ AzureClear(c)
    PROVE  Summary(c)
<1> USE BoundsAssumption DEF At
<1>1. /\ kind = "azure" /\ kind \notin Files \cup {"gcp"} /\ kind \in Files \cup {"gcp", "azure"}
      /\ kind \notin Atomic
  BY DEF AzureSet, AzurePurge, AzureSetAgain, AzureFirst, AzureRead, AzureSoftDelete, AzureClear,
         Files, Atomic
<1>2. /\ {"ok", "purge", "again", "error", "read", "notfound", "clear"} \subseteq Steps
      /\ {"ok", "error"} \subseteq Results
  BY StepNames
<1>3. CASE AzureSet(c)
  <2>1. /\ pc[c] = "set" /\ pc[c] \in CreateSteps /\ pc[c] \notin GetSteps \cup DeleteSteps
        /\ "purge" \in CreateSteps
    BY <1>3 DEF AzureSet, CreateSteps, GetSteps, DeleteSteps
  <2>2. /\ Alone(c) /\ (Again(c) \/ Fails(c) \/ pc'[c] \in {"ok", "purge"})
        /\ \/ entry' = entry
           \/ entry.phase = "none" /\ entry' = New(<<c>>)
           \/ Live /\ entry' = AddTo(c)
    BY <1>2, <1>3, AskSetSecret DEF AzureSet
  <2>3. Moves(c)
    BY <1>2, <1>3, <2>1, <2>2, AzureMoves DEF AzureSet, Fails
  <2>4. Effect(c) /\ CreateOutcome(c)
    BY <1>1, <2>1, <2>2 DEF Effect, Creates, Adds, CreateOutcome, Again, Fails
  <2> QED
    BY <2>1, <2>3, <2>4 DEF Summary, GetOutcome, DeleteOutcome
<1>4. CASE AzurePurge(c)
  <2> DEFINE z == While(c, "purge", "error")
  <2>1. /\ pc[c] = "purge" /\ pc[c] \in CreateSteps /\ pc[c] \notin GetSteps \cup DeleteSteps
        /\ "again" \in CreateSteps
        /\ z \in {"purge", "error"} /\ z \in Steps /\ (z = "purge" => more[c] > 1)
    BY <1>2, <1>4 DEF AzurePurge, CreateSteps, GetSteps, DeleteSteps, While
  <2>2. /\ Alone(c) /\ (Again(c) \/ Fails(c) \/ pc'[c] \in {"again", z})
        /\ \/ entry' = entry
           \/ entry.phase = "deleted" /\ entry' = Move("purging")
    BY <1>2, <1>4, <2>1, AskPurgeDeleted DEF AzurePurge
  <2> HIDE DEF z
  <2>3. Moves(c)
    BY <1>2, <1>4, <2>1, <2>2, AzureMoves DEF AzurePurge, Fails
  <2>4. Effect(c) /\ CreateOutcome(c)
    BY <1>1, <2>1, <2>2 DEF Effect, Purges, CreateOutcome, Again, Fails
  <2> QED
    BY <2>1, <2>3, <2>4 DEF Summary, GetOutcome, DeleteOutcome
<1>5. CASE AzureSetAgain(c)
  <2> DEFINE z == While(c, "again", "error")
  <2>1. /\ pc[c] = "again" /\ pc[c] \in CreateSteps /\ pc[c] \notin GetSteps \cup DeleteSteps
        /\ z \in {"again", "error"} /\ z \in Steps /\ (z = "again" => more[c] > 1)
    BY <1>2, <1>5 DEF AzureSetAgain, CreateSteps, GetSteps, DeleteSteps, While
  <2>2. /\ Alone(c) /\ (Again(c) \/ Fails(c) \/ pc'[c] \in {"ok", z})
        /\ \/ entry' = entry
           \/ entry.phase = "none" /\ entry' = New(<<c>>)
           \/ Live /\ entry' = AddTo(c)
    BY <1>2, <1>5, <2>1, AskSetSecret DEF AzureSetAgain, Fails
  <2> HIDE DEF z
  <2>3. Moves(c)
    BY <1>2, <1>5, <2>1, <2>2, AzureMoves DEF AzureSetAgain, Fails
  <2>4. Effect(c) /\ CreateOutcome(c)
    BY <1>1, <2>1, <2>2 DEF Effect, Creates, Adds, CreateOutcome, Again, Fails
  <2> QED
    BY <2>1, <2>3, <2>4 DEF Summary, GetOutcome, DeleteOutcome
<1>6. CASE AzureFirst(c)
  <2> DEFINE a == FirstVersion
             next == [ok |-> "read", missing |-> "notfound", many |-> "error"]
  <2>1. /\ pc[c] = "first" /\ pc[c] \in GetSteps /\ pc[c] \notin CreateSteps \cup DeleteSteps
        /\ "read" \in GetSteps
    BY <1>6 DEF AzureFirst, CreateSteps, GetSteps, DeleteSteps
  <2>2. /\ a.entry = entry
        /\ a.code \in {"ok", "many"} \/ (a.code = "missing" /\ ~Live)
        /\ Ask(c, a, next)
    BY <1>6 DEF FirstVersion, Answer, AzureFirst
  <2>3. /\ next[a.code] \in {"read", "notfound", "error"}
        /\ next[a.code] = "notfound" => ~Live
    BY <2>2
  <2> HIDE DEF a, next
  <2>4. /\ Alone(c) /\ entry' = entry
        /\ \/ Again(c) \/ Fails(c) \/ pc'[c] = "read"
           \/ pc'[c] = "notfound" /\ ~Live
    BY <1>2, <2>2, <2>3, AskSteps DEF Fails
  <2>5. Versions(entry) \subseteq Nat /\ (~Live => Content(entry) = Absent)
    BY ContentCases, VisibleType DEF EntryInv, Live, Values, Calls
  <2>6. /\ ref' \in [Calls -> Nat] /\ \A d \in Calls \ {c} : ref'[d] = ref[d]
        /\ pc'[c] = "read" => ref'[c] \in Versions(entry)
    BY <1>6, <2>5 DEF AzureFirst, TypeOK
  <2>7. Moves(c)
    BY <1>6, <2>4, <2>6 DEF AzureFirst, Frame, Moves, TypeOK, NoCall, conf, callVars
  <2>8. GetOutcome(c)
    BY <1>1, <2>1, <2>4, <2>5, <2>6 DEF GetOutcome, Again, Fails
  <2> QED
    BY <2>1, <2>4, <2>7, <2>8 DEF Summary, Effect, CreateOutcome, DeleteOutcome
<1>7. CASE AzureRead(c)
  <2> DEFINE a == Answer(IF ref[c] \in Versions(entry) THEN "ok" ELSE "missing", entry)
             next == [ok |-> "ok", missing |-> "error"]
  <2>1. /\ pc[c] = "read" /\ pc[c] \in GetSteps /\ pc[c] \notin CreateSteps \cup DeleteSteps
    BY <1>7 DEF AzureRead, CreateSteps, GetSteps, DeleteSteps
  <2>2. /\ a.entry = entry
        /\ (a.code = "ok" /\ ref[c] \in Versions(entry)) \/ a.code = "missing"
        /\ Ask(c, a, next)
    BY <1>7 DEF Answer, AzureRead
  <2>3. /\ next[a.code] \in {"ok", "error"}
        /\ next[a.code] = "ok" => ref[c] \in Versions(entry)
    BY <2>2
  <2> HIDE DEF a, next
  <2>4. /\ Alone(c) /\ entry' = entry
        /\ \/ Again(c) \/ Fails(c)
           \/ pc'[c] = "ok" /\ ref[c] \in Versions(entry)
    BY <1>2, <2>2, <2>3, AskSteps DEF Fails
  <2>5. ref[c] \in Versions(entry) => ref[c] \in Values
    BY VisibleType DEF EntryInv
  <2>6. /\ got' \in [Calls -> {Absent, Empty} \cup Values]
        /\ \A d \in Calls \ {c} : got'[d] = got[d]
        /\ pc'[c] = "ok" => got'[c] = ref[c]
    BY <1>7, <2>1, <2>4, <2>5 DEF AzureRead, Returns, TypeOK, Again, Fails
  <2>7. Moves(c)
    BY <1>7, <2>4, <2>6 DEF AzureRead, Frame, Moves, TypeOK, NoCall, conf, callVars
  <2>8. ref'[c] = ref[c]
    BY <1>7 DEF AzureRead
  <2>9. GetOutcome(c)
    BY <1>1, <2>1, <2>4, <2>5, <2>6, <2>8 DEF GetOutcome, Again, Fails
  <2> QED
    BY <2>1, <2>4, <2>7, <2>9 DEF Summary, Effect, CreateOutcome, DeleteOutcome
<1>8. CASE AzureSoftDelete(c)
  <2> DEFINE a == SoftDelete
             next == [ok |-> "clear", missing |-> "clear", being |-> "error"]
  <2>1. /\ pc[c] = "soft" /\ pc[c] \in DeleteSteps /\ pc[c] \notin CreateSteps \cup GetSteps
        /\ "clear" \in DeleteSteps
    BY <1>8 DEF AzureSoftDelete, CreateSteps, GetSteps, DeleteSteps
  <2>2. /\ \/ a.code = "ok" /\ Live /\ a.entry = Move("deleting")
           \/ a.code \in {"missing", "being"} /\ ~Live /\ a.entry = entry
        /\ Ask(c, a, next)
    BY <1>8 DEF SoftDelete, Answer, Changing, Live, AzureSoftDelete
  <2>3. next[a.code] \in {"clear", "error"}
    BY <2>2
  <2>4. Move("deleting").phase # "live"
    BY MoveType DEF EntryInv, Phases
  <2> HIDE DEF a, next
  <2>5. /\ Alone(c)
        /\ entry' = entry \/ (Live /\ entry' = Move("deleting"))
        /\ \/ Again(c) \/ Fails(c)
           \/ pc'[c] = "clear" /\ entry'.phase # "live"
    BY <1>2, <2>2, <2>3, <2>4, AskSteps DEF Fails, Live
  <2>6. Moves(c)
    BY <1>2, <1>8, <2>1, <2>5, AzureMoves DEF AzureSoftDelete, Fails
  <2>7. pc'[c] # pc[c] \/ tries'[c] # tries[c]
    BY <2>1, <2>5 DEF Again, Fails, TypeOK
  <2>8. Effect(c) /\ DeleteOutcome(c)
    BY <1>1, <2>1, <2>5, <2>7 DEF Effect, Removes, DeleteOutcome, Again, Fails
  <2> QED
    BY <2>1, <2>6, <2>8 DEF Summary, CreateOutcome, GetOutcome
<1>9. CASE AzureClear(c)
  <2> DEFINE z == While(c, "clear", "ok")
  <2>1. /\ pc[c] = "clear" /\ pc[c] \in DeleteSteps /\ pc[c] \notin CreateSteps \cup GetSteps
        /\ z \in {"clear", "ok"} /\ z \in Steps /\ (z = "clear" => more[c] > 1)
    BY <1>2, <1>9 DEF AzureClear, CreateSteps, GetSteps, DeleteSteps, While
  <2>2. /\ Alone(c) /\ (Again(c) \/ Fails(c) \/ pc'[c] \in {"ok", z})
        /\ \/ entry' = entry
           \/ entry.phase = "deleted" /\ entry' = Move("purging")
    BY <1>2, <1>9, <2>1, AskPurgeDeleted DEF AzureClear
  <2> HIDE DEF z
  <2>3. Moves(c)
    BY <1>2, <1>9, <2>1, <2>2, AzureMoves DEF AzureClear, Fails
  <2>4. Effect(c) /\ DeleteOutcome(c)
    BY <1>1, <2>1, <2>2 DEF Effect, Purges, DeleteOutcome, Again, Fails
  <2> QED
    BY <2>1, <2>3, <2>4 DEF Summary, CreateOutcome, GetOutcome
<1> QED
  BY <1>3, <1>4, <1>5, <1>6, <1>7, <1>8, <1>9

(* Every request of every KeyStore.                                        *)
LEMMA RequestSummary ==
    ASSUME TypeOK, EntryInv, NEW c \in Calls, Request(c)
    PROVE  Summary(c)
<1> USE DEF At
<1>1. CASE AwsCreate(c) \/ FortanixCreate(c) \/ EntrustCreate(c) \/ GemaltoCreate(c)
  BY <1>1, InsertSummary DEF AwsCreate, FortanixCreate, EntrustCreate, GemaltoCreate, Atomic
<1>2. CASE AwsGet(c) \/ GcpGet(c) \/ VaultGet(c) \/ FortanixGet(c) \/ EntrustGet(c) \/ GemaltoGet(c)
  <2>1. CASE GemaltoGet(c)
    <3>1. PICK a \in KeySecure(Read) : Ask(c, a, [ok |-> "ok", missing |-> "notfound"])
      BY <2>1 DEF GemaltoGet
    <3>2. a = Read \/ (denied /\ a = Answer("missing", entry))
      BY <3>1 DEF KeySecure
    <3> QED
      BY <2>1, <3>1, <3>2, GetSummary DEF GemaltoGet, Files
  <2>2. CASE AwsGet(c) \/ GcpGet(c) \/ VaultGet(c) \/ FortanixGet(c) \/ EntrustGet(c)
    BY <2>2, GetSummary DEF AwsGet, GcpGet, VaultGet, FortanixGet, EntrustGet, Files, Vaults
  <2> QED
    BY <1>2, <2>1, <2>2
<1>3. CASE \/ AwsDelete(c) \/ GcpDelete(c) \/ VaultDelete(c) \/ FortanixDestroy(c)
           \/ EntrustDelete(c) \/ GemaltoDelete(c)
  <2>1. CASE FortanixDestroy(c)
    BY <2>1, DeleteSummary DEF FortanixDestroy
  <2>2. CASE AwsDelete(c) \/ GcpDelete(c) \/ EntrustDelete(c)
    BY <2>2, DeleteSummary DEF AwsDelete, GcpDelete, EntrustDelete
  <2>3. CASE VaultDelete(c)
    BY <2>3, DeleteSummary DEF VaultDelete, Vaults
  <2>4. CASE GemaltoDelete(c)
    <3>1. PICK a \in KeySecure(Remove(TRUE)) : Ask(c, a, [ok |-> "ok", missing |-> "ok"])
      BY <2>4 DEF GemaltoDelete
    <3>2. a = Remove(TRUE) \/ (denied /\ a = Answer("missing", entry))
      BY <3>1 DEF KeySecure
    <3>3. CASE a = Remove(TRUE)
      BY <2>4, <3>1, <3>3, DeleteSummary DEF GemaltoDelete
    <3>4. CASE denied /\ a = Answer("missing", entry)
      BY <2>4, <3>1, <3>4, DeniedSummary DEF GemaltoDelete
    <3> QED
      BY <3>2, <3>3, <3>4
  <2> QED
    BY <1>3, <2>1, <2>2, <2>3, <2>4
<1>4. CASE AzureCheck(c) \/ VaultCheck(c)
  BY <1>4, CheckSummary DEF AzureCheck, VaultCheck
<1> QED
  BY <1>1, <1>2, <1>3, <1>4, MemSummary, FsSummary, GcpSummary, VaultSummary, ExportSummary,
     AzureSummary DEF Request

-----------------------------------------------------------------------------
(* What a step does to the entry, and to the history of who made it.       *)
LEMMA EntryStep ==
    ASSUME IInv, NEW c \in Calls, Summary(c)
    PROVE  EntryInv'
<1> USE DEF IInv, EntryInv, Live
<1>1. UNCHANGED <<kind, alone>>
  BY DEF Summary, Moves, conf
<1>2. CASE entry' = entry
  BY <1>1, <1>2
<1>3. CASE Creates(c)
  <2>1. CASE kind \in Files \cup {"gcp"}
    BY <1>1, <1>3, <2>1, NewEmptyType DEF Creates
  <2>2. CASE kind \notin Files \cup {"gcp"}
    <3>1. <<c>> \in Seq(Values) /\ <<c>> # <<>>
      BY DEF Values
    <3> QED
      BY <1>1, <1>3, <2>2, <3>1, NewType DEF Creates
  <2> QED
    BY <2>1, <2>2
<1>4. CASE Adds(c)
  BY <1>1, <1>4, AddToType, AppendHead DEF Adds, Values, Entries
<1>5. CASE Overwrites(c)
  <2>1. <<c>> \in Seq(Values) /\ <<c>> # <<>>
    BY DEF Values
  <2> QED
    BY <1>1, <1>5, <2>1 DEF Overwrites, Entries
<1>6. CASE Removes(c)
  BY <1>1, <1>6, MoveType DEF Removes, Phases
<1>7. CASE Purges
  BY <1>1, <1>7, MoveType DEF Purges, Phases
<1> QED
  BY <1>2, <1>3, <1>4, <1>5, <1>6, <1>7 DEF Summary, Effect

LEMMA MadeStep ==
    ASSUME IInv, NEW c \in Calls, Summary(c), Witness(c)
    PROVE  \/ /\ Creates(c) /\ ~Live /\ Live'
              /\ \A d \in Calls : made[d] # "here"
              /\ made' = [made EXCEPT ![c] = "here"]
           \/ /\ entry' = entry \/ Adds(c) \/ Overwrites(c) \/ Purges
              /\ Live' = Live /\ made' = made
           \/ /\ Removes(c) /\ Live /\ ~Live'
              /\ made' = [d \in Calls |-> IF made[d] = "here" THEN "gone" ELSE made[d]]
<1> USE DEF IInv, Witness, Live
<1>0. made \in [Calls -> {"no", "here", "gone"}] /\ entry \in Entries
  BY DEF TypeOK, EntryInv
<1>1. CASE entry' = entry
  BY <1>0, <1>1
<1>2. CASE Creates(c)
  <2>1. entry.phase = "none" /\ entry'.phase = "live"
    <3>1. CASE kind \in Files \cup {"gcp"}
      BY <1>0, <1>2, <3>1, NewEmptyType DEF Creates
    <3>2. CASE kind \notin Files \cup {"gcp"}
      <4>1. <<c>> \in Seq(Values)
        BY DEF Values
      <4> QED
        BY <1>0, <1>2, <3>2, <4>1, NewType DEF Creates
    <3> QED
      BY <3>1, <3>2
  <2>2. \A d \in Calls : made[d] # "here"
    BY <2>1 DEF MadeInv
  <2> QED
    BY <1>0, <1>2, <2>1, <2>2
<1>3. CASE Adds(c)
  BY <1>0, <1>3, AddToType DEF Adds, Values
<1>4. CASE Overwrites(c)
  <2>1. entry'.phase = "live"
    BY <1>0, <1>4 DEF Overwrites, Entries
  <2> QED
    BY <1>0, <1>4, <2>1 DEF Overwrites
<1>5. CASE Removes(c)
  <2>1. entry.phase = "live" /\ entry'.phase # "live"
    BY <1>0, <1>5, MoveType DEF Removes, Phases
  <2> QED
    BY <1>0, <1>5, <2>1
<1>6. CASE Purges
  <2>1. entry.phase # "live" /\ entry'.phase # "live"
    BY <1>0, <1>6, MoveType DEF Purges, Phases
  <2> QED
    BY <1>0, <1>6, <2>1
<1> QED
  BY <1>1, <1>2, <1>3, <1>4, <1>5, <1>6 DEF Summary, Effect

(* What the calls have seen so far, and a little more.                     *)
LEMMA SeenStep ==
    ASSUME IInv, NEW c \in Calls, EntryInv', Witness(c), kind' = kind
    PROVE  /\ seen' \in [Calls -> SUBSET ({Absent, Empty} \cup Values)]
           /\ \A d \in Calls :
                  /\ seen[d] \subseteq seen'[d]
                  /\ Busy(d) => Visible(entry)' \subseteq seen'[d]
                  /\ ~Busy(d) => seen'[d] = seen[d]
<1>1. PICK e : e = entry'
  OBVIOUS
<1>2. e \in Entries /\ Visible(entry)' = Visible(e) /\ Visible(entry') = Visible(e)
  BY <1>1, kind' = kind DEF EntryInv, Visible
<1>3. Visible(e) \subseteq {Absent, Empty} \cup Values
  BY <1>2, VisibleType
<1> QED
  BY <1>2, <1>3 DEF IInv, TypeOK, Witness

LEMMA TypeStep ==
    ASSUME IInv, NEW c \in Calls, Summary(c), Witness(c), pc[c] \in CreateSteps \cup GetSteps \cup DeleteSteps
    PROVE  TypeOK'
<1> USE DEF IInv
<1>1. EntryInv'
  BY EntryStep
<1>2. /\ entry'.phase \in {"none", "live", "deleting", "deleted", "purging"}
      /\ entry'.vers \in Seq(Values) /\ entry'.id \in Nat
  BY <1>1 DEF EntryInv, Entries, Phases
<1>3. entry'.phase # "live" => entry'.vers = <<>>
  <2>1. CASE entry'.phase = "live"
    BY <2>1
  <2>2. CASE entry'.phase # "live"
    <3>1. entry' = entry \/ Removes(c) \/ Purges
      BY <2>2, MadeStep DEF Live, Adds, Overwrites
    <3>2. CASE entry' = entry
      BY <3>2 DEF TypeOK
    <3>3. CASE Removes(c) \/ Purges
      BY <3>3, MoveType DEF Removes, Purges, Phases, EntryInv
    <3> QED
      BY <3>1, <3>2, <3>3
  <2> QED
    BY <2>1, <2>2
<1>4. made' \in [Calls -> {"no", "here", "gone"}]
  BY MadeStep DEF TypeOK
<1>6. UNCHANGED <<kind, alone, denied, calls, op>>
  BY Zenon DEF Summary, Moves, conf, callVars
<1>5. seen' \in [Calls -> SUBSET ({Absent, Empty} \cup Values)]
  BY <1>1, <1>6, SeenStep
<1>7. \A d \in Calls : /\ pc'[d] \in CreateSteps => op'[d] = "create"
                       /\ pc'[d] \in GetSteps => op'[d] = "get"
                       /\ pc'[d] \in DeleteSteps => op'[d] = "delete"
  <2>1. \A d \in Calls \ {c} : pc'[d] = pc[d]
    BY DEF Summary, Moves, Alone
  <2>2. /\ pc[c] \in CreateSteps => pc'[c] \in CreateSteps \cup {"ok", "exists", "error"}
        /\ pc[c] \in GetSteps => pc'[c] \in GetSteps \cup {"ok", "notfound", "error"}
        /\ pc[c] \in DeleteSteps => pc'[c] \in DeleteSteps \cup {"ok", "notfound", "error"}
    BY DEF Summary, CreateOutcome, GetOutcome, DeleteOutcome
  <2>3. /\ CreateSteps \cap GetSteps = {} /\ CreateSteps \cap DeleteSteps = {}
        /\ GetSteps \cap DeleteSteps = {}
        /\ (CreateSteps \cup GetSteps \cup DeleteSteps) \cap {"ok", "exists", "notfound", "error"} = {}
    BY DEF CreateSteps, GetSteps, DeleteSteps
  <2> QED
    BY <1>6, <2>1, <2>2, <2>3 DEF TypeOK
<1>8. /\ pc' \in [Calls -> Results \cup CreateSteps \cup GetSteps \cup DeleteSteps]
      /\ tries' \in [Calls -> 0 .. N]
      /\ stranded' \in BOOLEAN /\ lock' \in Calls \cup {NoCall}
      /\ ref' \in [Calls -> Nat] /\ got' \in [Calls -> {Absent, Empty} \cup Values]
      /\ more' \in [Calls -> Nat]
  BY DEF Summary, Moves, Alone, Steps
<1> QED
  BY <1>2, <1>3, <1>4, <1>5, <1>6, <1>7, <1>8 DEF TypeOK

(* A call that takes a step is under way, and its method is known.         *)
LEMMA StepBusy ==
    ASSUME TypeOK, NEW c \in Calls, Request(c)
    PROVE  /\ pc[c] \in CreateSteps \cup GetSteps \cup DeleteSteps /\ Busy(c) /\ pc[c] # "idle"
           /\ op[c] = "create" => pc[c] \in CreateSteps
           /\ op[c] = "get" => pc[c] \in GetSteps
           /\ op[c] = "delete" => pc[c] \in DeleteSteps
<1>1. pc[c] \in CreateSteps \cup GetSteps \cup DeleteSteps
  BY DEF Request, At, CreateSteps, GetSteps, DeleteSteps,
         MemCreate, MemGet, MemDelete, FsOpen, FsWrite, FsRemove, FsGet, FsRead, FsDelete,
         AwsCreate, AwsGet, AwsDelete, GcpCreateSecret, GcpAddSecretVersion, GcpGet, GcpDelete,
         AzureCheck, AzureSet, AzurePurge, AzureSetAgain, AzureFirst, AzureRead, AzureSoftDelete,
         AzureClear, VaultCheck, VaultPut, VaultGet, VaultDelete, FortanixCreate, FortanixGet,
         FortanixExport, FortanixDestroy, EntrustCreate, EntrustGet, EntrustDelete,
         GemaltoCreate, GemaltoGet, GemaltoDelete
<1>2. Busy(c) /\ pc[c] # "idle"
  BY <1>1 DEF Busy, Results, CreateSteps, GetSteps, DeleteSteps
<1> QED
  BY <1>1, <1>2 DEF TypeOK

LEMMA MadeInvStep ==
    ASSUME IInv, NEW c \in Calls, Step(c)
    PROVE  MadeInv' /\ StoredInv'
<1> USE DEF IInv
<1>0. Summary(c) /\ Witness(c) /\ pc[c] \in CreateSteps \cup GetSteps \cup DeleteSteps /\ pc[c] # "idle"
  BY RequestSummary, StepBusy DEF Step
<1>1. /\ UNCHANGED <<kind, calls, op>>
      /\ \A d \in Calls \ {c} : pc'[d] = pc[d]
  BY <1>0 DEF Summary, Moves, Alone, conf, callVars
<1>2. c <= calls /\ (Creates(c) => op[c] = "create")
  BY <1>0 DEF MadeInv, Creates, TypeOK
<1>3. MadeInv'
  <2>1. \A d \in Calls : pc'[d] # "idle" => d <= calls'
    BY <1>1, <1>2 DEF MadeInv
  <2>2. CASE /\ Creates(c) /\ Live' /\ \A d \in Calls : made[d] # "here"
             /\ made' = [made EXCEPT ![c] = "here"]
    BY <1>1, <1>2, <2>1, <2>2 DEF MadeInv, TypeOK
  <2>3. CASE Live' = Live /\ made' = made
    BY <1>1, <2>1, <2>3 DEF MadeInv
  <2>4. CASE made' = [d \in Calls |-> IF made[d] = "here" THEN "gone" ELSE made[d]]
    BY <1>1, <2>1, <2>4 DEF MadeInv, TypeOK
  <2> QED
    BY <1>0, <2>2, <2>3, <2>4, MadeStep
<1>4. \A d \in Calls : made[d] # "no" => made'[d] # "no"
  BY <1>0, MadeStep DEF TypeOK
<1>5. ASSUME NEW d \in Calls, op'[d] = "create", pc'[d] \in {"ok", "version", "write"},
             kind' \notin {"azure", "vault1"}
      PROVE  made'[d] # "no"
  <2>1. CASE d # c
    BY <1>1, <1>4, <1>5, <2>1 DEF StoredInv
  <2>2. CASE d = c
    <3>1. pc[c] \in CreateSteps
      BY <1>1, <1>5, <2>2, StepBusy DEF Step
    <3>2. Creates(c) \/ pc[c] \in {"write", "version"}
      BY <1>0, <1>1, <1>5, <2>2, <3>1 DEF Summary, CreateOutcome
    <3>3. CASE Creates(c)
      <4>1. made'[c] = "here" \/ entry' = entry
        BY <1>0, <3>3, MadeStep DEF TypeOK, Creates, Adds, Overwrites, Purges, Removes, Live
      <4>2. entry'.phase = "live" /\ entry.phase = "none"
        <5>1. <<c>> \in Seq(Values)
          BY DEF Values
        <5> QED
          BY <3>3, <5>1, NewType, NewEmptyType DEF Creates, EntryInv
      <4> QED
        BY <2>2, <4>1, <4>2
    <3>4. CASE pc[c] \in {"write", "version"}
      BY <1>1, <1>4, <1>5, <2>2, <3>4 DEF StoredInv
    <3> QED
      BY <3>2, <3>3, <3>4
  <2> QED
    BY <2>1, <2>2
<1>6. ASSUME NEW d \in Calls, made'[d] = "here", kind' \in Atomic
      PROVE  Content(entry') = d
  <2>1. kind \notin Files \cup {"gcp", "azure", "vault1"}
    BY <1>1, <1>6 DEF Atomic, Files
  <2>2. CASE made[d] = "here" /\ entry' = entry
    BY <1>1, <1>6, <2>2 DEF StoredInv
  <2>3. CASE d = c /\ Creates(c)
    <3>1. <<c>> \in Seq(Values) /\ <<c>> # <<>> /\ Head(<<c>>) = c
      BY DEF Values
    <3>2. entry' = New(<<c>>)
      BY <2>1, <2>3 DEF Creates
    <3>3. entry' \in Entries /\ entry'.phase = "live" /\ entry'.vers = <<c>>
      BY <3>1, <3>2, NewType DEF EntryInv
    <3> QED
      BY <2>3, <3>1, <3>3, ContentCases
  <2> QED
    BY <1>0, <1>6, <2>1, <2>2, <2>3, MadeStep DEF TypeOK, Adds, Overwrites, Purges
<1> QED
  BY <1>3, <1>5, <1>6 DEF StoredInv

LEMMA SeenInvStep ==
    ASSUME IInv, NEW c \in Calls, Step(c)
    PROVE  SeenInv' /\ HonestAnswers'
<1> USE DEF IInv
<1>0. Summary(c) /\ Witness(c) /\ Request(c) /\ Busy(c)
  BY RequestSummary, StepBusy DEF Step
<1>1. /\ UNCHANGED <<kind, alone, denied, calls, op>> /\ (stranded => stranded')
      /\ \A d \in Calls \ {c} : pc'[d] = pc[d] /\ ref'[d] = ref[d] /\ got'[d] = got[d]
  BY <1>0 DEF Summary, Moves, Alone, conf, callVars
<1>2. EntryInv'
  BY <1>0, EntryStep
<1>3. \A d \in Calls : /\ seen[d] \subseteq seen'[d]
                       /\ Busy(d) => Visible(entry)' \subseteq seen'[d]
                       /\ ~Busy(d) => seen'[d] = seen[d]
  BY <1>0, <1>1, <1>2, SeenStep
<1>4. /\ Content(entry) \in seen'[c] /\ Content(entry') \in seen'[c]
      /\ kind = "azure" => Versions(entry) \subseteq seen'[c]
  <2>1. Visible(entry) \subseteq seen[c] /\ Content(entry) \in Visible(entry)
    BY <1>0, VisibleType DEF SeenInv, EntryInv
  <2>2. Content(entry') \in seen'[c]
    BY <1>0, <1>3 DEF Visible
  <2> QED
    BY <1>3, <2>1, <2>2 DEF Visible
<1>5. /\ pc[c] \in CreateSteps => pc'[c] \notin {"read", "clear", "notfound"} /\ op[c] = "create"
      /\ pc[c] \in GetSteps => pc'[c] \notin {"clear", "exists"} /\ op[c] = "get"
      /\ pc[c] \in DeleteSteps => pc'[c] \notin {"read", "exists"} /\ op[c] = "delete"
      /\ pc[c] \in CreateSteps \cup GetSteps \cup DeleteSteps
  BY <1>0, StepBusy DEF Summary, CreateOutcome, GetOutcome, DeleteOutcome, TypeOK,
                        CreateSteps, GetSteps, DeleteSteps
<1>6. Absent \notin Values /\ (entry'.phase # "live" => Content(entry') = Absent)
      /\ (Live => Content(entry) # Absent)
  BY <1>2, ContentCases DEF EntryInv, Live
<1>7. /\ pc'[c] = "read" /\ kind = "azure" => ref'[c] \in seen'[c]
      /\ pc'[c] = "clear" => Absent \in seen'[c]
  BY <1>0, <1>3, <1>4, <1>5, <1>6 DEF Summary, GetOutcome, DeleteOutcome, SeenInv
<1>8. SeenInv'
  <2>1. \A d \in Calls : Busy(d)' => Busy(d)
    BY <1>0, <1>1 DEF Busy
  <2> QED
    BY <1>1, <1>3, <1>7, <2>1 DEF SeenInv
<1>9. HonestAnswers'
  <2>1. ASSUME NEW d \in Calls \ {c}
        PROVE  /\ op'[d] = "get" /\ pc'[d] = "ok" =>
                      /\ got'[d] \in seen'[d] \/ (kind' \in Files /\ ~alone' /\ Empty \in seen'[d])
                      /\ got'[d] \in Values \/ (kind' = "fs" /\ (stranded' \/ ~alone'))
               /\ pc'[d] = "notfound" =>
                      Absent \in seen'[d] \/ (kind' = "gcp" /\ Empty \in seen'[d]) \/ denied'
               /\ pc'[d] = "exists" => seen'[d] # {Absent}
               /\ op'[d] = "delete" /\ pc'[d] = "ok" => Absent \in seen'[d] \/ denied'
    <3>1. CASE Busy(d)
      BY <1>1, <3>1 DEF Busy, Results
    <3>2. CASE ~Busy(d)
      BY <1>1, <1>3, <3>2 DEF HonestAnswers
    <3> QED
      BY <3>1, <3>2
  <2>2. op'[c] = "get" /\ pc'[c] = "ok" =>
            /\ got'[c] \in seen'[c] \/ (kind' \in Files /\ ~alone' /\ Empty \in seen'[c])
            /\ got'[c] \in Values \/ (kind' = "fs" /\ (stranded' \/ ~alone'))
    <3> SUFFICES ASSUME op[c] = "get", pc'[c] = "ok"
                 PROVE  /\ got'[c] \in seen'[c] \/ (kind \in Files /\ ~alone /\ Empty \in seen'[c])
                        /\ got'[c] \in Values \/ (kind = "fs" /\ (stranded \/ ~alone))
      BY <1>1
    <3>1. pc[c] \in GetSteps /\ ref[c] \in Nat
      BY <1>0, StepBusy DEF TypeOK
    <3>2. got'[c] \in seen'[c] \/ (kind \in Files /\ ~alone /\ Empty \in seen'[c])
      <4>1. pc[c] = "read" /\ kind \in Files =>
                \A v \in FileContent(ref[c]) : v \in seen[c] \/ (~alone /\ Empty \in seen[c])
        BY <3>1 DEF ReadInv
      <4>2. pc[c] = "read" /\ kind = "azure" => ref[c] \in seen[c]
        BY DEF SeenInv
      <4>3. \/ got'[c] = Content(entry)
            \/ pc[c] = "read" /\ kind = "azure" /\ got'[c] = ref[c]
            \/ pc[c] = "read" /\ kind \in Files /\ got'[c] \in FileContent(ref[c])
        BY <1>0, <3>1 DEF Summary, GetOutcome
      <4> QED
        BY <1>3, <1>4, <4>1, <4>2, <4>3
    <3>3. got'[c] \in Values \/ (kind = "fs" /\ (stranded \/ ~alone))
      <4>1. pc[c] = "read" /\ kind = "fs" /\ Empty \in FileContent(ref[c]) => stranded \/ ~alone
        BY <3>1 DEF ReadInv, Files
      <4> QED
        BY <1>0, <3>1, <4>1 DEF Summary, GetOutcome
    <3> QED
      BY <3>2, <3>3
  <2>3. pc'[c] = "notfound" =>
            Absent \in seen'[c] \/ (kind' = "gcp" /\ Empty \in seen'[c]) \/ denied'
    BY <1>0, <1>1, <1>4, <1>5 DEF Summary, GetOutcome, DeleteOutcome
  <2>4. pc'[c] = "exists" => seen'[c] # {Absent}
    BY <1>0, <1>4, <1>5, <1>6 DEF Summary, CreateOutcome
  <2>5. op'[c] = "delete" /\ pc'[c] = "ok" => Absent \in seen'[c] \/ denied'
    BY <1>0, <1>1, <1>3, <1>4, <1>5, <1>6, StepBusy DEF Summary, DeleteOutcome, SeenInv
  <2> QED
    BY <2>1, <2>2, <2>3, <2>4, <2>5 DEF HonestAnswers
<1> QED
  BY <1>8, <1>9

LEMMA GcpInvStep ==
    ASSUME IInv, NEW c \in Calls, Step(c)
    PROVE  GcpInv'
<1> USE DEF IInv
<1>0. Summary(c) /\ Witness(c)
  BY RequestSummary DEF Step
<1>1. /\ UNCHANGED <<kind, op>>
      /\ \A d \in Calls \ {c} : pc'[d] = pc[d]
  BY <1>0 DEF Summary, Moves, Alone, conf, callVars
<1>2. EntryInv'
  BY <1>0, EntryStep
<1> SUFFICES ASSUME kind = "gcp", entry'.id <= 1
             PROVE  GcpInv'
  BY <1>1 DEF GcpInv
<1>3. CASE /\ Creates(c) /\ ~Live /\ Live' /\ \A d \in Calls : made[d] # "here"
           /\ made' = [made EXCEPT ![c] = "here"]
  <2>1. /\ entry' = New(<<>>) /\ entry'.id = entry.id + 1 /\ entry.id \in Nat
    BY <1>3 DEF Creates, New, EntryInv, Entries
  <2>2. Content(entry') = Empty
    BY <1>2, <2>1, NewEmptyType, ContentCases DEF EntryInv
  <2>3. entry.id = 0 /\ \A d \in Calls : made[d] = "no"
    BY <2>1 DEF GcpInv
  <2>4. pc'[c] # "ok"
    BY <1>0, <1>3 DEF Creates, Summary, CreateOutcome, Adds, Files, Atomic
  <2> QED
    BY <1>1, <1>3, <2>1, <2>2, <2>3, <2>4 DEF GcpInv, TypeOK
<1>4. CASE Adds(c) /\ Live' = Live /\ made' = made
  <2>1. pc[c] = "version" /\ op[c] = "create" /\ entry' = AddTo(c) /\ Live
    BY <1>4 DEF Adds, TypeOK
  <2>2. made[c] # "no"
    BY <2>1 DEF StoredInv
  <2>3. entry'.id = entry.id /\ entry'.vers = Append(entry.vers, c) /\ entry'.phase = "live"
    BY <2>1, AddToType DEF EntryInv, Values, Live
  <2>4. \A d \in Calls : made[d] = "here" => d = c
    BY <2>2, <2>3 DEF GcpInv
  <2>5. made[c] = "here" => Content(entry') = c
    <3>1. CASE entry.vers = <<>>
      BY <1>2, <2>3, <3>1, AppendHead, ContentCases DEF EntryInv, Entries, Values
    <3>2. CASE entry.vers # <<>>
      <4>1. Head(entry'.vers) = Head(entry.vers) /\ entry'.vers # <<>>
        BY <2>3, <3>2, AppendHead DEF EntryInv, Entries, Values
      <4>2. Content(entry') = Content(entry) /\ Content(entry) # Empty
        BY <1>2, <2>1, <2>3, <3>2, <4>1, ContentCases DEF EntryInv, Live
      <4> QED
        BY <2>3, <4>2 DEF GcpInv
    <3> QED
      BY <3>1, <3>2
  <2> QED
    BY <1>1, <1>4, <2>1, <2>3, <2>4, <2>5 DEF GcpInv, Live
<1>5. CASE entry' = entry /\ ~Adds(c) /\ Live' = Live /\ made' = made
  <2>1. op[c] = "create" => pc'[c] # "ok" \/ made[c] # "here"
    BY <1>0, <1>5, StepBusy DEF Step, Summary, CreateOutcome, Atomic, Files, Creates, Live, MadeInv
  <2> QED
    BY <1>1, <1>5, <2>1 DEF GcpInv, MadeInv
<1>6. CASE /\ Removes(c) /\ Live /\ ~Live'
           /\ made' = [d \in Calls |-> IF made[d] = "here" THEN "gone" ELSE made[d]]
  <2>1. entry'.id = entry.id
    BY <1>6, MoveType DEF Removes, EntryInv, Phases
  <2>2. \A d \in Calls : made'[d] # "here" /\ (made'[d] # "no" <=> made[d] # "no")
    BY <1>6 DEF TypeOK
  <2> QED
    BY <1>6, <2>1, <2>2 DEF GcpInv
<1> QED
  BY <1>0, <1>3, <1>4, <1>5, <1>6, MadeStep DEF Overwrites, Purges

(* Only the actions of the file system stores change files.                *)
LEMMA FsOnly ==
    ASSUME NEW c \in Calls, Request(c), kind \in Files
    PROVE  FsOpen(c) \/ FsWrite(c) \/ FsRemove(c) \/ FsGet(c) \/ FsRead(c) \/ FsDelete(c)
BY DEF Request, At, Files, Vaults,
       MemCreate, MemGet, MemDelete,
       AwsCreate, AwsGet, AwsDelete, GcpCreateSecret, GcpAddSecretVersion, GcpGet, GcpDelete,
       AzureCheck, AzureSet, AzurePurge, AzureSetAgain, AzureFirst, AzureRead, AzureSoftDelete,
       AzureClear, VaultCheck, VaultPut, VaultGet, VaultDelete, FortanixCreate, FortanixGet,
       FortanixExport, FortanixDestroy, EntrustCreate, EntrustGet, EntrustDelete,
       GemaltoCreate, GemaltoGet, GemaltoDelete

LEMMA FilesInvStep ==
    ASSUME IInv, NEW c \in Calls, Step(c)
    PROVE  FilesInv' /\ LockInv'
<1> USE DEF IInv
<1>0. Summary(c) /\ Witness(c) /\ Request(c)
  BY RequestSummary DEF Step
<1>1. UNCHANGED <<kind, alone, op>> /\ \A d \in Calls \ {c} : pc'[d] = pc[d] /\ ref'[d] = ref[d]
  BY <1>0 DEF Summary, Moves, Alone, conf, callVars
<1>2. EntryInv'
  BY <1>0, EntryStep
<1> SUFFICES ASSUME kind \in Files PROVE FilesInv' /\ LockInv'
  BY <1>1 DEF FilesInv, LockInv
<1>3. /\ entry \in Entries /\ entry' \in Entries /\ entry.id \in Nat
      /\ Content(entry) = Empty => Live
      /\ pc \in [Calls -> Steps] /\ ref \in [Calls -> Nat]
  BY <1>2, ContentCases DEF EntryInv, Entries, Live, TypeOK, Steps
<1>4. NoCall \notin Calls /\ Empty \notin Values /\ Absent # Empty /\ Calls = Values
  BY ContentCases, <1>3 DEF NoCall, Calls, Values
<1> USE DEF At, Goto
<1>5. CASE FsOpen(c)
  <2>1. alone => lock = NoCall
    BY <1>5 DEF FsOpen, Locked
  <2>2. CASE entry.phase = "none" /\ pc' = [pc EXCEPT ![c] = "write"] /\ entry' = New(<<>>)
             /\ ref' = [ref EXCEPT ![c] = entry'.id] /\ lock' = IF alone THEN c ELSE NoCall
    <3>1. /\ entry'.id = entry.id + 1 /\ entry'.vers = <<>> /\ entry'.phase = "live"
      BY <2>2, NewEmptyType, <1>3 DEF New, Files
    <3>2. /\ \A d \in Calls : made[d] # "here"
          /\ made' = [made EXCEPT ![c] = "here"]
      BY <1>0, <2>2, <3>1, MadeStep DEF Live, Removes
    <3>3. FilesInv'
      BY <1>1, <1>3, <2>2, <3>1, <3>2 DEF FilesInv, TypeOK
    <3>4. LockInv'
      BY <1>1, <1>3, <1>4, <2>1, <2>2, <3>1 DEF LockInv
    <3> QED
      BY <3>3, <3>4
  <2>3. CASE /\ entry' = entry /\ ref' = ref
             /\ \/ pc' = [pc EXCEPT ![c] = "exists"] /\ lock' = lock
                \/ pc' = [pc EXCEPT ![c] = "remove"] /\ lock' = IF alone THEN c ELSE NoCall
    <3>1. made' = made
      BY <1>0, <2>3, MadeStep DEF Creates, Removes, Live
    <3>2. FilesInv'
      BY <1>1, <1>3, <2>3, <3>1 DEF FilesInv, Live
    <3>3. LockInv'
      BY <1>1, <1>3, <1>4, <1>5, <2>1, <2>3 DEF LockInv, FsOpen, FsFrame
    <3> QED
      BY <3>2, <3>3
  <2> QED
    BY <1>5, <2>2, <2>3 DEF FsOpen
<1>6. CASE FsWrite(c)
  <2>1. alone => lock = c
    BY <1>6 DEF FsWrite, LockInv
  <2>2. UNCHANGED <<ref, stranded>> /\ op[c] = "create" /\ pc[c] = "write"
    BY <1>6 DEF FsWrite, FsFrame, TypeOK, CreateSteps
  <2>3. CASE /\ Live /\ entry.id = ref[c] /\ entry' = AddTo(c)
             /\ pc' = [pc EXCEPT ![c] = "ok"] /\ Unlock(c)
    <3>1. made[c] = "here" /\ entry.vers = <<>> /\ \A d \in Calls : made[d] = "here" => d = c
      BY <1>6, <2>3 DEF FsWrite, FilesInv, MadeInv
    <3>2. /\ entry'.id = entry.id /\ entry'.phase = "live"
          /\ entry'.vers = Append(entry.vers, c)
      BY <1>3, <1>4, <2>3, AddToType DEF Live
    <3>3. Content(entry') = c
      BY <1>3, <1>4, <3>1, <3>2, AppendHead, ContentCases DEF Entries
    <3>4. made' = made
      BY <1>0, <2>3, <3>2, MadeStep DEF Live
    <3>5. FilesInv'
      BY <1>1, <1>3, <2>2, <2>3, <3>1, <3>2, <3>3, <3>4 DEF FilesInv, Live
    <3>6. LockInv'
      BY <1>1, <1>3, <1>4, <2>1, <2>3, <3>3 DEF LockInv
    <3> QED
      BY <3>5, <3>6
  <2>4. CASE /\ entry' = entry
             /\ \/ ~(Live /\ entry.id = ref[c]) /\ pc' = [pc EXCEPT ![c] = "ok"] /\ Unlock(c)
                \/ pc' = [pc EXCEPT ![c] = "remove"] /\ lock' = lock
    <3>1. made' = made
      BY <1>0, <2>4, MadeStep DEF Creates, Removes, Live
    <3>2. FilesInv'
      BY <1>1, <1>3, <2>2, <2>4, <3>1 DEF FilesInv, MadeInv, Live
    <3>3. LockInv'
      BY <1>1, <1>3, <1>4, <2>1, <2>2, <2>4 DEF LockInv, Unlock
    <3> QED
      BY <3>2, <3>3
  <2> QED
    BY <1>6, <2>3, <2>4 DEF FsWrite
<1>7. CASE FsRemove(c)
  <2>1. alone => lock = c /\ lock' = NoCall
    BY <1>7 DEF FsRemove, LockInv, Unlock
  <2>2. ref' = ref /\ pc' = [pc EXCEPT ![c] = "error"]
    BY <1>7 DEF FsRemove
  <2>3. \/ entry' = entry /\ (stranded' = TRUE \/ ~Live)
        \/ entry' = Move("none") /\ Live
    BY <1>7 DEF FsRemove, Remove, Answer
  <2>4. entry'.id = entry.id /\ (entry' = Move("none") => entry'.phase = "none")
    BY <1>3, <2>3, MoveType DEF Phases
  <2>5. FilesInv'
    <3>1. Live' => entry' = entry /\ made' = made
      BY <1>0, <2>3, <2>4, MadeStep DEF Live, Creates, Removes
    <3>2. \A d \in Calls : made'[d] = "here" => Live'
      BY MadeInvStep DEF MadeInv
    <3> QED
      BY <1>1, <1>3, <2>2, <2>4, <3>1, <3>2 DEF FilesInv, Live
  <2>6. LockInv'
    BY <1>1, <1>2, <1>3, <1>4, <2>1, <2>2, <2>3, <2>4, ContentCases DEF LockInv, Live
  <2> QED
    BY <2>5, <2>6
<1>8. CASE FsGet(c) \/ FsRead(c) \/ FsDelete(c)
  <2>9. UNCHANGED <<lock, stranded>> /\ pc[c] \in {"get", "read", "delete"}
    BY <1>8 DEF FsGet, FsRead, FsDelete, FsFrame
  <2>10. op[c] # "create"
    BY <2>9 DEF TypeOK, GetSteps, DeleteSteps
  <2>11. ref'[c] <= entry.id
    <3>1. ref[c] <= entry.id
      BY DEF FilesInv
    <3>2. ref' = ref \/ ref' = [ref EXCEPT ![c] = entry.id]
      BY <1>8 DEF FsGet, FsRead, FsDelete
    <3> QED
      BY <1>3, <3>1, <3>2
  <2>1. /\ UNCHANGED <<lock, stranded>> /\ pc[c] \in {"get", "read", "delete"} /\ op[c] # "create"
        /\ ref'[c] <= entry.id
    BY <2>9, <2>10, <2>11
  <2>2. pc'[c] \in {"ok", "error", "notfound", "read"}
    BY <1>3, <1>8 DEF FsGet, FsRead, FsDelete, EfsDecrypt, Remove, Answer
  <2>3. entry' = entry \/ (Live /\ entry' = Move("none"))
    BY <1>8 DEF FsGet, FsRead, FsDelete, Remove, Answer
  <2>4. entry'.id = entry.id /\ (entry' = Move("none") => entry'.phase = "none")
    BY <1>3, <2>3, MoveType DEF Phases
  <2>5. Live' => entry' = entry /\ made' = made
    BY <1>0, <2>3, <2>4, MadeStep DEF Live, Creates, Removes
  <2>6. \A d \in Calls : made'[d] = "here" => Live' /\ d # c
    <3>1. made[c] = "no"
      BY <2>1 DEF MadeInv
    <3>2. \A d \in Calls : made'[d] = "here" => made[d] = "here" /\ Live'
      BY <1>0, <2>1, <2>3, <2>4, MadeStep DEF TypeOK, MadeInv, Live, Creates, CreateSteps
    <3> QED
      BY <3>1, <3>2
  <2>7. FilesInv'
    BY <1>1, <1>3, <2>1, <2>2, <2>4, <2>5, <2>6 DEF FilesInv, Live
  <2>8. LockInv'
    <3>1. Content(entry') = Empty => entry' = entry
      BY <1>3, <2>3, <2>4, ContentCases
    <3>2. \A d \in Calls : pc'[d] \in {"write", "remove"} <=> pc[d] \in {"write", "remove"}
      BY <1>1, <2>1, <2>2
    <3>3. \A d \in Calls : pc[d] \in {"write", "remove"} => pc'[d] = pc[d]
      BY <1>1, <2>1
    <3> QED
      BY <1>1, <2>1, <3>1, <3>2, <3>3 DEF LockInv
  <2> QED
    BY <2>7, <2>8
<1> QED
  BY <1>0, <1>5, <1>6, <1>7, <1>8, FsOnly

LEMMA OpenedFile ==
    ASSUME ReadInv, kind \in Files, NEW c \in Calls, pc[c] = "write"
    PROVE  ref[c] # 0
BY DEF ReadInv

(* What the readers of files have seen.                                    *)
LEMMA ReadInvStep ==
    ASSUME IInv, NEW c \in Calls, Step(c)
    PROVE  ReadInv'
<1> USE DEF IInv
<1>0. Summary(c) /\ Witness(c) /\ Request(c) /\ Busy(c)
  BY RequestSummary, StepBusy DEF Step
<1>1. /\ UNCHANGED <<kind, alone, op>> /\ (stranded => stranded')
      /\ \A d \in Calls \ {c} : pc'[d] = pc[d] /\ ref'[d] = ref[d]
      /\ ref' \in [Calls -> Nat]
  BY <1>0 DEF Summary, Moves, Alone, conf, callVars
<1>2. EntryInv'
  BY <1>0, EntryStep
<1> SUFFICES ASSUME kind \in Files PROVE ReadInv'
  BY <1>1 DEF ReadInv
<1>3. /\ entry \in Entries /\ entry' \in Entries /\ entry.id \in Nat
      /\ pc \in [Calls -> Steps] /\ ref \in [Calls -> Nat] /\ NoCall \notin Calls
      /\ \A d \in Calls : ref[d] <= entry.id
  <2>1. entry \in Entries /\ entry' \in Entries
    BY <1>2 DEF EntryInv
  <2>2. entry.id \in Nat
    BY <2>1 DEF Entries
  <2>3. pc \in [Calls -> Steps] /\ ref \in [Calls -> Nat]
    BY DEF TypeOK, Steps
  <2>4. NoCall \notin Calls
    BY DEF NoCall, Calls
  <2>5. \A d \in Calls : ref[d] <= entry.id
    BY DEF FilesInv
  <2> QED
    BY <2>1, <2>2, <2>3, <2>4, <2>5
<1>4. \A d \in Calls : /\ seen[d] \subseteq seen'[d]
                       /\ Busy(d) => Content(entry) \in seen[d]
  BY <1>0, <1>1, <1>2, <1>3, SeenStep, VisibleType DEF SeenInv
<1> USE DEF At, Goto
(* All but three steps leave the files alone that calls have opened.       *)
<1>a. ASSUME ref' = ref, \A f \in Nat : FileContent(f)' = FileContent(f), Live' => entry' = entry,
             \A d \in Calls : pc'[d] \in {"write", "read", "idle"} => pc[d] = pc'[d],
             alone /\ (\E d \in Calls : pc[d] = "read") => lock' = lock
      PROVE  ReadInv'
  BY <1>a, <1>1, <1>3, <1>4 DEF ReadInv, Live
<1>5. CASE FsOpen(c)
  <2>1. ~(alone /\ \E d \in Calls : pc[d] = "read")
    BY <1>5 DEF FsOpen, Reading
  <2>2. \A f \in Nat : FileContent(f)' = FileContent(f)
    <3>1. pc[c] # "ok" /\ pc'[c] # "ok"
      BY <1>3, <1>5 DEF FsOpen
    <3> QED
      BY <1>1, <3>1, FileKept
  <2>3. CASE entry.phase = "none" /\ pc' = [pc EXCEPT ![c] = "write"] /\ entry' = New(<<>>)
             /\ ref' = [ref EXCEPT ![c] = entry'.id]
    <3>1. /\ entry'.id = entry.id + 1 /\ Content(entry') = Empty /\ Live'
      BY <1>3, <2>3, NewEmptyType, ContentCases DEF New, Files, Live
    <3>2. Empty \in FileContent(entry.id + 1)
      BY <1>3, FileContentType DEF Writers
    <3>3. \A d \in Calls : pc'[d] \in {"read", "idle"} => pc[d] = pc'[d] /\ ref'[d] = ref[d]
      BY <1>1, <1>3, <2>3
    <3> QED
      BY <1>1, <1>3, <1>4, <2>1, <2>2, <2>3, <3>1, <3>2, <3>3 DEF ReadInv
  <2>4. CASE /\ entry' = entry /\ ref' = ref
             /\ pc' = [pc EXCEPT ![c] = "exists"] \/ pc' = [pc EXCEPT ![c] = "remove"]
    BY <1>a, <1>3, <2>1, <2>2, <2>4
  <2> QED
    BY <1>5, <2>3, <2>4 DEF FsOpen
<1>6. CASE FsWrite(c)
  <2>1. /\ ref' = ref /\ pc[c] = "write" /\ op[c] = "create" /\ ref[c] # 0
        /\ ~(alone /\ \E d \in Calls : pc[d] = "read")
    <3>1. ref' = ref /\ pc[c] = "write"
      BY <1>6 DEF FsWrite
    <3>2. op[c] = "create"
      BY <3>1 DEF TypeOK, CreateSteps
    <3>3. alone => lock # NoCall
      BY <1>3, <3>1 DEF LockInv
    <3>4. ref[c] # 0
      BY <3>1, OpenedFile
    <3>5. \A d \in Calls : ref[d] \in Nat /\ (pc[d] = "read" /\ alone => lock = NoCall)
      BY <1>3 DEF ReadInv
    <3> QED
      BY <3>1, <3>2, <3>3, <3>4, <3>5
  <2>2. CASE pc' = [pc EXCEPT ![c] = "remove"] /\ entry' = entry
    <3>1. \A f \in Nat : FileContent(f)' = FileContent(f)
      BY <1>1, <1>3, <2>1, <2>2, FileKept
    <3> QED
      BY <1>a, <1>3, <2>1, <2>2, <3>1
  <2>3. CASE /\ pc' = [pc EXCEPT ![c] = "ok"]
             /\ entry' = IF Live /\ entry.id = ref[c] THEN AddTo(c) ELSE entry
    <3>1. \A f \in Nat : f # ref[c] => FileContent(f)' = FileContent(f)
      BY <1>1, <1>3, <2>1, <2>3, FileKept
    <3>2. FileContent(ref[c]) = {Empty}
      <4>1. Writers(ref[c]) = {}
        BY <2>1 DEF Writers, ReadInv
      <4> QED
        BY <4>1, FileContentType
    <3>3. ASSUME NEW f \in Nat, f = ref[c]
          PROVE  FileContent(f)' = {c}
      <4>1. Writers(f)' = {c}
        BY <1>1, <1>3, <2>1, <2>3, <3>3 DEF Writers, ReadInv
      <4> QED
        BY <4>1 DEF FileContent, Writers
    <3>4. \A f \in Nat : Live' /\ entry'.id = f => Content(entry)' \in FileContent(f)'
      <4>1. CASE Live /\ entry.id = ref[c] /\ entry' = AddTo(c)
        <5>1. made[c] = "here" /\ entry.vers = <<>>
          BY <2>1, <4>1 DEF FilesInv
        <5>2. entry'.id = entry.id /\ entry'.phase = "live" /\ entry'.vers = Append(entry.vers, c)
          BY <1>3, <4>1, AddToType DEF Live, Values
        <5>3. Content(entry') = c
          BY <1>3, <5>1, <5>2, AppendHead, ContentCases DEF Entries, Values
        <5> QED
          BY <3>3, <4>1, <5>2, <5>3
      <4>2. CASE entry' = entry /\ ~(Live /\ entry.id = ref[c])
        BY <3>1, <4>2 DEF ReadInv, Live
      <4> QED
        BY <2>3, <4>1, <4>2
    <3>5. Live' => Live /\ entry'.id = entry.id
      BY <1>3, <2>3, AddToType DEF Live, Values
    <3>6. \A d \in Calls : pc'[d] \in {"read", "write", "idle"} => pc[d] = pc'[d]
      BY <1>1, <1>3, <2>3
    <3>7. \A d \in Calls, f \in Nat :
              pc'[d] = "read" /\ ref'[d] = f =>
                  /\ ~alone
                  /\ \A v \in FileContent(f)' : v \in seen'[d] \/ Empty \in seen'[d]
      <4> SUFFICES ASSUME NEW d \in Calls, NEW f \in Nat, pc'[d] = "read", ref'[d] = f
                   PROVE  ~alone /\ \A v \in FileContent(f)' : v \in seen'[d] \/ Empty \in seen'[d]
        OBVIOUS
      <4>1. pc[d] = "read" /\ ref[d] = f /\ ~alone
        BY <2>1, <3>6
      <4>2. \A v \in FileContent(f) : v \in seen[d] \/ Empty \in seen[d]
        BY <4>1 DEF ReadInv
      <4>3. CASE f # ref[c]
        BY <1>4, <3>1, <4>1, <4>2, <4>3
      <4>4. CASE f = ref[c]
        BY <1>4, <3>2, <4>1, <4>2, <4>4
      <4> QED
        BY <4>3, <4>4
    <3> QED
      BY <1>1, <2>1, <3>4, <3>5, <3>6, <3>7 DEF ReadInv
  <2> QED
    BY <1>6, <2>2, <2>3 DEF FsWrite
<1>7. CASE FsRemove(c) \/ FsDelete(c) \/ FsRead(c)
  <2>1. /\ ref' = ref /\ pc[c] # "ok" /\ (op[c] = "create" => pc'[c] # "ok")
        /\ pc'[c] \in {"ok", "error", "notfound"}
    BY <1>3, <1>7 DEF FsRemove, FsDelete, FsRead, Remove, Answer, EfsDecrypt, TypeOK,
                      GetSteps, DeleteSteps
  <2>2. \A f \in Nat : FileContent(f)' = FileContent(f)
    BY <1>1, <2>1, FileKept
  <2>3. entry' = entry \/ entry' = Move("none")
    BY <1>7 DEF FsRemove, FsDelete, FsRead, Remove, Answer
  <2>4. Live' => entry' = entry
    BY <1>3, <2>3, MoveType DEF Live, Phases
  <2>5. alone /\ (\E d \in Calls : pc[d] = "read") => lock' = lock
    BY <1>3, <1>7 DEF FsRemove, FsDelete, FsRead, ReadInv, LockInv
  <2> QED
    BY <1>a, <1>1, <2>1, <2>2, <2>4, <2>5
<1>8. CASE FsGet(c)
  <2>1. /\ UNCHANGED <<entry, lock>> /\ stranded' = stranded /\ op[c] = "get" /\ pc[c] = "get"
        /\ alone => lock = NoCall
    BY <1>8 DEF FsGet, FsFrame, TypeOK, GetSteps, Locked
  <2>2. \A f \in Nat : FileContent(f)' = FileContent(f)
    BY <1>1, <2>1, FileKept
  <2>3. CASE ref' = ref /\ (pc' = [pc EXCEPT ![c] = "notfound"] \/ pc' = [pc EXCEPT ![c] = "error"])
    BY <1>a, <1>3, <2>1, <2>2, <2>3
  <2>4. CASE Live /\ pc' = [pc EXCEPT ![c] = "read"] /\ ref' = [ref EXCEPT ![c] = entry.id]
    <3>1. /\ entry.id # 0 /\ Content(entry) \in FileContent(entry.id)
      BY <1>3, <2>4 DEF ReadInv
    <3>2. \A v \in FileContent(entry.id) : v = Content(entry)
      <4>1. \A d, e \in Writers(entry.id) : d = e
        BY <3>1 DEF Writers, ReadInv
      <4> QED
        BY <3>1, <4>1, FileContentType
    <3>3. alone /\ ~stranded => Content(entry) # Empty
      BY <1>3, <2>1 DEF LockInv
    <3>4. /\ Content(entry) \in seen'[c] /\ ref'[c] = entry.id
      BY <1>0, <1>3, <1>4, <2>4
    <3>5. \A d \in Calls : op'[d] = "create" => d # c /\ ref'[d] = ref[d]
      BY <1>1, <2>1
    <3>6. \A d \in Calls : d # c \/ pc'[d] = "read"
      BY <1>3, <2>4
    <3> QED
      BY <1>1, <1>3, <1>4, <2>1, <2>2, <2>4, <3>1, <3>2, <3>3, <3>4, <3>5, <3>6 DEF ReadInv, Live
  <2> QED
    BY <1>8, <2>3, <2>4 DEF FsGet
<1> QED
  BY <1>0, <1>5, <1>6, <1>7, <1>8, FsOnly

-----------------------------------------------------------------------------
LEMMA InitIInv ==
    Init => IInv
<1> SUFFICES ASSUME Init PROVE IInv
  OBVIOUS
<1> DEFINE none == <<>>
<1>9. denied \in BOOLEAN
  <2>1. CASE kind = "gemalto"
    BY <2>1, Zenon DEF Init
  <2>2. CASE kind # "gemalto"
    BY <2>2, Zenon DEF Init
  <2> QED
    BY <2>1, <2>2
<1>0. alone \in BOOLEAN /\ stranded = FALSE
  <2>1. CASE kind \in {"fs", "efs"}
    BY <2>1, Zenon DEF Init
  <2>2. CASE kind \notin {"fs", "efs"}
    <3>1. alone = (kind = "mem") /\ (kind = "mem") \in BOOLEAN
      BY <2>2, Zenon DEF Init
    <3> QED
      BY <3>1, Zenon DEF Init
  <2> QED
    BY <2>1, <2>2
<1>1. none \in Seq(Values)
  OBVIOUS
<1>2. entry = [phase |-> "none", vers |-> none, id |-> 0]
  BY DEF Init
<1> HIDE DEF none
<1>3. entry \in Entries /\ entry.phase = "none" /\ entry.vers = none /\ entry.id = 0
  BY <1>1, <1>2 DEF Entries, Phases
<1>4. Content(entry) = Absent /\ Content(entry) # Empty
  BY <1>3, ContentCases
<1>5. TypeOK
  <2>1. alone \in BOOLEAN /\ denied \in BOOLEAN /\ stranded \in BOOLEAN
    BY <1>0, <1>9, Zenon
  <2>2. /\ kind \in Kinds /\ lock \in Calls \cup {NoCall} /\ calls \in 0 .. MaxCalls
        /\ op \in [Calls -> {"none", "create", "get", "delete"}]
        /\ tries \in [Calls -> 0 .. N]
        /\ ref \in [Calls -> Nat] /\ more \in [Calls -> Nat]
    BY BoundsAssumption DEF Init
  <2>3. /\ pc \in [Calls -> Results \cup CreateSteps \cup GetSteps \cup DeleteSteps]
        /\ \A c \in Calls : pc[c] \notin CreateSteps \cup GetSteps \cup DeleteSteps
    BY DEF Init, Results, CreateSteps, GetSteps, DeleteSteps
  <2>4. /\ got \in [Calls -> {Absent, Empty} \cup Values]
        /\ seen \in [Calls -> SUBSET ({Absent, Empty} \cup Values)]
        /\ made \in [Calls -> {"no", "here", "gone"}]
    BY DEF Init
  <2>5. entry.vers \in Seq(Values) /\ entry.vers = <<>>
    BY <1>1, <1>3 DEF none
  <2> QED
    BY <1>3, <2>1, <2>2, <2>3, <2>4, <2>5 DEF TypeOK
<1>6. EntryInv /\ MadeInv /\ StoredInv
  BY <1>3 DEF Init, EntryInv, MadeInv, StoredInv, Live
<1>7. FilesInv /\ GcpInv /\ LockInv /\ ReadInv
  BY <1>3, <1>4 DEF Init, FilesInv, GcpInv, LockInv, ReadInv, Live
<1>8. SeenInv /\ HonestAnswers
  BY DEF Init, SeenInv, HonestAnswers, Busy, Results
<1> QED
  BY <1>5, <1>6, <1>7, <1>8 DEF IInv

LEMMA StepIInv ==
    ASSUME IInv, NEW c \in Calls, Step(c)
    PROVE  IInv'
<1>1. Summary(c) /\ Witness(c) /\ pc[c] \in CreateSteps \cup GetSteps \cup DeleteSteps
  BY RequestSummary, StepBusy DEF Step, IInv
<1>2. TypeOK' /\ EntryInv'
  BY <1>1, TypeStep, EntryStep
<1> QED
  BY <1>2, MadeInvStep, SeenInvStep, GcpInvStep, FilesInvStep, ReadInvStep DEF IInv

(* The first step of a call is one of its method.                          *)
LEMMA FirstSteps ==
    /\ FirstStep["create"] \in CreateSteps \ {"write", "remove", "version"}
    /\ FirstStep["get"] \in GetSteps \ {"read"}
    /\ FirstStep["delete"] \in DeleteSteps \ {"clear"}
BY DEF FirstStep, FirstCreate, CreateSteps, GetSteps, DeleteSteps

(* A new call has made nothing, and what is stored is what it has seen.    *)
LEMMA CallIInv ==
    ASSUME IInv, NEW o \in {"create", "get", "delete"}, Call(o)
    PROVE  IInv'
<1> USE DEF IInv
<1> DEFINE c == calls + 1
           first == FirstStep[o]
<1>1. /\ c \in Calls /\ c \notin 0 .. calls /\ calls' = c
      /\ op' = [op EXCEPT ![c] = o] /\ pc' = [pc EXCEPT ![c] = first]
      /\ seen' = [seen EXCEPT ![c] = Visible(entry)]
      /\ UNCHANGED <<conf, entry, lock, ref, got, tries, more, made>>
  BY DEF Call, Goto, TypeOK
<1>2. stranded' = stranded /\ kind' = kind /\ alone' = alone /\ denied' = denied
  BY Zenon DEF Call, conf
<1>3. pc[c] = "idle" /\ made[c] = "no"
  BY <1>1 DEF MadeInv, TypeOK, Calls
<1>4. /\ first \in CreateSteps \cup GetSteps \cup DeleteSteps
      /\ first \in CreateSteps => o = "create"
      /\ first \in GetSteps => o = "get"
      /\ first \in DeleteSteps => o = "delete"
      /\ first \notin {"write", "remove", "version", "read", "clear"} /\ first \notin Results
  BY FirstSteps DEF CreateSteps, GetSteps, DeleteSteps, Results
<1> HIDE DEF first
<1>5. /\ Visible(entry) \subseteq {Absent, Empty} \cup Values
      /\ Visible(entry)' = Visible(entry)
  BY <1>1, <1>2, VisibleType DEF EntryInv, Visible
<1>6. TypeOK'
  <2>1. stranded' \in BOOLEAN /\ alone' \in BOOLEAN /\ denied' \in BOOLEAN
    BY <1>2, Zenon DEF TypeOK
  <2>2. /\ op' \in [Calls -> {"none", "create", "get", "delete"}]
        /\ pc' \in [Calls -> Results \cup CreateSteps \cup GetSteps \cup DeleteSteps]
        /\ seen' \in [Calls -> SUBSET ({Absent, Empty} \cup Values)]
    BY <1>1, <1>4, <1>5 DEF TypeOK
  <2>3. \A d \in Calls : /\ pc'[d] \in CreateSteps => op'[d] = "create"
                         /\ pc'[d] \in GetSteps => op'[d] = "get"
                         /\ pc'[d] \in DeleteSteps => op'[d] = "delete"
    BY <1>1, <1>4 DEF TypeOK
  <2>4. calls' \in 0 .. MaxCalls
    BY <1>1 DEF Calls, TypeOK
  <2> QED
    BY <1>1, <1>2, <2>1, <2>2, <2>3, <2>4 DEF TypeOK
<1>7. EntryInv'
  BY <1>1, <1>2 DEF EntryInv, Live
<1>8. MadeInv' /\ StoredInv'
  BY <1>1, <1>2, <1>3, <1>4 DEF MadeInv, StoredInv, Live, TypeOK, Results, Calls
<1>9. FilesInv' /\ GcpInv'
  BY <1>1, <1>2, <1>3, <1>4 DEF FilesInv, GcpInv, Live, TypeOK, Results
<1>13. ReadInv'
  <2>1. \A f \in Nat : FileContent(f)' = FileContent(f)
    BY <1>1, <1>3, <1>4, FileKept DEF TypeOK, Results
  <2>2. \A d \in Calls : /\ pc'[d] \in {"read", "write", "idle"} => pc'[d] = pc[d] /\ seen'[d] = seen[d]
                         /\ d # c => op'[d] = op[d]
    BY <1>1, <1>4 DEF TypeOK, Results
  <2>3. kind \in Files => ref[c] = 0
    BY <1>1, <1>3 DEF ReadInv
  <2> QED
    BY <1>1, <1>2, <2>1, <2>2, <2>3 DEF ReadInv, Live
<1>10. LockInv'
  <2>1. \A d \in Calls : pc[d] \in {"write", "remove"} \/ pc'[d] \in {"write", "remove"} => pc'[d] = pc[d]
    BY <1>1, <1>3, <1>4 DEF TypeOK
  <2> QED
    BY <1>1, <1>2, <2>1 DEF LockInv
<1>11. SeenInv'
  <2>1. \A d \in Calls \ {c} : pc'[d] = pc[d] /\ seen'[d] = seen[d]
    BY <1>1 DEF TypeOK
  <2>2. pc'[c] = first /\ seen'[c] = Visible(entry)
    BY <1>1 DEF TypeOK
  <2> QED
    BY <1>1, <1>2, <1>4, <1>5, <2>1, <2>2 DEF SeenInv, Busy
<1>12. HonestAnswers'
  <2>1. \A d \in Calls \ {c} : pc'[d] = pc[d] /\ seen'[d] = seen[d] /\ op'[d] = op[d]
    BY <1>1 DEF TypeOK
  <2>2. pc'[c] \notin Results
    BY <1>1, <1>4 DEF TypeOK
  <2> QED
    BY <1>1, <1>2, <2>1, <2>2 DEF HonestAnswers, Results
<1> QED
  BY <1>6, <1>7, <1>8, <1>9, <1>10, <1>11, <1>12, <1>13

(* A crash ends calls and leaves the directory as it is.                   *)
LEMMA CrashIInv ==
    ASSUME IInv, NEW c \in Calls, Crash(c)
    PROVE  IInv'
<1> USE DEF IInv
<1>1. /\ kind \in Files /\ lock' = NoCall
      /\ UNCHANGED <<entry, callVars, ref, got, tries, more>>
      /\ pc' = [d \in Calls |-> IF Busy(d) /\ (alone \/ d = c) THEN "error" ELSE pc[d]]
  BY DEF Crash, FsCrash
<1>2. stranded' = TRUE /\ kind' = kind /\ alone' = alone /\ denied' = denied
  BY Zenon DEF Crash, FsCrash, conf
<1>3. made' = made
  BY <1>1 DEF Crash, Witness, TypeOK, Live
<1>4. \A d \in Calls : \/ pc'[d] = pc[d]
                       \/ pc'[d] = "error" /\ Busy(d)
  BY <1>1
<1>5. alone => \A d \in Calls : ~Busy(d)'
  BY <1>1 DEF Busy, Results
<1>6. EntryInv'
  BY <1>1, <1>2 DEF EntryInv, Live
<1>7. /\ seen' \in [Calls -> SUBSET ({Absent, Empty} \cup Values)]
      /\ \A d \in Calls : /\ seen[d] \subseteq seen'[d]
                          /\ Busy(d) => Visible(entry)' \subseteq seen'[d]
                          /\ ~Busy(d) => seen'[d] = seen[d]
  BY <1>2, <1>6, SeenStep DEF Crash
<1>8. TypeOK'
  <2>1. stranded' \in BOOLEAN /\ alone' \in BOOLEAN /\ denied' \in BOOLEAN
    BY <1>2, Zenon DEF TypeOK
  <2>2. pc' \in [Calls -> Results \cup CreateSteps \cup GetSteps \cup DeleteSteps]
    BY <1>1 DEF TypeOK, Results
  <2>3. "error" \notin CreateSteps \cup GetSteps \cup DeleteSteps
    BY DEF CreateSteps, GetSteps, DeleteSteps
  <2> QED
    BY <1>1, <1>2, <1>3, <1>4, <1>7, <2>1, <2>2, <2>3 DEF TypeOK, callVars
<1>9. MadeInv' /\ StoredInv'
  BY <1>1, <1>2, <1>3, <1>4 DEF MadeInv, StoredInv, Live, callVars, Busy, Results
<1>10. FilesInv' /\ GcpInv'
  BY <1>1, <1>2, <1>3, <1>4 DEF FilesInv, GcpInv, Live, Files
<1>11. LockInv'
  BY <1>2, <1>5, Zenon DEF LockInv, Busy, Results
<1>13. ReadInv'
  <2>1. \A f \in Nat : FileContent(f)' = FileContent(f)
    BY <1>1, <1>4, FileKept DEF Busy, Results, callVars
  <2>2. \A d \in Calls : /\ pc'[d] \in {"read", "write", "idle"} => pc'[d] = pc[d]
                         /\ pc'[d] = "read" => ~alone
    BY <1>4, <1>5 DEF Busy, Results
  <2> QED
    BY <1>1, <1>2, <1>7, <2>1, <2>2 DEF ReadInv, Live, callVars
<1>12. SeenInv' /\ HonestAnswers'
  <2>1. SeenInv'
    <3>1. \A d \in Calls : Busy(d)' => Busy(d) /\ pc'[d] = pc[d]
      BY <1>4 DEF Busy, Results
    <3>2. \A d \in Calls : pc'[d] \in {"read", "clear"} => Busy(d)'
      BY DEF Busy, Results
    <3> QED
      BY <1>1, <1>2, <1>7, <3>1, <3>2 DEF SeenInv
  <2>2. \A d \in Calls : pc'[d] \in {"ok", "notfound", "exists"} => pc'[d] = pc[d] /\ seen'[d] = seen[d]
    BY <1>4, <1>7 DEF Busy, Results
  <2> QED
    BY <1>1, <1>2, <2>1, <2>2 DEF HonestAnswers, callVars
<1> QED
  BY <1>6, <1>8, <1>9, <1>10, <1>11, <1>12, <1>13

(* KeyVault deletes or purges what no call can see any more.               *)
LEMMA KeyVaultIInv ==
    ASSUME IInv, KeyVaultProceeds
    PROVE  IInv'
<1> USE DEF IInv
<1> DEFINE to == IF entry.phase = "deleting" THEN "deleted" ELSE "none"
<1>1. /\ entry.phase \in {"deleting", "purging"} /\ entry' = Move(to)
      /\ UNCHANGED <<lock, callVars, pc, ref, got, tries, more, history>>
  BY DEF KeyVaultProceeds, Changing
<1>2. stranded' = stranded /\ kind' = kind /\ alone' = alone /\ denied' = denied
  BY Zenon DEF KeyVaultProceeds, conf
<1>3. kind = "azure" /\ to \in Phases /\ to # "live"
  BY <1>1 DEF EntryInv, Phases
<1> HIDE DEF to
<1>4. /\ entry' \in Entries /\ entry'.phase = to /\ entry'.vers = <<>> /\ entry'.id = entry.id
  BY <1>1, <1>3, MoveType DEF EntryInv
<1>5. Content(entry') = Absent /\ Content(entry) = Absent /\ Versions(entry') = {}
  BY <1>1, <1>3, <1>4, ContentCases DEF EntryInv, Versions
<1>6. TypeOK'
  <2>1. stranded' \in BOOLEAN /\ alone' \in BOOLEAN /\ denied' \in BOOLEAN
    BY <1>2, Zenon DEF TypeOK
  <2> QED
    BY <1>1, <1>2, <1>4, <2>1 DEF TypeOK, callVars, history, Entries, Phases
<1>7. EntryInv' /\ ~Live' /\ ~Live
  BY <1>1, <1>2, <1>3, <1>4 DEF EntryInv, Live
<1>8. MadeInv' /\ StoredInv'
  BY <1>1, <1>2, <1>3, <1>7 DEF MadeInv, StoredInv, callVars, history, Atomic
<1>9. FilesInv' /\ GcpInv' /\ LockInv' /\ ReadInv'
  BY <1>2, <1>3 DEF FilesInv, GcpInv, LockInv, ReadInv, Files
<1>10. SeenInv' /\ HonestAnswers'
  <2>1. Visible(entry)' \subseteq Visible(entry)
    BY <1>5 DEF Visible
  <2> QED
    BY <1>1, <1>2, <2>1 DEF SeenInv, HonestAnswers, Busy, callVars, history
<1> QED
  BY <1>6, <1>7, <1>8, <1>9, <1>10

LEMMA StutterIInv ==
    ASSUME IInv, UNCHANGED vars
    PROVE  IInv'
<1> USE DEF IInv
<1>1. /\ UNCHANGED <<kind, alone, denied, entry, lock, stranded, calls, op, pc, ref, got, tries, more>>
      /\ UNCHANGED <<seen, made>>
  BY Zenon DEF vars, conf, callVars, history
<1>2. TypeOK'
  BY <1>1, Zenon DEF TypeOK
<1>3. EntryInv' /\ MadeInv' /\ StoredInv' /\ FilesInv' /\ GcpInv'
  BY <1>1 DEF EntryInv, MadeInv, StoredInv, FilesInv, GcpInv, Live
<1>4. LockInv' /\ SeenInv' /\ HonestAnswers'
  BY <1>1 DEF LockInv, SeenInv, HonestAnswers, Busy, Visible, Versions
<1>5. ReadInv'
  <2>1. \A f \in Nat : FileContent(f)' = FileContent(f)
    BY <1>1, FileKept
  <2> QED
    BY <1>1, <2>1 DEF ReadInv, Live
<1> QED
  BY <1>2, <1>3, <1>4, <1>5

-----------------------------------------------------------------------------
(* The inductive invariant, of all the KeyStore implementations.           *)
THEOREM Invariance ==
    Spec => []IInv
<1>1. IInv /\ [Next]_vars => IInv'
  BY StepIInv, CallIInv, CrashIInv, KeyVaultIInv, StutterIInv DEF Next, Finished
<1> QED
  BY <1>1, InitIInv, PTL DEF Spec

(* The state has its type, whatever was retried, interrupted or lost.      *)
THEOREM TypeCorrect ==
    Spec => []TypeOK
<1>1. IInv => TypeOK
  BY DEF IInv
<1> QED
  BY <1>1, Invariance, PTL

(* Create returns nil only if the call itself has made the entry, and its  *)
(* value is what is stored until the entry is removed.                     *)
THEOREM Created ==
    Spec => []CreatedIsStored
<1>1. IInv => CreatedIsStored
  <2> SUFFICES ASSUME IInv, NEW c \in Calls, op[c] = "create", pc[c] = "ok",
                      kind \notin {"azure", "vault1"}, kind = "gcp" => entry.id <= 1
               PROVE  made[c] # "no" /\ (made[c] = "here" => Content(entry) = c)
    BY DEF CreatedIsStored
  <2>1. made[c] # "no"
    BY DEF IInv, StoredInv
  <2>2. kind \in Files \cup {"gcp"} \cup Atomic
    BY KindsAssumption DEF IInv, TypeOK, AllKinds, Files, Atomic
  <2>3. made[c] = "here" => Content(entry) = c
    BY <2>2 DEF IInv, StoredInv, FilesInv, GcpInv
  <2> QED
    BY <2>1, <2>3
<1> QED
  BY <1>1, Invariance, PTL

(* What a call returns was true at some time during the call.              *)
THEOREM Honest ==
    Spec => []HonestAnswers
<1>1. IInv => HonestAnswers
  BY DEF IInv
<1> QED
  BY <1>1, Invariance, PTL

(* A stored key is replaced by nothing, and removed by a Delete only, but  *)
(* for the file systems and Vault's K/V v1; of a KeyVault secret that goes *)
(* for each of its versions.                                               *)
THEOREM Stays ==
    Spec => KeysStay
<1> DEFINE A == kind \notin Files \cup {"vault1"} => ByDelete
<1>1. ASSUME IInv, NEW c \in Calls, Step(c)
      PROVE  A
  <2>1. Summary(c) /\ entry \in Entries /\ TypeOK /\ kind' = kind
    BY <1>1, RequestSummary DEF Step, IInv, EntryInv, Summary, Moves, conf
  <2> SUFFICES ASSUME kind \notin Files \cup {"vault1"}, NEW v \in Visible(entry) \cap Values,
                      v \notin Visible(entry')
               PROVE  Content(entry') = Absent /\ op[c] = "delete" /\ <<pc, tries>>' # <<pc, tries>>
    BY <2>1 DEF ByDelete, Visible
  <2>2. Live /\ entry.vers # <<>> /\ entry.phase \notin {"none", "deleted"}
    <3>1. entry.vers # <<>>
      BY <2>1, ContentCases DEF Visible, Versions
    <3> QED
      BY <1>1, <3>1 DEF IInv, TypeOK, Live
  <2>3. ~Adds(c)
    <3> SUFFICES ASSUME Adds(c) PROVE FALSE
      OBVIOUS
    <3>1. /\ entry' \in Entries /\ entry'.phase = "live" /\ entry'.vers = Append(entry.vers, c)
      BY <2>1, AddToType DEF Adds, Live, Values
    <3>2. entry'.vers # <<>> /\ Head(entry'.vers) = Head(entry.vers)
      BY <2>1, <2>2, <3>1, AppendHead DEF Entries, Values
    <3>3. Content(entry') = Content(entry)
      BY <2>1, <2>2, <3>1, <3>2, ContentCases DEF Live
    <3>4. Versions(entry) \subseteq Versions(entry')
      BY <2>1, <3>1 DEF Versions, Entries, Values
    <3> QED
      BY <3>3, <3>4 DEF Visible
  <2>4. Removes(c)
    BY <2>1, <2>2, <2>3 DEF Summary, Effect, Creates, Overwrites, Purges
  <2>5. Content(entry') = Absent
    BY <2>1, <2>4, MoveType, ContentCases DEF Removes, Phases
  <2> QED
    BY <2>1, <2>4, <2>5 DEF Removes, TypeOK
<1>2. ASSUME IInv, KeyVaultProceeds
      PROVE  A
  <2>1. Content(entry) = Absent /\ Absent \notin Values /\ Versions(entry) = {}
    BY <1>2, ContentCases DEF KeyVaultProceeds, Changing, IInv, EntryInv, TypeOK, Versions
  <2> QED
    BY <2>1 DEF ByDelete, Visible
<1>3. ASSUME entry' = entry
      PROVE  A
  BY <1>3 DEF ByDelete, Visible
<1>4. IInv /\ [Next]_vars => [A]_vars
  BY <1>1, <1>2, <1>3 DEF Next, Finished, Call, Crash, FsCrash, vars
<1> QED
  BY <1>4, Invariance, PTL DEF Spec, KeysStay

=============================================================================

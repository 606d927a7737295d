-------------------------- MODULE DocumentsProofs --------------------------
(***************************************************************************)
(* Documents keeps its promises for any number of resorts, agents,         *)
(* documents, files and requests.  Types come first, then what the         *)
(* reviewer read, what is stored, and what can be found.                   *)
(***************************************************************************)
EXTENDS Documents, TLAPS

-----------------------------------------------------------------------------
(* Types *)

\* What a request carries at its step.
Fits(r) ==
    /\ r.at = "resort" => r.who \in Resorts /\ r.holder \in Profiles
    /\ r.at \in {"agent", "assign"} =>
          r.who \in Agents /\ r.resort \in Opt(Resorts) /\ r.holder \in Profiles
    /\ r.at = "link" => r.who \in Agents /\ r.holder \in Profiles
    /\ r.at \in {"find", "replace"} => r.holder \in Profiles /\ r.file \in Files
    /\ r.at = "insert" => r.holder \in Holders /\ r.file \in Files
    /\ r.at \in {"review", "blob", "row"} => r.doc \in Docs /\ r.file \in Files
    /\ r.at = "review" => r.verdict \in {"approved", "rejected"}

CallsFit == \A c \in Calls : Fits(call[c])

Typed == TypeOK /\ CallsFit

(* What becomes of a request whose fields are changed.                     *)
LEMMA CallTyped ==
    \A r \in Call :
        /\ \A v \in Steps : [r EXCEPT !.at = v] \in Call
        /\ \A v \in Opt(Resorts \cup Agents) : [r EXCEPT !.who = v] \in Call
        /\ \A v \in Opt(Resorts) : [r EXCEPT !.resort = v] \in Call
        /\ \A v \in Opt(Holders) : [r EXCEPT !.holder = v] \in Call
        /\ \A v \in Opt(Files) : [r EXCEPT !.file = v] \in Call
        /\ \A v \in Opt(Docs) : [r EXCEPT !.doc = v] \in Call
        /\ \A v \in Opt({"approved", "rejected"}) : [r EXCEPT !.verdict = v] \in Call
<1> SUFFICES ASSUME NEW r \in Call
             PROVE  /\ \A v \in Steps : [r EXCEPT !.at = v] \in Call
                    /\ \A v \in Opt(Resorts \cup Agents) : [r EXCEPT !.who = v] \in Call
                    /\ \A v \in Opt(Resorts) : [r EXCEPT !.resort = v] \in Call
                    /\ \A v \in Opt(Holders) : [r EXCEPT !.holder = v] \in Call
                    /\ \A v \in Opt(Files) : [r EXCEPT !.file = v] \in Call
                    /\ \A v \in Opt(Docs) : [r EXCEPT !.doc = v] \in Call
                    /\ \A v \in Opt({"approved", "rejected"}) : [r EXCEPT !.verdict = v] \in Call
  OBVIOUS
<1>1. \A v \in Steps : [r EXCEPT !.at = v] \in Call
  BY DEF Call
<1>2. \A v \in Opt(Resorts \cup Agents) : [r EXCEPT !.who = v] \in Call
  BY DEF Call
<1>3. \A v \in Opt(Resorts) : [r EXCEPT !.resort = v] \in Call
  BY DEF Call
<1>4. \A v \in Opt(Holders) : [r EXCEPT !.holder = v] \in Call
  BY DEF Call
<1>5. \A v \in Opt(Files) : [r EXCEPT !.file = v] \in Call
  BY DEF Call
<1>6. \A v \in Opt(Docs) : [r EXCEPT !.doc = v] \in Call
  BY DEF Call
<1>7. \A v \in Opt({"approved", "rejected"}) : [r EXCEPT !.verdict = v] \in Call
  BY DEF Call
<1> QED
  BY <1>1, <1>2, <1>3, <1>4, <1>5, <1>6, <1>7

LEMMA NoCallTyped ==
    NoCall \in Call /\ Fits(NoCall) /\ NoCall.at = "idle" /\ NoCall.file = Null
BY DEF NoCall, Call, Fits, Steps, Opt

\* What requests begin with.
ForProfile(at, who, r, p) == [NoCall EXCEPT !.at = at, !.who = who, !.resort = r, !.holder = p]
ForFile(at, h, f) == [NoCall EXCEPT !.at = at, !.holder = h, !.file = f]
ForDoc(at, d, f, v) == [NoCall EXCEPT !.at = at, !.doc = d, !.file = f, !.verdict = v]

LEMMA ForProfileTyped ==
    ASSUME NEW at \in {"resort", "agent", "link", "assign"}, NEW who \in Resorts \cup Agents,
           NEW r \in Opt(Resorts), NEW p \in Profiles,
           at = "resort" <=> who \in Resorts
    PROVE  LET n == ForProfile(at, who, r, p) IN
           /\ n \in Call /\ Fits(n)
           /\ n.at = at /\ n.who = who /\ n.resort = r /\ n.holder = p /\ n.file = Null
<1> DEFINE n == ForProfile(at, who, r, p)
<1>1. at \in Steps /\ who \in Opt(Resorts \cup Agents) /\ p \in Opt(Holders)
  BY DEF Steps, Opt, Holders
<1>2. n \in Call
  <2>1. [NoCall EXCEPT !.at = at] \in Call
    BY <1>1, NoCallTyped, CallTyped
  <2>2. [NoCall EXCEPT !.at = at, !.who = who] \in Call
    BY <1>1, <2>1, CallTyped
  <2>3. [NoCall EXCEPT !.at = at, !.who = who, !.resort = r] \in Call
    BY <2>2, CallTyped
  <2> QED
    BY <1>1, <2>3, CallTyped DEF ForProfile
<1>3. n.at = at /\ n.who = who /\ n.resort = r /\ n.holder = p /\ n.file = Null
  BY DEF ForProfile, NoCall
<1> HIDE DEF n
<1>4. Fits(n)
  BY <1>3 DEF Fits
<1> QED
  BY <1>2, <1>3, <1>4 DEF n

LEMMA ForFileTyped ==
    ASSUME NEW at \in {"find", "replace", "insert"}, NEW h \in Holders, NEW f \in Files,
           at # "insert" => h \in Profiles
    PROVE  LET n == ForFile(at, h, f) IN
           /\ n \in Call /\ Fits(n)
           /\ n.at = at /\ n.holder = h /\ n.file = f
<1> DEFINE n == ForFile(at, h, f)
<1>1. at \in Steps /\ h \in Opt(Holders) /\ f \in Opt(Files)
  BY DEF Steps, Opt
<1>2. n \in Call
  <2>1. [NoCall EXCEPT !.at = at] \in Call
    BY <1>1, NoCallTyped, CallTyped
  <2>2. [NoCall EXCEPT !.at = at, !.holder = h] \in Call
    BY <1>1, <2>1, CallTyped
  <2> QED
    BY <1>1, <2>2, CallTyped DEF ForFile
<1>3. n.at = at /\ n.holder = h /\ n.file = f
  BY DEF ForFile, NoCall
<1> HIDE DEF n
<1>4. Fits(n)
  BY <1>3 DEF Fits
<1> QED
  BY <1>2, <1>3, <1>4 DEF n

LEMMA ForDocTyped ==
    ASSUME NEW at \in {"review", "blob", "row"}, NEW d \in Docs, NEW f \in Files,
           NEW v \in Opt({"approved", "rejected"}), at = "review" => v \in {"approved", "rejected"}
    PROVE  LET n == ForDoc(at, d, f, v) IN
           /\ n \in Call /\ Fits(n)
           /\ n.at = at /\ n.doc = d /\ n.file = f /\ n.verdict = v
<1> DEFINE n == ForDoc(at, d, f, v)
<1>1. at \in Steps /\ d \in Opt(Docs) /\ f \in Opt(Files)
  BY DEF Steps, Opt
<1>2. n \in Call
  <2>1. [NoCall EXCEPT !.at = at] \in Call
    BY <1>1, NoCallTyped, CallTyped
  <2>2. [NoCall EXCEPT !.at = at, !.doc = d] \in Call
    BY <1>1, <2>1, CallTyped
  <2>3. [NoCall EXCEPT !.at = at, !.doc = d, !.file = f] \in Call
    BY <1>1, <2>2, CallTyped
  <2> QED
    BY <2>3, CallTyped DEF ForDoc
<1>3. n.at = at /\ n.doc = d /\ n.file = f /\ n.verdict = v
  BY DEF ForDoc, NoCall
<1> HIDE DEF n
<1>4. Fits(n)
  BY <1>3 DEF Fits, Opt
<1> QED
  BY <1>2, <1>3, <1>4 DEF n

(* A request's step.                                                       *)
LEMMA StepAt ==
    ASSUME NEW r \in Call, Fits(r), NEW at \in {"replace", "insert", "row"},
           at \in {"replace", "insert"} => r.at = "find", at = "row" => r.at = "blob"
    PROVE  LET n == [r EXCEPT !.at = at] IN
           /\ n \in Call /\ Fits(n) /\ n.at = at
           /\ n.holder = r.holder /\ n.file = r.file /\ n.doc = r.doc
<1> DEFINE n == [r EXCEPT !.at = at]
<1>1. /\ n \in Call /\ n.at = at
      /\ n.holder = r.holder /\ n.file = r.file /\ n.doc = r.doc
  BY DEF Call, Steps
<1> HIDE DEF n
<1>2. Fits(n)
  BY <1>1 DEF Fits, Holders
<1> QED
  BY <1>1, <1>2 DEF n

(* Rows.                                                                   *)
LEMMA Row ==
    ASSUME Typed, NEW d \in Docs, Exists(d)
    PROVE  /\ doc[d] \in Doc /\ doc[d].holder \in Holders /\ doc[d].file \in Files
           /\ doc[d].read \in Opt(Files) /\ doc[d].status \in {"uploaded", "approved"}
BY DEF Typed, TypeOK, Exists, Doc

\* A row as it is inserted.
NewRow(h, f) == [holder |-> h, file |-> f, read |-> Null, status |-> "uploaded"]

LEMMA NewRowTyped ==
    ASSUME NEW h \in Holders, NEW f \in Files
    PROVE  /\ NewRow(h, f) \in Doc /\ NewRow(h, f) \notin {None, Gone}
           /\ NewRow(h, f).holder = h /\ NewRow(h, f).file = f
           /\ NewRow(h, f).read = Null /\ NewRow(h, f).status = "uploaded"
<1>1. NewRow(h, f) \in Doc
  BY DEF NewRow, Doc, Opt
<1>2. NewRow(h, f) \notin {None, Gone}
  BY <1>1, MarksAssumption
<1> QED
  BY <1>1, <1>2 DEF NewRow

LEMMA ReplacedTyped ==
    ASSUME NEW row \in Doc, NEW f \in Files
    PROVE  LET new == Replaced(row, f) IN
           /\ new \in Doc /\ new \notin {None, Gone}
           /\ new.holder = row.holder /\ new.file = f /\ new.status = "uploaded"
<1> DEFINE new == Replaced(row, f)
<1>1. new \in Doc /\ new.holder = row.holder /\ new.file = f /\ new.status = "uploaded"
  BY DEF Replaced, Doc, Opt
<1>2. new \notin {None, Gone}
  BY <1>1, MarksAssumption
<1> QED
  BY <1>1, <1>2

LEMMA JudgedTyped ==
    ASSUME NEW row \in Doc, NEW v \in {"approved", "rejected"}, NEW f \in Files
    PROVE  LET new == Judged(row, v, f) IN
           /\ new \in Doc /\ new \notin {None, Gone}
           /\ new.holder = row.holder /\ new.file = row.file
           /\ new.status = "approved" => new.read = f
<1> DEFINE new == Judged(row, v, f)
<1>1. /\ new \in Doc /\ new.holder = row.holder /\ new.file = row.file
      /\ new.status = "approved" => new.read = f
  BY DEF Judged, Doc, Opt
<1>2. new \notin {None, Gone}
  BY <1>1, MarksAssumption
<1> QED
  BY <1>1, <1>2

-----------------------------------------------------------------------------
(* What each step makes of its request *)

\* Request c has become n, and the others are as they were.
Becomes(c, n) == Go(c, n) /\ n \in Call /\ Fits(n)

LEMMA BecomesOnly ==
    ASSUME Typed, NEW c \in Calls, NEW n, Becomes(c, n)
    PROVE  /\ \A d \in Calls : call'[d] = IF d = c THEN n ELSE call[d]
           /\ call' \in [Calls -> Call] /\ CallsFit'
<1>1. call \in [Calls -> Call] /\ call' = [call EXCEPT ![c] = n] /\ n \in Call /\ Fits(n)
  BY DEF Becomes, Go, Typed, TypeOK
<1>2. \A d \in Calls : call'[d] = IF d = c THEN n ELSE call[d]
  BY <1>1
<1>3. \A d \in Calls : Fits(call'[d])
  BY <1>1, <1>2 DEF Typed, CallsFit
<1> QED
  BY <1>1, <1>2, <1>3 DEF CallsFit, Fits

\* A request that makes a profile for who.
Makes(c, at, who, r, p) ==
    \E n \in Call : /\ Becomes(c, n) /\ n.at = at /\ n.who = who /\ n.resort = r
                    /\ n.holder = p /\ n.file = Null

\* One that has a file for h.
Brings(c, at, h, f) ==
    \E n \in Call : Becomes(c, n) /\ n.at = at /\ n.holder = h /\ n.file = f

\* One that is about document d, whose file was f.
Reads(c, at, d, f) ==
    \E n \in Call : Becomes(c, n) /\ n.at = at /\ n.doc = d /\ n.file = f

\* One that ends.
Ends(c) == \E n \in Call : Becomes(c, n) /\ n.at = "idle" /\ n.file = Null

LEMMA MakesProfile ==
    ASSUME Typed, NEW c \in Calls
    PROVE  /\ \A r \in Resorts, p \in Profiles :
                 CreateResort(c, r, p) => Makes(c, "resort", r, Null, p)
           /\ \A r \in Opt(Resorts), p \in Profiles, a \in Agents :
                 /\ CreateAgent(c, a, r, p) => Makes(c, "agent", a, r, p)
                 /\ UpdateAgentProfile(c, a, r, p) => Makes(c, "assign", a, r, p)
           /\ \A p \in Profiles, a \in Agents :
                 UploadWithoutProfile(c, a, p) => Makes(c, "link", a, Null, p)
<1>1. ASSUME NEW r \in Resorts, NEW p \in Profiles, CreateResort(c, r, p)
      PROVE  Makes(c, "resort", r, Null, p)
  <2> DEFINE n == [NoCall EXCEPT !.at = "resort", !.who = r, !.holder = p]
  <2>1. Go(c, n)
    BY <1>1 DEF CreateResort, Begin, Go
  <2>2. /\ n.at = "resort" /\ n.who = r /\ n.resort = Null /\ n.holder = p /\ n.file = Null
    BY DEF NoCall
  <2>3. n \in Call
    <3>1. /\ "resort" \in Steps /\ r \in Opt(Resorts \cup Agents) /\ p \in Opt(Holders)
      BY DEF Steps, Opt, Holders
    <3>2. [NoCall EXCEPT !.at = "resort"] \in Call
      BY <3>1, NoCallTyped, CallTyped
    <3>3. [NoCall EXCEPT !.at = "resort", !.who = r] \in Call
      BY <3>1, <3>2, CallTyped
    <3> QED
      BY <3>1, <3>3, CallTyped
  <2> HIDE DEF n
  <2>4. Fits(n)
    BY <2>2 DEF Fits
  <2> QED
    BY <2>1, <2>2, <2>3, <2>4 DEF Makes, Becomes
<1>2. ASSUME NEW r \in Opt(Resorts), NEW p \in Profiles, NEW a \in Agents, NEW at \in {"agent", "assign"},
             Go(c, ForProfile(at, a, r, p))
      PROVE  Makes(c, at, a, r, p)
  <2>1. a \notin Resorts
    BY DocumentsAssumption
  <2>2. LET n == ForProfile(at, a, r, p) IN
           /\ n \in Call /\ Fits(n)
           /\ n.at = at /\ n.who = a /\ n.resort = r /\ n.holder = p /\ n.file = Null
    BY <2>1, ForProfileTyped
  <2> QED
    BY <1>2, <2>2 DEF Makes, Becomes
<1>3. ASSUME NEW r \in Opt(Resorts), NEW p \in Profiles, NEW a \in Agents, CreateAgent(c, a, r, p)
      PROVE  Makes(c, "agent", a, r, p)
  <2>1. Go(c, ForProfile("agent", a, r, p))
    BY <1>3 DEF CreateAgent, Begin, Go, ForProfile
  <2> QED
    BY <1>2, <2>1
<1>4. ASSUME NEW r \in Opt(Resorts), NEW p \in Profiles, NEW a \in Agents,
             UpdateAgentProfile(c, a, r, p)
      PROVE  Makes(c, "assign", a, r, p)
  <2>1. Go(c, ForProfile("assign", a, r, p))
    BY <1>4 DEF UpdateAgentProfile, Begin, Go, ForProfile
  <2> QED
    BY <1>2, <2>1
<1>5. ASSUME NEW p \in Profiles, NEW a \in Agents, UploadWithoutProfile(c, a, p)
      PROVE  Makes(c, "link", a, Null, p)
  <2> DEFINE n == [NoCall EXCEPT !.at = "link", !.who = a, !.holder = p]
  <2>1. Go(c, n)
    BY <1>5 DEF UploadWithoutProfile, Begin, Go
  <2>2. /\ n.at = "link" /\ n.who = a /\ n.resort = Null /\ n.holder = p /\ n.file = Null
    BY DEF NoCall
  <2>3. n \in Call
    <3>1. /\ "link" \in Steps /\ a \in Opt(Resorts \cup Agents) /\ p \in Opt(Holders)
      BY DEF Steps, Opt, Holders
    <3>2. [NoCall EXCEPT !.at = "link"] \in Call
      BY <3>1, NoCallTyped, CallTyped
    <3>3. [NoCall EXCEPT !.at = "link", !.who = a] \in Call
      BY <3>1, <3>2, CallTyped
    <3> QED
      BY <3>1, <3>3, CallTyped
  <2> HIDE DEF n
  <2>4. Fits(n)
    BY <2>2 DEF Fits
  <2> QED
    BY <2>1, <2>2, <2>3, <2>4 DEF Makes, Becomes
<1> QED
  BY <1>1, <1>3, <1>4, <1>5

LEMMA BringsFile ==
    ASSUME Typed, NEW c \in Calls
    PROVE  /\ \A f \in Files : LinkProfile(c, f) => Brings(c, "find", call[c].holder, f)
           /\ \A f \in Files, h \in Holders :
                 Upload(c, h, f) => Brings(c, IF h \in Experiences THEN "insert" ELSE "find", h, f)
           /\ \A f \in Files, r \in Resorts :
                 RegisterDocument(c, r, f) =>
                    resort[r] \in Profiles /\ Brings(c, "find", resort[r], f)
           /\ FindDocument(c) =>
                 \E n \in Call : /\ Becomes(c, n) /\ n.at \in {"insert", "replace"}
                                 /\ n.at = "insert" => DocsOf(call[c].holder) = {}
                                 /\ n.holder = call[c].holder
                                 /\ n.file = call[c].file
<1>1. call[c] \in Call /\ Fits(call[c])
  BY DEF Typed, TypeOK, CallsFit
<1>2. ASSUME NEW at \in {"find", "insert"}, NEW h \in Holders, NEW f \in Files,
             at = "find" => h \in Profiles, Go(c, ForFile(at, h, f))
      PROVE  Brings(c, at, h, f)
  <2>1. LET n == ForFile(at, h, f) IN
           n \in Call /\ Fits(n) /\ n.at = at /\ n.holder = h /\ n.file = f
    BY <1>2, ForFileTyped
  <2> QED
    BY <1>2, <2>1 DEF Brings, Becomes
<1>3. ASSUME NEW f \in Files, LinkProfile(c, f) PROVE Brings(c, "find", call[c].holder, f)
  <2>1. call[c].holder \in Profiles /\ call[c].holder \in Holders
    BY <1>1, <1>3 DEF LinkProfile, At, Fits, Holders
  <2>2. Go(c, ForFile("find", call[c].holder, f))
    BY <1>3 DEF LinkProfile, Go, ForFile
  <2> QED
    BY <1>2, <2>1, <2>2
<1>4. ASSUME NEW f \in Files, NEW h \in Holders, Upload(c, h, f)
      PROVE  Brings(c, IF h \in Experiences THEN "insert" ELSE "find", h, f)
  <2> DEFINE at == IF h \in Experiences THEN "insert" ELSE "find"
  <2>1. Go(c, ForFile(at, h, f))
    BY <1>4 DEF Upload, Begin, Go, ForFile, AfterStore
  <2>2. at \in {"find", "insert"} /\ (at = "find" => h \in Profiles)
    BY DEF Holders
  <2> HIDE DEF at
  <2>3. Brings(c, at, h, f)
    BY <1>2, <2>1, <2>2
  <2> QED
    BY <2>3 DEF at
<1>5. ASSUME NEW f \in Files, NEW r \in Resorts, RegisterDocument(c, r, f)
      PROVE  resort[r] \in Profiles /\ Brings(c, "find", resort[r], f)
  <2>1. resort[r] \in Profiles /\ resort[r] \in Holders
    BY <1>5 DEF RegisterDocument, Open, Typed, TypeOK, Opt, Holders
  <2>2. Go(c, ForFile("find", resort[r], f))
    BY <1>5 DEF RegisterDocument, Begin, Go, ForFile
  <2> QED
    BY <1>2, <2>1, <2>2
<1>6. ASSUME FindDocument(c)
      PROVE  \E n \in Call : /\ Becomes(c, n) /\ n.at \in {"insert", "replace"}
                             /\ n.at = "insert" => DocsOf(call[c].holder) = {}
                             /\ n.holder = call[c].holder
                             /\ n.file = call[c].file
  <2>1. PICK at \in {"replace", "insert"} :
           at = IF DocsOf(call[c].holder) = {} THEN "insert" ELSE "replace"
    OBVIOUS
  <2>2. call[c].at = "find" /\ Go(c, [call[c] EXCEPT !.at = at])
    BY <1>6, <2>1 DEF FindDocument, At
  <2>3. PICK r \in Call : r = call[c]
    BY <1>1
  <2>4. r.at = "find" /\ Fits(r)
    BY <1>1, <2>2, <2>3
  <2>5. LET m == [r EXCEPT !.at = at] IN
           /\ m \in Call /\ Fits(m) /\ m.at = at
           /\ m.holder = r.holder /\ m.file = r.file /\ m.doc = r.doc
    <3>1. at \in {"replace", "insert", "row"} /\ at # "row"
      OBVIOUS
    <3> QED
      BY <2>4, <3>1, StepAt
  <2> DEFINE n == [r EXCEPT !.at = at]
  <2>6. /\ n \in Call /\ Fits(n) /\ n.at = at /\ n.holder = r.holder /\ n.file = r.file
        /\ Go(c, n)
    BY <2>2, <2>3, <2>5
  <2> HIDE DEF n
  <2> QED
    BY <2>1, <2>3, <2>6 DEF Becomes
<1> QED
  BY <1>3, <1>4, <1>5, <1>6

LEMMA ReadsDocument ==
    ASSUME Typed, NEW c \in Calls
    PROVE  /\ \A d \in Docs, v \in {"approved", "rejected"} :
                 Review(c, d, v) => Exists(d) /\ Reads(c, "review", d, doc[d].file)
           /\ \A d \in Docs :
                 DeleteDocument(c, d) => Exists(d) /\ Reads(c, "blob", d, doc[d].file)
           /\ \A deleted \in BOOLEAN :
                 DeleteFile(c, deleted) => Reads(c, "row", call[c].doc, call[c].file)
<1>1. call[c] \in Call /\ Fits(call[c])
  BY DEF Typed, TypeOK, CallsFit
<1>2. ASSUME NEW at \in {"review", "blob"}, NEW d \in Docs, Exists(d),
             NEW v \in Opt({"approved", "rejected"}), at = "review" => v \in {"approved", "rejected"},
             Go(c, ForDoc(at, d, doc[d].file, v))
      PROVE  Reads(c, at, d, doc[d].file)
  <2>1. doc[d].file \in Files
    BY <1>2, Row
  <2>2. LET n == ForDoc(at, d, doc[d].file, v) IN
           n \in Call /\ Fits(n) /\ n.at = at /\ n.doc = d /\ n.file = doc[d].file
    BY <1>2, <2>1, ForDocTyped
  <2> QED
    BY <1>2, <2>2 DEF Reads, Becomes
<1>3. ASSUME NEW d \in Docs, NEW v \in {"approved", "rejected"}, Review(c, d, v)
      PROVE  Exists(d) /\ Reads(c, "review", d, doc[d].file)
  <2>1. Exists(d) /\ Go(c, ForDoc("review", d, doc[d].file, v))
    BY <1>3 DEF Review, Begin, Go, ForDoc
  <2> QED
    BY <1>2, <2>1 DEF Opt
<1>4. ASSUME NEW d \in Docs, DeleteDocument(c, d)
      PROVE  Exists(d) /\ Reads(c, "blob", d, doc[d].file)
  <2> DEFINE n == [NoCall EXCEPT !.at = "blob", !.doc = d, !.file = doc[d].file]
  <2>1. Exists(d) /\ Go(c, n)
    BY <1>4 DEF DeleteDocument, Begin, Go
  <2>2. n.at = "blob" /\ n.doc = d /\ n.file = doc[d].file
    BY DEF NoCall
  <2>3. n \in Call
    <3>1. "blob" \in Steps /\ d \in Opt(Docs) /\ doc[d].file \in Opt(Files)
      BY <2>1, Row DEF Steps, Opt
    <3>2. [NoCall EXCEPT !.at = "blob"] \in Call
      BY <3>1, NoCallTyped, CallTyped
    <3>3. [NoCall EXCEPT !.at = "blob", !.doc = d] \in Call
      BY <3>1, <3>2, CallTyped
    <3> QED
      BY <3>1, <3>3, CallTyped
  <2>4. doc[d].file \in Files
    BY <2>1, Row
  <2> HIDE DEF n
  <2>5. Fits(n)
    BY <2>2, <2>4 DEF Fits
  <2> QED
    BY <2>1, <2>2, <2>3, <2>5 DEF Reads, Becomes
<1>5. ASSUME NEW deleted \in BOOLEAN, DeleteFile(c, deleted)
      PROVE  Reads(c, "row", call[c].doc, call[c].file)
  <2> DEFINE n == [call[c] EXCEPT !.at = "row"]
  <2>1. call[c].at = "blob" /\ Go(c, n)
    BY <1>5 DEF DeleteFile, At
  <2>2. /\ n \in Call /\ Fits(n) /\ n.at = "row"
        /\ n.doc = call[c].doc /\ n.file = call[c].file
    BY <1>1, <2>1, StepAt
  <2> QED
    BY <2>1, <2>2 DEF Reads, Becomes
<1> QED
  BY <1>3, <1>4, <1>5

LEMMA EndsCall ==
    ASSUME Typed, NEW c \in Calls, Return(c)
    PROVE  Ends(c)
BY NoCallTyped DEF Return, Ends, Becomes, NoCall

-----------------------------------------------------------------------------
(* Types, kept *)

(* A new profile, and what it leaves of the others.                        *)
LEMMA NewProfileTyped ==
    ASSUME Typed, NEW p \in Profiles, NEW who \in Resorts \cup Agents, NewProfile(p, who)
    PROVE  /\ profile' \in [Profiles -> Resorts \cup Agents \cup {None}]
           /\ profile[p] = None /\ profile'[p] = who
           /\ \A q \in Profiles : profile[q] # None => profile'[q] = profile[q]
BY DEF Typed, TypeOK, NewProfile

LEMMA PutTyped ==
    ASSUME Typed, NEW f \in Files
    PROVE  /\ Put(f) \in [Files -> {"none", "stored", "deleted"}]
           /\ Put(f)[f] = "stored"
           /\ \A g \in Files : g # f => Put(f)[g] = file[g]
BY DEF Typed, TypeOK, Put

(* A file that is stored under a new name.                                 *)
LEMMA StoredTyped ==
    ASSUME Typed, NEW f \in Files, StoreFile(f)
    PROVE  /\ file' \in [Files -> {"none", "stored", "deleted"}]
           /\ file[f] = "none" /\ file'[f] = "stored"
           /\ \A g \in Files : g # f => file'[g] = file[g]
BY DEF Typed, TypeOK, StoreFile, Put

(* What agreements name after an agent's profile was put into one, or into *)
(* those that named none.                                                  *)
LEMMA AgreementTyped ==
    ASSUME Typed, NEW a \in Agents, NEW r \in Opt(Resorts), NEW p \in Profiles \cup {Null},
           agreement' = [agreement EXCEPT ![a] = [@ EXCEPT ![r] = p]]
    PROVE  /\ agreement' \in [Agents -> [Opt(Resorts) -> Opt(Profiles) \cup {None}]]
           /\ agreement'[a][r] = p
           /\ \A b \in Agents, q \in Opt(Resorts) :
                 b # a \/ q # r => agreement'[b][q] = agreement[b][q]
BY DEF Typed, TypeOK, Opt

LEMMA LinkedTyped ==
    ASSUME Typed, NEW a \in Agents, NEW p \in Profiles,
           agreement' = [agreement EXCEPT ![a] = Linked(a, p)]
    PROVE  /\ agreement' \in [Agents -> [Opt(Resorts) -> Opt(Profiles) \cup {None}]]
           /\ \A b \in Agents, q \in Opt(Resorts) :
                 agreement'[b][q] =
                    IF b = a /\ agreement[b][q] = Null THEN p ELSE agreement[b][q]
BY DEF Typed, TypeOK, Opt, Linked

(* Documents that are replaced, or judged.                                 *)
LEMMA ReplaceMoves ==
    ASSUME Typed, NEW c \in Calls, ReplaceDocument(c)
    PROVE  LET h == call[c].holder
               f == call[c].file
           IN
           /\ call[c].at = "replace" /\ h \in Profiles /\ f \in Files /\ Ends(c)
           /\ doc' \in [Docs -> Doc \cup {None, Gone}]
           /\ \A d \in Docs :
                 \/ d \notin DocsOf(h) /\ doc'[d] = doc[d]
                 \/ /\ d \in DocsOf(h) /\ doc'[d] \in Doc /\ doc'[d] \notin {None, Gone}
                    /\ doc'[d].holder = h /\ doc'[d].file = f /\ doc'[d].status = "uploaded"
<1>1. PICK h \in Profiles, f \in Files : h = call[c].holder /\ f = call[c].file
  BY DEF ReplaceDocument, At, Typed, CallsFit, Fits
<1>2. call[c].at = "replace" /\ Ends(c)
  BY EndsCall DEF ReplaceDocument, At
<1>3. doc' = [d \in Docs |-> IF d \in DocsOf(h) THEN Replaced(doc[d], f) ELSE doc[d]]
  BY <1>1 DEF ReplaceDocument
<1>4. ASSUME NEW d \in Docs, d \in DocsOf(h)
      PROVE  /\ doc'[d] \in Doc /\ doc'[d] \notin {None, Gone}
             /\ doc'[d].holder = h /\ doc'[d].file = f /\ doc'[d].status = "uploaded"
  <2>1. doc[d] \in Doc /\ doc[d].holder = h
    BY <1>4, Row DEF DocsOf
  <2>2. doc'[d] = Replaced(doc[d], f)
    BY <1>3, <1>4
  <2> QED
    BY <2>1, <2>2, ReplacedTyped
<1>5. \A d \in Docs : d \notin DocsOf(h) => doc'[d] = doc[d]
  BY <1>3
<1>6. \A d \in Docs : doc'[d] \in Doc \cup {None, Gone}
  BY <1>4, <1>5 DEF Typed, TypeOK
<1>7. doc' \in [Docs -> Doc \cup {None, Gone}]
  BY <1>3, <1>6
<1> QED
  BY <1>1, <1>2, <1>4, <1>5, <1>7

LEMMA ReviewedMoves ==
    ASSUME Typed, NEW c \in Calls, Reviewed(c)
    PROVE  LET e == call[c].doc IN
           /\ call[c].at = "review" /\ e \in Docs /\ call[c].file \in Files /\ Ends(c)
           /\ doc' \in [Docs -> Doc \cup {None, Gone}]
           /\ \A d \in Docs :
                 \/ doc'[d] = doc[d] /\ ~(d = e /\ Exists(d))
                 \/ /\ d = e /\ Exists(d) /\ doc'[d] \in Doc /\ doc'[d] \notin {None, Gone}
                    /\ doc'[d].holder = doc[d].holder /\ doc'[d].file = doc[d].file
                    /\ doc'[d].status = "approved" => doc'[d].read = call[c].file
<1>1. PICK e \in Docs, f \in Files, v \in {"approved", "rejected"} :
         e = call[c].doc /\ f = call[c].file /\ v = call[c].verdict
  BY DEF Reviewed, At, Typed, CallsFit, Fits
<1>2. call[c].at = "review" /\ Ends(c)
  BY EndsCall DEF Reviewed, At
<1>3. doc' = IF Exists(e) THEN [doc EXCEPT ![e] = Judged(doc[e], v, f)] ELSE doc
  BY <1>1 DEF Reviewed
<1>4. CASE Exists(e)
  <2>1. /\ Judged(doc[e], v, f) \in Doc /\ Judged(doc[e], v, f) \notin {None, Gone}
        /\ Judged(doc[e], v, f).holder = doc[e].holder /\ Judged(doc[e], v, f).file = doc[e].file
        /\ Judged(doc[e], v, f).status = "approved" => Judged(doc[e], v, f).read = f
    <3>1. PICK row \in Doc : row = doc[e]
      BY <1>4, Row
    <3>2. LET new == Judged(row, v, f) IN
             /\ new \in Doc /\ new \notin {None, Gone}
             /\ new.holder = row.holder /\ new.file = row.file
             /\ new.status = "approved" => new.read = f
      BY JudgedTyped
    <3> QED
      BY <3>1, <3>2
  <2>2. /\ doc' \in [Docs -> Doc \cup {None, Gone}] /\ doc'[e] = Judged(doc[e], v, f)
        /\ \A d \in Docs : d # e => doc'[d] = doc[d]
    BY <1>3, <1>4, <2>1 DEF Typed, TypeOK
  <2> QED
    BY <1>1, <1>2, <1>4, <2>1, <2>2
<1>5. CASE ~Exists(e)
  BY <1>1, <1>2, <1>3, <1>5 DEF Typed, TypeOK
<1> QED
  BY <1>4, <1>5

(* A document that is inserted.                                            *)
LEMMA InsertMoves ==
    ASSUME Typed, NEW d \in Docs, NEW h \in Holders, NEW f \in Files,
           doc' = [doc EXCEPT ![d] = NewRow(h, f)]
    PROVE  /\ doc' \in [Docs -> Doc \cup {None, Gone}]
           /\ doc'[d] \in Doc /\ doc'[d] \notin {None, Gone}
           /\ doc'[d].holder = h /\ doc'[d].file = f /\ doc'[d].status = "uploaded"
           /\ \A e \in Docs : e # d => doc'[e] = doc[e]
<1>1. /\ NewRow(h, f) \in Doc /\ NewRow(h, f) \notin {None, Gone}
      /\ NewRow(h, f).holder = h /\ NewRow(h, f).file = f /\ NewRow(h, f).status = "uploaded"
  BY NewRowTyped
<1> HIDE DEF NewRow
<1>2. /\ doc' \in [Docs -> Doc \cup {None, Gone}] /\ doc'[d] = NewRow(h, f)
      /\ \A e \in Docs : e # d => doc'[e] = doc[e]
  BY <1>1 DEF Typed, TypeOK
<1> QED
  BY <1>1, <1>2

\* The steps of a request, by what they are about.
ProfileStep(c) ==
    \/ \E p \in Profiles :
          \/ \E r \in Resorts : CreateResort(c, r, p)
          \/ \E a \in Agents : \E r \in Opt(Resorts) : CreateAgent(c, a, r, p)
    \/ ResortCreated(c) \/ AgentCreated(c)
    \/ \E a \in Agents :
       \E p \in Profiles : \/ UploadWithoutProfile(c, a, p)
                          \/ \E r \in Opt(Resorts) : UpdateAgentProfile(c, a, r, p)
    \/ AssignProfile(c)

FileStep(c) ==
    \/ \E f \in Files : \/ LinkProfile(c, f) \/ \E h \in Holders : Upload(c, h, f)
                       \/ \E r \in Resorts : RegisterDocument(c, r, f)
    \/ FindDocument(c) \/ ReplaceDocument(c)
    \/ \E d \in Docs : InsertDocument(c, d)

DocStep(c) ==
    \/ \E d \in Docs : DeleteDocument(c, d)
    \/ \E d \in Docs : \E v \in {"approved", "rejected"} : Review(c, d, v)
    \/ Reviewed(c)
    \/ \E deleted \in BOOLEAN : DeleteFile(c, deleted)
    \/ DeleteRow(c) \/ Crash(c)

LEMMA Split ==
    ASSUME Next
    PROVE  \/ \E c \in Calls : ProfileStep(c) \/ FileStep(c) \/ DocStep(c)
           \/ \E a \in Agents : \E r \in Resorts : CreateAgreement(a, r)
           \/ \E e \in Experiences : \E d \in Docs : \E f \in Files : PresignImage(e, d, f)
           \/ \E f \in Files : PresignFile(f) \/ DirectUpload(f) \/ DeleteByName(f)
           \/ \E r \in Resorts : RemoveResort(r)
BY DEF Next, Step, ProfileStep, FileStep, DocStep

(* Every step of a request leaves a request behind.                        *)
LEMMA StepCalls ==
    ASSUME Typed, NEW c \in Calls, ProfileStep(c) \/ FileStep(c) \/ DocStep(c)
    PROVE  \E n \in Call : Becomes(c, n)
<1>1. ASSUME ProfileStep(c) PROVE \E n \in Call : Becomes(c, n)
  BY <1>1, MakesProfile, EndsCall
     DEF ProfileStep, Makes, Ends, ResortCreated, AgentCreated, AssignProfile
<1>2. ASSUME FileStep(c) PROVE \E n \in Call : Becomes(c, n)
  BY <1>2, BringsFile, EndsCall DEF FileStep, Brings, Ends, ReplaceDocument, InsertDocument
<1>3. ASSUME DocStep(c) PROVE \E n \in Call : Becomes(c, n)
  BY <1>3, ReadsDocument, EndsCall DEF DocStep, Reads, Ends, Reviewed, DeleteRow, Crash
<1> QED
  BY <1>1, <1>2, <1>3

LEMMA ProfileTyped ==
    ASSUME Typed, NEW c \in Calls, ProfileStep(c)
    PROVE  Typed'
<1>1. call' \in [Calls -> Call] /\ CallsFit'
  BY StepCalls, BecomesOnly
<1>2. Fits(call[c])
  BY DEF Typed, CallsFit
<1>3. ASSUME NEW r \in Resorts, NEW p \in Profiles, CreateResort(c, r, p) PROVE Typed'
  <2>1. profile' \in [Profiles -> Resorts \cup Agents \cup {None}]
    BY <1>3, NewProfileTyped DEF CreateResort
  <2> QED
    BY <1>1, <1>3, <2>1 DEF CreateResort, Typed, TypeOK, papers, history
<1>4. ASSUME NEW r \in Opt(Resorts), NEW p \in Profiles, NEW a \in Agents, CreateAgent(c, a, r, p)
      PROVE  Typed'
  <2>1. profile' \in [Profiles -> Resorts \cup Agents \cup {None}]
    BY <1>4, NewProfileTyped DEF CreateAgent
  <2> QED
    BY <1>1, <1>4, <2>1 DEF CreateAgent, Typed, TypeOK, papers, history
<1>5. ASSUME NEW r \in Opt(Resorts), NEW p \in Profiles, NEW a \in Agents,
             UpdateAgentProfile(c, a, r, p)
      PROVE  Typed'
  <2>1. profile' \in [Profiles -> Resorts \cup Agents \cup {None}]
    BY <1>5, NewProfileTyped DEF UpdateAgentProfile
  <2> QED
    BY <1>1, <1>5, <2>1 DEF UpdateAgentProfile, Typed, TypeOK, papers
<1>6. ASSUME NEW p \in Profiles, NEW a \in Agents, UploadWithoutProfile(c, a, p) PROVE Typed'
  <2>1. profile' \in [Profiles -> Resorts \cup Agents \cup {None}]
    BY <1>6, NewProfileTyped DEF UploadWithoutProfile
  <2> QED
    BY <1>1, <1>6, <2>1 DEF UploadWithoutProfile, Typed, TypeOK, papers
<1>7. ASSUME ResortCreated(c) PROVE Typed'
  <2>1. resort' \in [Resorts -> Opt(Profiles) \cup {None}]
    BY <1>2, <1>7 DEF ResortCreated, At, Fits, Typed, TypeOK, Opt
  <2> QED
    BY <1>1, <1>7, <2>1 DEF ResortCreated, Typed, TypeOK, papers, history
<1>8. ASSUME AgentCreated(c) \/ AssignProfile(c) PROVE Typed'
  <2>1. PICK a \in Agents, r \in Opt(Resorts), p \in Profiles :
           a = call[c].who /\ r = call[c].resort /\ p = call[c].holder
    BY <1>2, <1>8 DEF AgentCreated, AssignProfile, At, Fits
  <2>2. agreement' = [agreement EXCEPT ![a] = [@ EXCEPT ![r] = p]]
    BY <1>8, <2>1 DEF AgentCreated, AssignProfile
  <2>3. agreement' \in [Agents -> [Opt(Resorts) -> Opt(Profiles) \cup {None}]]
    BY <2>2, AgreementTyped
  <2> QED
    BY <1>1, <1>8, <2>3 DEF AgentCreated, AssignProfile, Typed, TypeOK, papers, history
<1> QED
  BY <1>3, <1>4, <1>5, <1>6, <1>7, <1>8 DEF ProfileStep

LEMMA FileTyped ==
    ASSUME Typed, NEW c \in Calls, FileStep(c)
    PROVE  Typed'
<1>1. call' \in [Calls -> Call] /\ CallsFit'
  BY StepCalls, BecomesOnly
<1>2. Fits(call[c])
  BY DEF Typed, CallsFit
<1>3. ASSUME NEW f \in Files, LinkProfile(c, f) PROVE Typed'
  <2>1. PICK a \in Agents, p \in Profiles : a = call[c].who /\ p = call[c].holder
    BY <1>2, <1>3 DEF LinkProfile, At, Fits
  <2>2. agreement' = [agreement EXCEPT ![a] = Linked(a, p)]
    BY <1>3, <2>1 DEF LinkProfile
  <2>3. agreement' \in [Agents -> [Opt(Resorts) -> Opt(Profiles) \cup {None}]]
    BY <2>2, LinkedTyped
  <2>4. file' \in [Files -> {"none", "stored", "deleted"}]
    BY <1>3, StoredTyped DEF LinkProfile
  <2> QED
    BY <1>1, <1>3, <2>3, <2>4 DEF LinkProfile, Typed, TypeOK, history
<1>4. ASSUME NEW f \in Files, NEW h \in Holders, Upload(c, h, f) PROVE Typed'
  <2>1. file' \in [Files -> {"none", "stored", "deleted"}]
    BY <1>4, StoredTyped DEF Upload
  <2> QED
    BY <1>1, <1>4, <2>1 DEF Upload, Typed, TypeOK, parties, history
<1>5. ASSUME NEW f \in Files, NEW r \in Resorts, RegisterDocument(c, r, f) PROVE Typed'
  <2>1. loose' \subseteq Files
    BY <1>5 DEF RegisterDocument, Took, Typed, TypeOK
  <2> QED
    BY <1>1, <1>5, <2>1 DEF RegisterDocument, Typed, TypeOK, papers, parties
<1>6. ASSUME FindDocument(c) PROVE Typed'
  BY <1>1, <1>6 DEF FindDocument, Typed, TypeOK, papers, parties, history
<1>7. ASSUME ReplaceDocument(c) PROVE Typed'
  <2>1. doc' \in [Docs -> Doc \cup {None, Gone}]
    BY <1>7, ReplaceMoves
  <2>2. swapped' \subseteq Docs
    BY <1>7 DEF ReplaceDocument, DocsOf, Typed, TypeOK
  <2> QED
    BY <1>1, <1>7, <2>1, <2>2 DEF ReplaceDocument, Typed, TypeOK, parties
<1>8. ASSUME NEW d \in Docs, InsertDocument(c, d) PROVE Typed'
  <2>1. PICK h \in Holders, f \in Files : h = call[c].holder /\ f = call[c].file
    BY <1>2, <1>8 DEF InsertDocument, At, Fits
  <2>2. doc' = [doc EXCEPT ![d] = NewRow(h, f)]
    BY <1>8, <2>1 DEF InsertDocument, NewRow
  <2>3. doc' \in [Docs -> Doc \cup {None, Gone}]
    BY <2>2, InsertMoves
  <2>4. doubled' \subseteq Profiles
    BY <1>8 DEF InsertDocument, Typed, TypeOK
  <2> QED
    BY <1>1, <1>8, <2>3, <2>4 DEF InsertDocument, Typed, TypeOK, parties
<1> QED
  BY <1>3, <1>4, <1>5, <1>6, <1>7, <1>8 DEF FileStep

LEMMA DocTyped ==
    ASSUME Typed, NEW c \in Calls, DocStep(c)
    PROVE  Typed'
<1>1. call' \in [Calls -> Call] /\ CallsFit'
  BY StepCalls, BecomesOnly
<1>2. Fits(call[c])
  BY DEF Typed, CallsFit
<1>3. ASSUME NEW d \in Docs, DeleteDocument(c, d) PROVE Typed'
  BY <1>1, <1>3 DEF DeleteDocument, Typed, TypeOK, papers, parties, history
<1>4. ASSUME NEW d \in Docs, NEW v \in {"approved", "rejected"}, Review(c, d, v) PROVE Typed'
  BY <1>1, <1>4 DEF Review, Typed, TypeOK, papers, parties, history
<1>5. ASSUME Reviewed(c) PROVE Typed'
  <2>1. doc' \in [Docs -> Doc \cup {None, Gone}]
    BY <1>5, ReviewedMoves
  <2> QED
    BY <1>1, <1>5, <2>1 DEF Reviewed, Typed, TypeOK, parties, history
<1>6. ASSUME NEW deleted \in BOOLEAN, DeleteFile(c, deleted) PROVE Typed'
  <2>1. file' \in [Files -> {"none", "stored", "deleted"}]
    BY <1>6 DEF DeleteFile, Typed, TypeOK
  <2> QED
    BY <1>1, <1>6, <2>1 DEF DeleteFile, Typed, TypeOK, parties, history
<1>7. ASSUME DeleteRow(c) PROVE Typed'
  <2>1. doc' \in [Docs -> Doc \cup {None, Gone}]
    BY <1>7 DEF DeleteRow, Typed, TypeOK
  <2>2. cut' \subseteq Docs /\ swapped' \subseteq Docs
    BY <1>7 DEF DeleteRow, Typed, TypeOK
  <2> QED
    BY <1>1, <1>7, <2>1, <2>2 DEF DeleteRow, Typed, TypeOK, parties
<1>8. ASSUME Crash(c) PROVE Typed'
  <2>1. cut' \subseteq Docs /\ astray' \subseteq Agents
    BY <1>2, <1>8 DEF Crash, At, Fits, Typed, TypeOK
  <2> QED
    BY <1>1, <1>8, <2>1 DEF Crash, Typed, TypeOK, papers, parties
<1> QED
  BY <1>3, <1>4, <1>5, <1>6, <1>7, <1>8 DEF DocStep

LEMMA OtherTyped ==
    ASSUME Typed
    PROVE  /\ \A a \in Agents, r \in Resorts : CreateAgreement(a, r) => Typed'
           /\ \A e \in Experiences, d \in Docs, f \in Files : PresignImage(e, d, f) => Typed'
           /\ \A f \in Files : PresignFile(f) \/ DirectUpload(f) \/ DeleteByName(f) => Typed'
           /\ \A r \in Resorts : RemoveResort(r) => Typed'
           /\ UNCHANGED vars => Typed'
<1>1. ASSUME call' = call PROVE CallsFit'
  BY <1>1 DEF Typed, CallsFit, Fits
<1>2. ASSUME NEW a \in Agents, NEW r \in Resorts, CreateAgreement(a, r) PROVE Typed'
  <2>1. agreement' \in [Agents -> [Opt(Resorts) -> Opt(Profiles) \cup {None}]]
    <3>1. r \in Opt(Resorts) /\ Null \in Profiles \cup {Null}
      BY DEF Opt
    <3> QED
      BY <1>2, <3>1, AgreementTyped DEF CreateAgreement
  <2> QED
    BY <1>1, <1>2, <2>1 DEF CreateAgreement, Typed, TypeOK, papers, history
<1>3. ASSUME NEW e \in Experiences, NEW d \in Docs, NEW f \in Files, PresignImage(e, d, f)
      PROVE  Typed'
  <2>1. doc' = [doc EXCEPT ![d] = NewRow(e, f)] /\ e \in Holders
    BY <1>3 DEF PresignImage, NewRow, Holders
  <2>2. doc' \in [Docs -> Doc \cup {None, Gone}]
    BY <2>1, InsertMoves
  <2>3. file' \in [Files -> {"none", "stored", "deleted"}]
    BY <1>3, StoredTyped DEF PresignImage
  <2> QED
    BY <1>1, <1>3, <2>2, <2>3 DEF PresignImage, Typed, TypeOK, parties, history
<1>4. ASSUME NEW f \in Files, PresignFile(f) \/ DirectUpload(f) \/ DeleteByName(f)
      PROVE  Typed'
  <2>1. file' \in [Files -> {"none", "stored", "deleted"}]
    BY <1>4, PutTyped DEF PresignFile, StoreFile, DirectUpload, DeleteByName, Typed, TypeOK
  <2>2. loose' \subseteq Files
    BY <1>4 DEF PresignFile, DirectUpload, DeleteByName, Took, history, Typed, TypeOK
  <2> QED
    BY <1>1, <1>4, <2>1, <2>2
       DEF PresignFile, DirectUpload, DeleteByName, Typed, TypeOK, parties, history
<1>5. ASSUME NEW r \in Resorts, RemoveResort(r) PROVE Typed'
  BY <1>1, <1>5 DEF RemoveResort, Typed, TypeOK, papers, history
<1>6. ASSUME UNCHANGED vars PROVE Typed'
  BY <1>1, <1>6 DEF vars, papers, parties, history, Typed, TypeOK
<1> QED
  BY <1>2, <1>3, <1>4, <1>5, <1>6

LEMMA InitTyped ==
    ASSUME Init
    PROVE  Typed
<1>1. call \in [Calls -> Call] /\ CallsFit
  BY NoCallTyped DEF Init, CallsFit
<1>2. agreement \in [Agents -> [Opt(Resorts) -> Opt(Profiles) \cup {None}]]
  <2>1. {None, Null} \subseteq Opt(Profiles) \cup {None}
    BY DEF Opt
  <2> QED
    BY <2>1 DEF Init
<1>3. resort \in [Resorts -> Opt(Profiles) \cup {None}]
  BY DEF Init, Opt
<1> QED
  BY <1>1, <1>2, <1>3 DEF Init, Typed, TypeOK

LEMMA NextTyped ==
    ASSUME Typed, [Next]_vars
    PROVE  Typed'
<1>1. CASE Next
  BY <1>1, Split, ProfileTyped, FileTyped, DocTyped, OtherTyped
<1>2. CASE UNCHANGED vars
  BY <1>2, OtherTyped
<1> QED
  BY <1>1, <1>2

\* Profiles, agreements, documents, files and requests keep their types,
\* whichever statement a request stops at.
THEOREM TypeCorrect == Spec => []TypeOK
<1>1. Init => Typed
  BY InitTyped
<1>2. Typed /\ [Next]_vars => Typed'
  BY NextTyped
<1>3. Typed => TypeOK
  BY DEF Typed
<1> QED
  BY <1>1, <1>2, <1>3, PTL DEF Spec
-----------------------------------------------------------------------------
(* What the reviewer read *)

\* A reviewer has read the document as it is, unless it was replaced; a row
\* that is read stays, or leaves its mark.
ReviewsRead ==
    \A c \in Calls :
       At(c, "review") =>
          /\ doc[call[c].doc] # None
          /\ Exists(call[c].doc) =>
                call[c].file = doc[call[c].doc].file \/ call[c].doc \in swapped

ReadInvariant == ReviewsRead /\ ApprovedAsRead

(* Steps that leave documents alone and begin no review.                   *)
LEMMA ReadStays ==
    ASSUME Typed, ReadInvariant, NEW c \in Calls, NEW n, Becomes(c, n), n.at # "review",
           UNCHANGED <<doc, swapped>>
    PROVE  ReadInvariant'
<1>1. \A k \in Calls : call'[k] = IF k = c THEN n ELSE call[k]
  BY BecomesOnly
<1>2. \A k \in Calls : At(k, "review")' => At(k, "review") /\ call'[k] = call[k]
  BY <1>1 DEF At
<1>3. \A d \in Docs : Exists(d)' <=> Exists(d)
  BY DEF Exists
<1>4. ReviewsRead'
  BY <1>2, <1>3 DEF ReadInvariant, ReviewsRead, Exists
<1>5. ApprovedAsRead'
  BY <1>3 DEF ReadInvariant, ApprovedAsRead
<1> QED
  BY <1>4, <1>5 DEF ReadInvariant

(* A step that ends a request: what it must do to each document.           *)
LEMMA ReadMoves ==
    ASSUME Typed, ReadInvariant, NEW c \in Calls, Ends(c),
           \A d \in Docs :
              /\ doc[d] # None => doc'[d] # None
              /\ Exists(d)' =>
                    \/ Exists(d) /\ doc'[d].file = doc[d].file /\ (d \in swapped => d \in swapped')
                    \/ doc[d] = None
                    \/ \A k \in Calls : At(k, "review") /\ call[k].doc = d => d \in swapped'
              /\ Exists(d)' /\ doc'[d].status = "approved" =>
                    doc'[d].read = doc'[d].file \/ d \in swapped'
    PROVE  ReadInvariant'
<1>1. PICK n \in Call : Becomes(c, n) /\ n.at = "idle"
  BY DEF Ends
<1>2. \A k \in Calls : call'[k] = IF k = c THEN n ELSE call[k]
  BY <1>1, BecomesOnly
<1>3. \A k \in Calls : At(k, "review")' => At(k, "review") /\ call'[k] = call[k]
  BY <1>1, <1>2 DEF At
<1>4. ASSUME NEW k \in Calls, At(k, "review")'
      PROVE  /\ doc'[call'[k].doc] # None
             /\ Exists(call[k].doc)' =>
                   call'[k].file = doc'[call'[k].doc].file \/ call'[k].doc \in swapped'
  <2>1. PICK d \in Docs : d = call[k].doc
    BY <1>3, <1>4 DEF Typed, CallsFit, Fits, At
  <2>2. At(k, "review") /\ call'[k] = call[k]
    BY <1>3, <1>4
  <2>3. doc[d] # None /\ (Exists(d) => call[k].file = doc[d].file \/ d \in swapped)
    BY <2>1, <2>2 DEF ReadInvariant, ReviewsRead
  <2>4. doc'[d] # None
    BY <2>3
  <2>5. ASSUME Exists(d)' PROVE call[k].file = doc'[d].file \/ d \in swapped'
    BY <2>1, <2>2, <2>3, <2>5
  <2>6. call'[k].doc = d /\ call'[k].file = call[k].file
    BY <2>1, <2>2
  <2> QED
    BY <2>4, <2>5, <2>6 DEF Exists
<1>5. ReviewsRead'
  BY <1>4 DEF ReviewsRead, Exists
<1>6. ApprovedAsRead'
  BY DEF ApprovedAsRead
<1> QED
  BY <1>5, <1>6 DEF ReadInvariant

LEMMA ReadReplaced ==
    ASSUME Typed, ReadInvariant, NEW c \in Calls, ReplaceDocument(c)
    PROVE  ReadInvariant'
<1> DEFINE h == call[c].holder
<1>1. /\ Ends(c)
      /\ \A d \in Docs :
            \/ d \notin DocsOf(h) /\ doc'[d] = doc[d]
            \/ d \in DocsOf(h) /\ doc'[d] \notin {None, Gone} /\ doc'[d].status = "uploaded"
  BY ReplaceMoves
<1>2. /\ swapped \subseteq swapped'
      /\ \A d \in DocsOf(h), k \in Calls : At(k, "review") /\ call[k].doc = d => d \in swapped'
  BY DEF ReplaceDocument
<1> HIDE DEF h
<1>3. ASSUME NEW d \in Docs
      PROVE  /\ doc[d] # None => doc'[d] # None
             /\ Exists(d)' =>
                   \/ /\ Exists(d) /\ doc'[d].file = doc[d].file
                      /\ d \in swapped => d \in swapped'
                   \/ doc[d] = None
                   \/ \A k \in Calls : At(k, "review") /\ call[k].doc = d => d \in swapped'
             /\ Exists(d)' /\ doc'[d].status = "approved" =>
                   doc'[d].read = doc'[d].file \/ d \in swapped'
  <2>1. CASE d \in DocsOf(h)
    BY <1>1, <1>2, <2>1
  <2>2. CASE d \notin DocsOf(h)
    BY <1>1, <1>2, <2>2 DEF ReadInvariant, ApprovedAsRead, Exists
  <2> QED
    BY <2>1, <2>2
<1> QED
  BY <1>1, <1>3, ReadMoves

LEMMA ReadReviewed ==
    ASSUME Typed, ReadInvariant, NEW c \in Calls, Reviewed(c)
    PROVE  ReadInvariant'
<1>1. PICK e \in Docs : e = call[c].doc
  BY ReviewedMoves
<1>2. /\ call[c].at = "review" /\ Ends(c)
      /\ \A d \in Docs :
            \/ doc'[d] = doc[d] /\ ~(d = e /\ Exists(d))
            \/ /\ d = e /\ Exists(d) /\ doc'[d] \notin {None, Gone}
               /\ doc'[d].file = doc[d].file
               /\ doc'[d].status = "approved" => doc'[d].read = call[c].file
  BY <1>1, ReviewedMoves
<1>3. swapped' = swapped
  BY DEF Reviewed, history
<1>4. Exists(e) => call[c].file = doc[e].file \/ e \in swapped
  BY <1>1, <1>2 DEF ReadInvariant, ReviewsRead, At
<1>5. ASSUME NEW d \in Docs
      PROVE  /\ doc[d] # None => doc'[d] # None
             /\ Exists(d)' =>
                   /\ Exists(d) /\ doc'[d].file = doc[d].file
                   /\ d \in swapped => d \in swapped'
             /\ Exists(d)' /\ doc'[d].status = "approved" =>
                   doc'[d].read = doc'[d].file \/ d \in swapped'
  BY <1>2, <1>3, <1>4 DEF ReadInvariant, ApprovedAsRead, Exists
<1> QED
  BY <1>2, <1>5, ReadMoves

LEMMA ReadInserted ==
    ASSUME Typed, ReadInvariant, NEW c \in Calls, NEW e \in Docs, InsertDocument(c, e)
    PROVE  ReadInvariant'
<1>1. PICK h \in Holders, f \in Files : h = call[c].holder /\ f = call[c].file
  BY DEF InsertDocument, At, Typed, CallsFit, Fits
<1>2. doc' = [doc EXCEPT ![e] = NewRow(h, f)] /\ doc[e] = None
  BY <1>1 DEF InsertDocument, NewRow
<1>3. /\ doc'[e] \notin {None, Gone} /\ doc'[e].status = "uploaded"
      /\ \A d \in Docs : d # e => doc'[d] = doc[d]
  BY <1>2, InsertMoves
<1>4. swapped' = swapped /\ Ends(c)
  BY EndsCall DEF InsertDocument
<1>5. ASSUME NEW d \in Docs
      PROVE  /\ doc[d] # None => doc'[d] # None
             /\ Exists(d)' =>
                   \/ /\ Exists(d) /\ doc'[d].file = doc[d].file
                      /\ d \in swapped => d \in swapped'
                   \/ doc[d] = None
             /\ Exists(d)' /\ doc'[d].status = "approved" =>
                   doc'[d].read = doc'[d].file \/ d \in swapped'
  <2>1. CASE d = e
    BY <1>2, <1>3, <2>1
  <2>2. CASE d # e
    BY <1>3, <1>4, <2>2 DEF ReadInvariant, ApprovedAsRead, Exists
  <2> QED
    BY <2>1, <2>2
<1> QED
  BY <1>4, <1>5, ReadMoves

LEMMA ReadDeleted ==
    ASSUME Typed, ReadInvariant, NEW c \in Calls, DeleteRow(c)
    PROVE  ReadInvariant'
<1>1. PICK e \in Docs : e = call[c].doc
  BY DEF DeleteRow, At, Typed, CallsFit, Fits
<1>2. /\ doc'[e] = Gone /\ \A d \in Docs : d # e => doc'[d] = doc[d]
      /\ swapped' = swapped \ {e} /\ Ends(c)
  BY <1>1, EndsCall DEF DeleteRow, Typed, TypeOK
<1>3. ASSUME NEW d \in Docs
      PROVE  /\ doc[d] # None => doc'[d] # None
             /\ Exists(d)' =>
                   /\ Exists(d) /\ doc'[d].file = doc[d].file
                   /\ d \in swapped => d \in swapped'
             /\ Exists(d)' /\ doc'[d].status = "approved" =>
                   doc'[d].read = doc'[d].file \/ d \in swapped'
  <2>1. CASE d = e
    BY <1>2, <2>1, DocumentsAssumption DEF Exists
  <2>2. CASE d # e
    BY <1>2, <2>2 DEF ReadInvariant, ApprovedAsRead, Exists
  <2> QED
    BY <2>1, <2>2
<1> QED
  BY <1>2, <1>3, ReadMoves

LEMMA ReadBegun ==
    ASSUME Typed, ReadInvariant, NEW c \in Calls, NEW e \in Docs,
           NEW v \in {"approved", "rejected"}, Review(c, e, v)
    PROVE  ReadInvariant'
<1>1. PICK n \in Call : Becomes(c, n) /\ n.doc = e /\ n.file = doc[e].file
  BY ReadsDocument DEF Reads
<1>2. \A k \in Calls : call'[k] = IF k = c THEN n ELSE call[k]
  BY <1>1, BecomesOnly
<1>3. Exists(e) /\ doc' = doc /\ swapped' = swapped
  BY DEF Review, papers, history
<1>4. ReviewsRead'
  <2>1. ASSUME NEW k \in Calls, At(k, "review")'
        PROVE  /\ doc'[call'[k].doc] # None
               /\ Exists(call[k].doc)' =>
                     call'[k].file = doc'[call'[k].doc].file \/ call'[k].doc \in swapped'
    <3>1. CASE k = c
      BY <1>1, <1>2, <1>3, <3>1 DEF Exists
    <3>2. CASE k # c
      BY <1>2, <1>3, <2>1, <3>2 DEF ReadInvariant, ReviewsRead, Exists, At
    <3> QED
      BY <3>1, <3>2
  <2> QED
    BY <2>1 DEF ReviewsRead, Exists
<1>5. ApprovedAsRead'
  BY <1>3 DEF ReadInvariant, ApprovedAsRead, Exists
<1> QED
  BY <1>4, <1>5 DEF ReadInvariant

LEMMA NextRead ==
    ASSUME Typed, ReadInvariant, [Next]_vars
    PROVE  ReadInvariant'
<1>1. ASSUME NEW c \in Calls, ProfileStep(c) PROVE ReadInvariant'
  <2>1. \E n \in Call : Becomes(c, n) /\ n.at # "review"
    BY <1>1, MakesProfile, EndsCall
       DEF ProfileStep, Makes, Ends, ResortCreated, AgentCreated, AssignProfile
  <2>2. UNCHANGED <<doc, swapped>>
    BY <1>1 DEF ProfileStep, CreateResort, CreateAgent, ResortCreated, AgentCreated,
       UploadWithoutProfile, UpdateAgentProfile, AssignProfile, papers, history
  <2> QED
    BY <2>1, <2>2, ReadStays
<1>2. ASSUME NEW c \in Calls, FileStep(c) PROVE ReadInvariant'
  <2>1. ASSUME NEW f \in Files, LinkProfile(c, f) PROVE ReadInvariant'
    <3>1. \E n \in Call : Becomes(c, n) /\ n.at # "review"
      BY <2>1, BringsFile DEF Brings
    <3>2. UNCHANGED <<doc, swapped>>
      BY <2>1 DEF LinkProfile, history
    <3> QED
      BY <3>1, <3>2, ReadStays
  <2>2. ASSUME FindDocument(c) PROVE ReadInvariant'
    <3>1. \E n \in Call : Becomes(c, n) /\ n.at # "review"
      BY <2>2, BringsFile
    <3>2. UNCHANGED <<doc, swapped>>
      BY <2>2 DEF FindDocument, papers, history
    <3> QED
      BY <3>1, <3>2, ReadStays
  <2>3. ASSUME NEW f \in Files, NEW h \in Holders, Upload(c, h, f) PROVE ReadInvariant'
    <3>1. \E n \in Call : Becomes(c, n) /\ n.at # "review"
      BY <2>3, BringsFile DEF Brings
    <3>2. UNCHANGED <<doc, swapped>>
      BY <2>3 DEF Upload, history
    <3> QED
      BY <3>1, <3>2, ReadStays
  <2>4. ASSUME NEW f \in Files, NEW r \in Resorts, RegisterDocument(c, r, f)
        PROVE  ReadInvariant'
    <3>1. \E n \in Call : Becomes(c, n) /\ n.at # "review"
      BY <2>4, BringsFile DEF Brings
    <3>2. UNCHANGED <<doc, swapped>>
      BY <2>4 DEF RegisterDocument, papers, history
    <3> QED
      BY <3>1, <3>2, ReadStays
  <2> QED
    BY <1>2, <2>1, <2>2, <2>3, <2>4, ReadReplaced, ReadInserted DEF FileStep
<1>3. ASSUME NEW c \in Calls, DocStep(c) PROVE ReadInvariant'
  <2>1. ASSUME NEW d \in Docs, DeleteDocument(c, d) PROVE ReadInvariant'
    <3>1. \E n \in Call : Becomes(c, n) /\ n.at # "review"
      BY <2>1, ReadsDocument DEF Reads
    <3>2. UNCHANGED <<doc, swapped>>
      BY <2>1 DEF DeleteDocument, papers, history
    <3> QED
      BY <3>1, <3>2, ReadStays
  <2>2. ASSUME NEW deleted \in BOOLEAN, DeleteFile(c, deleted) PROVE ReadInvariant'
    <3>1. \E n \in Call : Becomes(c, n) /\ n.at # "review"
      BY <2>2, ReadsDocument DEF Reads
    <3>2. UNCHANGED <<doc, swapped>>
      BY <2>2 DEF DeleteFile, history
    <3> QED
      BY <3>1, <3>2, ReadStays
  <2>3. ASSUME Crash(c) PROVE ReadInvariant'
    <3>1. \E n \in Call : Becomes(c, n) /\ n.at # "review"
      BY <2>3, EndsCall DEF Crash, Ends
    <3>2. UNCHANGED <<doc, swapped>>
      BY <2>3 DEF Crash, papers
    <3> QED
      BY <3>1, <3>2, ReadStays
  <2> QED
    BY <1>3, <2>1, <2>2, <2>3, ReadReviewed, ReadDeleted, ReadBegun DEF DocStep
<1>4. ASSUME UNCHANGED <<doc, swapped, call>> PROVE ReadInvariant'
  BY <1>4 DEF ReadInvariant, ReviewsRead, ApprovedAsRead, At, Exists
<1>5. ASSUME NEW e \in Experiences, NEW d \in Docs, NEW f \in Files, PresignImage(e, d, f)
      PROVE  ReadInvariant'
  <2>1. e \in Holders /\ doc[d] = None /\ doc' = [doc EXCEPT ![d] = NewRow(e, f)]
        /\ swapped' = swapped /\ call' = call
    BY <1>5 DEF PresignImage, NewRow, Holders, history
  <2>2. /\ doc'[d] \notin {None, Gone} /\ doc'[d].status = "uploaded"
        /\ \A g \in Docs : g # d => doc'[g] = doc[g]
    BY <2>1, InsertMoves
  <2>3. \A k \in Calls : At(k, "review") => call[k].doc \in Docs /\ call[k].doc # d
    BY <2>1 DEF ReadInvariant, ReviewsRead, Typed, CallsFit, Fits, At
  <2>4. ReviewsRead'
    BY <2>1, <2>2, <2>3 DEF ReadInvariant, ReviewsRead, At, Exists
  <2>5. ApprovedAsRead'
    BY <2>1, <2>2 DEF ReadInvariant, ApprovedAsRead, Exists
  <2> QED
    BY <2>4, <2>5 DEF ReadInvariant
<1>6. ASSUME NEW a \in Agents, NEW r \in Resorts, CreateAgreement(a, r) PROVE ReadInvariant'
  BY <1>4, <1>6 DEF CreateAgreement, papers, history
<1>7. ASSUME NEW f \in Files, PresignFile(f) \/ DirectUpload(f) \/ DeleteByName(f)
      PROVE  ReadInvariant'
  BY <1>4, <1>7 DEF PresignFile, DirectUpload, DeleteByName, history
<1>8. ASSUME NEW r \in Resorts, RemoveResort(r) PROVE ReadInvariant'
  BY <1>4, <1>8 DEF RemoveResort, papers, history
<1>9. ASSUME UNCHANGED vars PROVE ReadInvariant'
  BY <1>4, <1>9 DEF vars, papers, history
<1> QED
  BY Split, <1>1, <1>2, <1>3, <1>5, <1>6, <1>7, <1>8, <1>9

\* A document stays approved only with the file that its reviewer had read,
\* unless it was replaced while the verdict was being written: approveDocument
\* and rejectDocument write by id, whatever the row says by then.
THEOREM ReadTheorem == Spec => []ApprovedAsRead
<1>1. Init => Typed /\ ReadInvariant
  BY InitTyped DEF Init, ReadInvariant, ReviewsRead, ApprovedAsRead, At, Exists, NoCall
<1>2. Typed /\ ReadInvariant /\ [Next]_vars => Typed' /\ ReadInvariant'
  BY NextTyped, NextRead
<1>3. Typed /\ ReadInvariant => ApprovedAsRead
  BY DEF ReadInvariant
<1> QED
  BY <1>1, <1>2, <1>3, PTL DEF Spec
-----------------------------------------------------------------------------
(* What is stored *)

\* Requests that bring a file nobody else knows of; and those with any file.
Holding(c) == call[c].at \in {"find", "replace", "insert"}
Carries(c) == Holding(c) \/ call[c].at \in {"review", "blob", "row"}

\* The file of an upload is stored, and neither a row nor another request
\* has it yet; of files that clients took by name nothing is said.
NewFiles ==
    \A c \in Calls :
       Holding(c) /\ call[c].file \notin loose =>
          /\ file[call[c].file] = "stored"
          /\ \A d \in Docs : Exists(d) => doc[d].file # call[c].file
          /\ \A k \in Calls : k # c /\ Carries(k) => call[k].file # call[c].file

\* Rows and requests have names of files that are taken.
UsedFiles ==
    /\ \A d \in Docs : Exists(d) /\ doc[d].file \notin loose => file[doc[d].file] # "none"
    /\ \A c \in Calls : Carries(c) /\ call[c].file \notin loose => file[call[c].file] # "none"

\* Two rows of a profile, or with one file, are marked.
SharedFiles ==
    \A d \in Docs : \A e \in Docs :
       d # e /\ Exists(d) /\ Exists(e) =>
          /\ doc[d].file = doc[e].file => doc[d].holder \in doubled \/ doc[d].file \in loose
          /\ doc[d].holder = doc[e].holder /\ doc[d].holder \in Profiles =>
                doc[d].holder \in doubled

\* The file that is about to be deleted is of the row that goes with it.
OwnDeletes ==
    \A c \in Calls :
       At(c, "blob") =>
          \A d \in Docs :
             Exists(d) /\ doc[d].file = call[c].file =>
                d = call[c].doc \/ doc[d].holder \in doubled \/ doc[d].file \in loose

FileInvariant == NewFiles /\ UsedFiles /\ SharedFiles /\ OwnDeletes /\ RowsHaveFiles

(* A step after which a request has no file, and rows are as they were or  *)
(* are deleted.                                                            *)
LEMMA FilesStay ==
    ASSUME Typed, FileInvariant, NEW c \in Calls, NEW n, Becomes(c, n),
           n.at \notin {"find", "replace", "insert", "review", "blob", "row"},
           \A d \in Docs :
              Exists(d)' =>
                 /\ Exists(d) /\ doc'[d].holder = doc[d].holder /\ doc'[d].file = doc[d].file
                 /\ d \in cut => d \in cut'
                 /\ At(c, "row") /\ call[c].doc = d => d \in cut',
           UNCHANGED <<file, doubled, loose>>
    PROVE  FileInvariant'
<1>1. \A k \in Calls : call'[k] = IF k = c THEN n ELSE call[k]
  BY BecomesOnly
<1>2. \A k \in Calls : Carries(k)' => k # c /\ call'[k] = call[k] /\ Carries(k)
  BY <1>1 DEF Carries, Holding
<1>3. \A k \in Calls : Holding(k)' => k # c /\ call'[k] = call[k] /\ Holding(k)
  BY <1>1 DEF Holding
<1>4. NewFiles'
  BY <1>2, <1>3 DEF FileInvariant, NewFiles
<1>5. UsedFiles'
  BY <1>2 DEF FileInvariant, UsedFiles
<1>6. SharedFiles'
  BY DEF FileInvariant, SharedFiles
<1>7. OwnDeletes'
  BY <1>1 DEF FileInvariant, OwnDeletes, At
<1>8. RowsHaveFiles'
  <2>1. ASSUME NEW d \in Docs, Exists(d)'
        PROVE  \/ file'[doc'[d].file] = "stored" \/ doc'[d].file \in loose'
               \/ d \in cut' \/ doc'[d].holder \in doubled'
               \/ \E k \in Calls : At(k, "row")' /\ call'[k].doc = d
    <3>1. CASE \E k \in Calls : At(k, "row") /\ call[k].doc = d
      BY <1>1, <2>1, <3>1 DEF At
    <3>2. CASE ~\E k \in Calls : At(k, "row") /\ call[k].doc = d
      BY <2>1, <3>2 DEF FileInvariant, RowsHaveFiles
    <3> QED
      BY <3>1, <3>2
  <2> QED
    BY <2>1 DEF RowsHaveFiles
<1> QED
  BY <1>4, <1>5, <1>6, <1>7, <1>8 DEF FileInvariant

(* A request gets a file that is nobody else's, or that a client took.     *)
LEMMA FilesHeld ==
    ASSUME Typed, FileInvariant, NEW c \in Calls, NEW n \in Call, Becomes(c, n),
           n.at \in {"find", "replace", "insert"}, NEW f \in Files, n.file = f,
           ~At(c, "row"),
           f \notin loose' =>
              /\ \A d \in Docs : Exists(d) => doc[d].file # f
              /\ \A k \in Calls : k # c /\ Carries(k) => call[k].file # f
              /\ file'[f] = "stored",
           \A g \in Files : g # f => file'[g] = file[g],
           loose \subseteq loose', UNCHANGED <<doc, doubled, cut>>
    PROVE  FileInvariant'
<1>1. \A k \in Calls : call'[k] = IF k = c THEN n ELSE call[k]
  BY BecomesOnly
<1>2. \A k \in Calls : Carries(k)' /\ k # c => call'[k] = call[k] /\ Carries(k)
  BY <1>1 DEF Carries, Holding
<1>3. \A k \in Calls : Holding(k)' /\ k # c => call'[k] = call[k] /\ Holding(k)
  BY <1>1 DEF Holding
<1>4. \A d \in Docs : Exists(d)' <=> Exists(d)
  BY DEF Exists
<1>5. \A d \in Docs : Exists(d) => doc[d].file \in Files
  BY Row
<1>6. \A k \in Calls : Carries(k) => call[k].file \in Files
  BY DEF Carries, Holding, Typed, CallsFit, Fits
<1>7. NewFiles'
  <2>1. ASSUME NEW k \in Calls, Holding(k)', call'[k].file \notin loose'
        PROVE  /\ file'[call'[k].file] = "stored"
               /\ \A d \in Docs : Exists(d)' => doc'[d].file # call'[k].file
               /\ \A l \in Calls : l # k /\ Carries(l)' => call'[l].file # call'[k].file
    <3>1. CASE k = c
      BY <1>1, <1>2, <1>4, <2>1, <3>1
    <3>2. CASE k # c
      <4>1. /\ call'[k] = call[k] /\ Holding(k) /\ Carries(k)
            /\ call[k].file # f /\ call[k].file \notin loose
        BY <1>3, <2>1, <3>2 DEF Carries
      <4>2. file'[call'[k].file] = "stored"
        BY <1>6, <4>1 DEF FileInvariant, NewFiles
      <4>3. \A d \in Docs : Exists(d)' => doc'[d].file # call'[k].file
        BY <1>4, <4>1 DEF FileInvariant, NewFiles
      <4>4. \A l \in Calls : l # k /\ Carries(l)' => call'[l].file # call'[k].file
        BY <1>1, <1>2, <4>1 DEF FileInvariant, NewFiles
      <4> QED
        BY <4>2, <4>3, <4>4
    <3> QED
      BY <3>1, <3>2
  <2> QED
    BY <2>1 DEF NewFiles
<1>8. UsedFiles'
  <2>1. ASSUME NEW d \in Docs, Exists(d)', doc'[d].file \notin loose'
        PROVE  file'[doc'[d].file] # "none"
    <3>1. Exists(d) /\ doc'[d] = doc[d] /\ doc[d].file # f /\ doc[d].file \notin loose
      BY <1>4, <2>1
    <3> QED
      BY <1>5, <3>1 DEF FileInvariant, UsedFiles
  <2>2. ASSUME NEW k \in Calls, Carries(k)', call'[k].file \notin loose'
        PROVE  file'[call'[k].file] # "none"
    <3>1. CASE k = c
      BY <1>1, <2>2, <3>1
    <3>2. CASE k # c
      <4>1. /\ Carries(k) /\ call'[k] = call[k]
            /\ call[k].file # f /\ call[k].file \notin loose
        BY <1>2, <2>2, <3>2
      <4> QED
        BY <1>6, <4>1 DEF FileInvariant, UsedFiles
    <3> QED
      BY <3>1, <3>2
  <2> QED
    BY <2>1, <2>2 DEF UsedFiles
<1>9. SharedFiles'
  BY <1>4 DEF FileInvariant, SharedFiles
<1>10. OwnDeletes'
  BY <1>1, <1>4 DEF FileInvariant, OwnDeletes, At
<1>11. RowsHaveFiles'
  <2>1. \A k \in Calls : At(k, "row") => k # c /\ At(k, "row")' /\ call'[k] = call[k]
    BY <1>1 DEF At
  <2> QED
    BY <1>4, <1>5, <2>1 DEF FileInvariant, RowsHaveFiles
<1> QED
  BY <1>7, <1>8, <1>9, <1>10, <1>11 DEF FileInvariant

(* A request reads a row.                                                  *)
LEMMA FilesRead ==
    ASSUME Typed, FileInvariant, NEW c \in Calls, NEW e \in Docs, Exists(e),
           NEW at \in {"review", "blob"}, Reads(c, at, e, doc[e].file),
           ~At(c, "row"), UNCHANGED <<doc, file, doubled, cut, loose>>
    PROVE  FileInvariant'
<1>1. PICK n \in Call : Becomes(c, n) /\ n.at = at /\ n.doc = e /\ n.file = doc[e].file
  BY DEF Reads
<1>2. \A k \in Calls : call'[k] = IF k = c THEN n ELSE call[k]
  BY <1>1, BecomesOnly
<1>3. \A k \in Calls : Carries(k)' /\ k # c => call'[k] = call[k] /\ Carries(k)
  BY <1>2 DEF Carries, Holding
<1>4. \A k \in Calls : Holding(k)' => k # c /\ call'[k] = call[k] /\ Holding(k)
  BY <1>1, <1>2 DEF Holding
<1>5. \A d \in Docs : Exists(d)' <=> Exists(d)
  BY DEF Exists
<1>6. NewFiles'
  <2>1. ASSUME NEW k \in Calls, Holding(k)', call'[k].file \notin loose'
        PROVE  /\ file'[call'[k].file] = "stored"
               /\ \A d \in Docs : Exists(d)' => doc'[d].file # call'[k].file
               /\ \A l \in Calls : l # k /\ Carries(l)' => call'[l].file # call'[k].file
    <3>1. k # c /\ call'[k] = call[k] /\ Holding(k) /\ call[k].file \notin loose
      BY <1>4, <2>1
    <3>2. /\ file[call[k].file] = "stored"
          /\ \A d \in Docs : Exists(d) => doc[d].file # call[k].file
          /\ \A l \in Calls : l # k /\ Carries(l) => call[l].file # call[k].file
      BY <3>1 DEF FileInvariant, NewFiles
    <3>3. \A l \in Calls : l # k /\ Carries(l)' => call'[l].file # call'[k].file
      BY <1>1, <1>2, <1>3, <3>1, <3>2
    <3> QED
      BY <1>5, <3>1, <3>2, <3>3
  <2> QED
    BY <2>1 DEF NewFiles
<1>7. UsedFiles'
  BY <1>1, <1>2, <1>3, <1>5 DEF FileInvariant, UsedFiles
<1>8. SharedFiles'
  BY <1>5 DEF FileInvariant, SharedFiles
<1>9. OwnDeletes'
  <2>1. ASSUME NEW k \in Calls, At(k, "blob")', NEW d \in Docs, Exists(d)',
               doc'[d].file = call'[k].file
        PROVE  \/ d = call'[k].doc \/ doc'[d].holder \in doubled'
               \/ doc'[d].file \in loose'
    <3>1. CASE k = c
      BY <1>1, <1>2, <1>5, <2>1, <3>1 DEF FileInvariant, SharedFiles
    <3>2. CASE k # c
      BY <1>2, <1>5, <2>1, <3>2 DEF FileInvariant, OwnDeletes, At
    <3> QED
      BY <3>1, <3>2
  <2> QED
    BY <2>1 DEF OwnDeletes
<1>10. RowsHaveFiles'
  <2>1. \A k \in Calls : At(k, "row") => k # c /\ At(k, "row")' /\ call'[k] = call[k]
    BY <1>2 DEF At
  <2> QED
    BY <1>5, <2>1 DEF FileInvariant, RowsHaveFiles
<1> QED
  BY <1>6, <1>7, <1>8, <1>9, <1>10 DEF FileInvariant

(* The file of a row goes, the row is next.                                *)
LEMMA FilesDeleted ==
    ASSUME Typed, FileInvariant, NEW c \in Calls, NEW deleted \in BOOLEAN,
           DeleteFile(c, deleted)
    PROVE  FileInvariant'
<1>1. PICK n \in Call :
         Becomes(c, n) /\ n.at = "row" /\ n.doc = call[c].doc /\ n.file = call[c].file
  BY ReadsDocument DEF Reads
<1>2. \A k \in Calls : call'[k] = IF k = c THEN n ELSE call[k]
  BY <1>1, BecomesOnly
<1>3. At(c, "blob") /\ UNCHANGED <<doc, doubled, cut, loose>>
  BY DEF DeleteFile, history
<1>4. PICK f \in Files : f = call[c].file
  BY <1>3 DEF At, Typed, CallsFit, Fits
<1>5. /\ \A g \in Files : g # f => file'[g] = file[g]
      /\ \A g \in Files : file[g] # "none" => file'[g] # "none"
  BY <1>4 DEF DeleteFile, Typed, TypeOK
<1>6. \A k \in Calls : Carries(k)' => Carries(k) /\ call'[k].file = call[k].file
  BY <1>1, <1>2, <1>3 DEF Carries, Holding, At
<1>7. \A k \in Calls : Holding(k)' => k # c /\ call'[k] = call[k] /\ Holding(k)
  BY <1>1, <1>2 DEF Holding
<1>8. \A d \in Docs : Exists(d)' <=> Exists(d)
  BY <1>3 DEF Exists
<1>9. \A k \in Calls : Carries(k) => call[k].file \in Files
  BY DEF Carries, Holding, Typed, CallsFit, Fits
<1>10. \A d \in Docs : Exists(d) => doc[d].file \in Files
  BY Row
<1>11. NewFiles'
  <2>1. ASSUME NEW k \in Calls, Holding(k)', call'[k].file \notin loose'
        PROVE  /\ file'[call'[k].file] = "stored"
               /\ \A d \in Docs : Exists(d)' => doc'[d].file # call'[k].file
               /\ \A l \in Calls : l # k /\ Carries(l)' => call'[l].file # call'[k].file
    <3>1. k # c /\ call'[k] = call[k] /\ Holding(k) /\ call[k].file \notin loose
      BY <1>3, <1>7, <2>1
    <3>2. /\ file[call[k].file] = "stored"
          /\ \A d \in Docs : Exists(d) => doc[d].file # call[k].file
          /\ \A l \in Calls : l # k /\ Carries(l) => call[l].file # call[k].file
      BY <3>1 DEF FileInvariant, NewFiles
    <3>3. call[k].file \in Files /\ call[k].file # f
      <4>1. Carries(c) /\ Carries(k)
        BY <1>3, <3>1 DEF Carries, At
      <4> QED
        BY <1>4, <1>9, <3>1, <3>2, <4>1
    <3>4. file'[call'[k].file] = "stored"
      BY <1>5, <3>1, <3>2, <3>3
    <3> QED
      BY <1>3, <1>6, <1>8, <3>1, <3>2, <3>4
  <2> QED
    BY <2>1 DEF NewFiles
<1>12. UsedFiles'
  <2>1. \A d \in Docs : Exists(d)' /\ doc'[d].file \notin loose' => file'[doc'[d].file] # "none"
    BY <1>3, <1>5, <1>8, <1>10 DEF FileInvariant, UsedFiles
  <2>2. \A k \in Calls : Carries(k)' /\ call'[k].file \notin loose' => file'[call'[k].file] # "none"
    BY <1>3, <1>5, <1>6, <1>9 DEF FileInvariant, UsedFiles
  <2> QED
    BY <2>1, <2>2 DEF UsedFiles
<1>13. SharedFiles'
  BY <1>3, <1>8 DEF FileInvariant, SharedFiles
<1>14. OwnDeletes'
  BY <1>1, <1>2, <1>3, <1>8 DEF FileInvariant, OwnDeletes, At
<1>15. RowsHaveFiles'
  <2>1. ASSUME NEW d \in Docs, Exists(d)'
        PROVE  \/ file'[doc'[d].file] = "stored" \/ doc'[d].file \in loose'
               \/ d \in cut' \/ doc'[d].holder \in doubled'
               \/ \E k \in Calls : At(k, "row")' /\ call'[k].doc = d
    <3>1. Exists(d) /\ doc'[d] = doc[d] /\ doc[d].file \in Files
      BY <1>3, <1>8, <1>10, <2>1
    <3>2. CASE doc[d].file = f
      <4>1. d = call[c].doc \/ doc[d].holder \in doubled \/ doc[d].file \in loose
        BY <1>3, <1>4, <3>1, <3>2 DEF FileInvariant, OwnDeletes
      <4>2. At(c, "row")' /\ call'[c].doc = call[c].doc
        BY <1>1, <1>2 DEF At
      <4> QED
        BY <1>3, <3>1, <4>1, <4>2
    <3>3. CASE doc[d].file # f
      <4>1. \A k \in Calls : At(k, "row") => At(k, "row")' /\ call'[k] = call[k]
        BY <1>2, <1>3 DEF At
      <4> QED
        BY <1>3, <1>5, <3>1, <3>3, <4>1 DEF FileInvariant, RowsHaveFiles
    <3> QED
      BY <3>2, <3>3
  <2> QED
    BY <2>1 DEF RowsHaveFiles
<1> QED
  BY <1>11, <1>12, <1>13, <1>14, <1>15 DEF FileInvariant

(* A request's new file is put into rows of its profile, or a new row.     *)
LEMMA FilesPlaced ==
    ASSUME Typed, FileInvariant, NEW c \in Calls, Ends(c), Holding(c),
           NEW h \in Holders, NEW f \in Files, h = call[c].holder, f = call[c].file,
           \A d \in Docs :
              Exists(d)' =>
                 \/ Exists(d) /\ doc'[d].holder = doc[d].holder /\ doc'[d].file = doc[d].file
                 \/ doc'[d].holder = h /\ doc'[d].file = f,
           \* two rows with the holder, or with the file
           \A d \in Docs, e \in Docs :
              d # e /\ Exists(d)' /\ Exists(e)' /\ doc'[d].holder = h =>
                 /\ doc'[e].holder = h /\ h \in Profiles => h \in doubled'
                 /\ doc'[d].file = f /\ doc'[e].file = f => h \in doubled' \/ f \in loose,
           doubled \subseteq doubled', UNCHANGED <<file, cut, loose>>
    PROVE  FileInvariant'
<1>1. PICK n \in Call : Becomes(c, n) /\ n.at = "idle"
  BY DEF Ends
<1>2. \A k \in Calls : call'[k] = IF k = c THEN n ELSE call[k]
  BY <1>1, BecomesOnly
<1>3. \A k \in Calls : Carries(k)' => k # c /\ call'[k] = call[k] /\ Carries(k)
  BY <1>1, <1>2 DEF Carries, Holding
<1>4. \A k \in Calls : Holding(k)' => k # c /\ call'[k] = call[k] /\ Holding(k)
  BY <1>1, <1>2 DEF Holding
<1>5. /\ Carries(c)
      /\ f \notin loose =>
            /\ file[f] = "stored"
            /\ \A d \in Docs : Exists(d) => doc[d].file # f
            /\ \A k \in Calls : k # c /\ Carries(k) => call[k].file # f
  BY DEF FileInvariant, NewFiles, Carries
<1>6. NewFiles'
  <2>1. ASSUME NEW k \in Calls, Holding(k)', call'[k].file \notin loose'
        PROVE  /\ file'[call'[k].file] = "stored"
               /\ \A d \in Docs : Exists(d)' => doc'[d].file # call'[k].file
               /\ \A l \in Calls : l # k /\ Carries(l)' => call'[l].file # call'[k].file
    <3>1. /\ k # c /\ call'[k] = call[k] /\ Holding(k) /\ Carries(k)
          /\ call[k].file \notin loose
      BY <1>4, <2>1 DEF Carries
    <3>2. /\ file[call[k].file] = "stored"
          /\ \A d \in Docs : Exists(d) => doc[d].file # call[k].file
          /\ \A l \in Calls : l # k /\ Carries(l) => call[l].file # call[k].file
      BY <3>1 DEF FileInvariant, NewFiles
    <3>3. \A d \in Docs : Exists(d)' => doc'[d].file # call'[k].file
      <4>1. call[k].file # f
        BY <1>5, <3>1, <3>2
      <4> QED
        BY <3>1, <3>2, <4>1
    <3> QED
      BY <1>3, <3>1, <3>2, <3>3
  <2> QED
    BY <2>1 DEF NewFiles
<1>7. UsedFiles'
  <2>1. \A d \in Docs : Exists(d)' /\ doc'[d].file \notin loose' => file'[doc'[d].file] # "none"
    BY <1>5 DEF FileInvariant, UsedFiles
  <2>2. \A k \in Calls : Carries(k)' /\ call'[k].file \notin loose' => file'[call'[k].file] # "none"
    BY <1>3 DEF FileInvariant, UsedFiles
  <2> QED
    BY <2>1, <2>2 DEF UsedFiles
<1>8. SharedFiles'
  <2>1. ASSUME NEW d \in Docs, NEW e \in Docs, d # e, Exists(d)', Exists(e)'
        PROVE  /\ doc'[d].file = doc'[e].file =>
                     doc'[d].holder \in doubled' \/ doc'[d].file \in loose
               /\ doc'[d].holder = doc'[e].holder /\ doc'[d].holder \in Profiles =>
                     doc'[d].holder \in doubled'
    <3>1. CASE doc'[d].holder = h
      <4>1. doc'[d].file = doc'[e].file => h \in doubled' \/ doc'[d].file \in loose
        <5>1. CASE doc'[d].file = f
          BY <2>1, <3>1, <5>1
        <5>2. CASE doc'[d].file # f
          BY <2>1, <3>1, <5>2 DEF FileInvariant, SharedFiles
        <5> QED
          BY <5>1, <5>2
      <4>2. doc'[e].holder = h /\ h \in Profiles => h \in doubled'
        BY <2>1, <3>1
      <4> QED
        BY <3>1, <4>1, <4>2
    <3>2. CASE doc'[d].holder # h
      <4>1. Exists(d) /\ doc'[d].holder = doc[d].holder /\ doc'[d].file = doc[d].file
        BY <2>1, <3>2
      <4>2. CASE Exists(e) /\ doc'[e].holder = doc[e].holder /\ doc'[e].file = doc[e].file
        BY <2>1, <4>1, <4>2 DEF FileInvariant, SharedFiles
      <4>3. CASE doc'[e].holder = h /\ doc'[e].file = f
        BY <1>5, <3>2, <4>1, <4>3
      <4> QED
        BY <2>1, <4>2, <4>3
    <3> QED
      BY <3>1, <3>2
  <2> QED
    BY <2>1 DEF SharedFiles
<1>9. OwnDeletes'
  <2>1. ASSUME NEW k \in Calls, At(k, "blob")', NEW d \in Docs, Exists(d)',
               doc'[d].file = call'[k].file
        PROVE  \/ d = call'[k].doc \/ doc'[d].holder \in doubled'
               \/ doc'[d].file \in loose'
    <3>1. k # c /\ call'[k] = call[k] /\ At(k, "blob") /\ Carries(k)
      BY <1>1, <1>2, <2>1 DEF At, Carries
    <3>2. CASE Exists(d) /\ doc'[d].holder = doc[d].holder /\ doc'[d].file = doc[d].file
      BY <2>1, <3>1, <3>2 DEF FileInvariant, OwnDeletes
    <3>3. CASE doc'[d].file = f
      BY <1>5, <2>1, <3>1, <3>3
    <3> QED
      BY <2>1, <3>2, <3>3
  <2> QED
    BY <2>1 DEF OwnDeletes
<1>10. RowsHaveFiles'
  <2>1. \A k \in Calls : At(k, "row") => At(k, "row")' /\ call'[k] = call[k]
    BY <1>2 DEF At, Holding
  <2>2. ASSUME NEW d \in Docs, Exists(d)'
        PROVE  \/ file'[doc'[d].file] = "stored" \/ doc'[d].file \in loose'
               \/ d \in cut' \/ doc'[d].holder \in doubled'
               \/ \E k \in Calls : At(k, "row")' /\ call'[k].doc = d
    <3>1. CASE Exists(d) /\ doc'[d].holder = doc[d].holder /\ doc'[d].file = doc[d].file
      BY <2>1, <3>1 DEF FileInvariant, RowsHaveFiles
    <3>2. CASE doc'[d].file = f
      BY <1>5, <3>2
    <3> QED
      BY <2>2, <3>1, <3>2
  <2> QED
    BY <2>2 DEF RowsHaveFiles
<1> QED
  BY <1>6, <1>7, <1>8, <1>9, <1>10 DEF FileInvariant
LEMMA FilesReplaced ==
    ASSUME Typed, FileInvariant, NEW c \in Calls, ReplaceDocument(c)
    PROVE  FileInvariant'
<1>1. PICK h \in Holders, f \in Files :
         h = call[c].holder /\ f = call[c].file /\ h \in Profiles
  BY ReplaceMoves DEF Holders
<1>2. /\ call[c].at = "replace" /\ Ends(c)
      /\ \A d \in Docs :
            \/ d \notin DocsOf(h) /\ doc'[d] = doc[d]
            \/ d \in DocsOf(h) /\ doc'[d].holder = h /\ doc'[d].file = f
  BY <1>1, ReplaceMoves
<1>3. Holding(c) /\ UNCHANGED <<file, cut, doubled, loose>>
  BY <1>2 DEF Holding, ReplaceDocument
<1>4. \A d \in Docs : d \in DocsOf(h) <=> Exists(d) /\ doc[d].holder = h
  BY DEF DocsOf
<1>5. f \notin loose => \A d \in Docs : Exists(d) => doc[d].file # f
  BY <1>1, <1>3 DEF FileInvariant, NewFiles
<1>6. \A d \in Docs :
         Exists(d)' =>
            \/ Exists(d) /\ doc'[d].holder = doc[d].holder /\ doc'[d].file = doc[d].file
            \/ Exists(d) /\ doc[d].holder = h /\ doc'[d].holder = h /\ doc'[d].file = f
  BY <1>2, <1>4 DEF Exists
<1>7. \A d \in Docs, e \in Docs :
         d # e /\ Exists(d) /\ Exists(e) /\ doc[d].holder = h /\ doc[e].holder = h =>
            h \in doubled'
  BY <1>1, <1>3 DEF FileInvariant, SharedFiles
<1>8. ASSUME NEW d \in Docs, NEW e \in Docs, d # e, Exists(d)', Exists(e)', doc'[d].holder = h
      PROVE  /\ doc'[e].holder = h /\ h \in Profiles => h \in doubled'
             /\ doc'[d].file = f /\ doc'[e].file = f => h \in doubled' \/ f \in loose
  <2>1. Exists(d) /\ doc[d].holder = h /\ Exists(e)
    BY <1>6, <1>8
  <2>2. doc'[e].holder = h => doc[e].holder = h
    BY <1>6, <1>8
  <2>3. doc'[e].file = f => doc[e].holder = h \/ f \in loose
    BY <1>5, <1>6, <1>8
  <2> QED
    BY <1>7, <1>8, <2>1, <2>2, <2>3
<1> QED
  BY <1>1, <1>2, <1>3, <1>6, <1>8, FilesPlaced

LEMMA FilesInserted ==
    ASSUME Typed, FileInvariant, NEW c \in Calls, NEW i \in Docs, InsertDocument(c, i)
    PROVE  FileInvariant'
<1>1. PICK h \in Holders, f \in Files : h = call[c].holder /\ f = call[c].file
  BY DEF InsertDocument, At, Typed, CallsFit, Fits
<1>2. doc' = [doc EXCEPT ![i] = NewRow(h, f)] /\ doc[i] = None /\ At(c, "insert")
  BY <1>1 DEF InsertDocument, NewRow
<1>3. /\ doc'[i].holder = h /\ doc'[i].file = f
      /\ \A d \in Docs : d # i => doc'[d] = doc[d]
  BY <1>2, InsertMoves
<1>4. Ends(c) /\ Holding(c) /\ UNCHANGED <<file, cut, loose>>
  BY <1>2, EndsCall DEF InsertDocument, Holding, At
<1>5. /\ doubled \subseteq doubled'
      /\ h \in Profiles /\ DocsOf(h) # {} => h \in doubled'
  BY <1>1 DEF InsertDocument
<1>6. f \notin loose => \A d \in Docs : Exists(d) => doc[d].file # f
  BY <1>1, <1>4 DEF FileInvariant, NewFiles
<1>7. \A d \in Docs : d # i => (Exists(d)' <=> Exists(d))
  BY <1>3 DEF Exists
<1>8. \A d \in Docs :
         Exists(d)' =>
            \/ Exists(d) /\ doc'[d].holder = doc[d].holder /\ doc'[d].file = doc[d].file
            \/ doc'[d].holder = h /\ doc'[d].file = f
  BY <1>3, <1>7
<1>9. \A d \in Docs : Exists(d) /\ doc[d].holder = h /\ h \in Profiles => h \in doubled'
  BY <1>5 DEF DocsOf
<1>10. ASSUME NEW d \in Docs, NEW e \in Docs, d # e, Exists(d)', Exists(e)',
              doc'[d].holder = h
       PROVE  /\ doc'[e].holder = h /\ h \in Profiles => h \in doubled'
              /\ doc'[d].file = f /\ doc'[e].file = f => h \in doubled' \/ f \in loose
  <2>1. CASE d = i
    BY <1>3, <1>6, <1>7, <1>9, <1>10, <2>1
  <2>2. CASE d # i
    BY <1>3, <1>6, <1>7, <1>9, <1>10, <2>2
  <2> QED
    BY <2>1, <2>2
<1> QED
  BY <1>1, <1>4, <1>5, <1>8, <1>10, FilesPlaced

(* A client gets a URL, for an image with its row.                         *)
LEMMA FilesPresigned ==
    ASSUME Typed, FileInvariant, NEW f \in Files, StoreFile(f),
           UNCHANGED <<cut, doubled, loose, call>>,
           \/ doc' = doc
           \/ \E e \in Experiences : \E d \in Docs :
                 doc[d] = None /\ doc' = [doc EXCEPT ![d] = NewRow(e, f)]
    PROVE  FileInvariant'
<1>1. /\ file[f] = "none" /\ f \notin loose /\ file'[f] = "stored"
      /\ \A g \in Files : g # f => file'[g] = file[g]
  BY StoredTyped DEF StoreFile
<1>2. ASSUME NEW d \in Docs, Exists(d)'
      PROVE  \/ Exists(d) /\ doc'[d] = doc[d] /\ doc[d].file \in Files /\ doc[d].file # f
             \/ /\ doc'[d].holder \in Experiences /\ doc'[d].file = f
                /\ \A e \in Docs : e # d => doc'[e] = doc[e]
  <2>1. \A e \in Docs : Exists(e) => doc[e].file \in Files /\ doc[e].file # f
    BY <1>1, Row DEF FileInvariant, UsedFiles
  <2>2. CASE doc' = doc
    BY <1>2, <2>1, <2>2 DEF Exists
  <2>3. ASSUME NEW e \in Experiences, NEW i \in Docs, doc[i] = None,
               doc' = [doc EXCEPT ![i] = NewRow(e, f)]
        PROVE  \/ Exists(d) /\ doc'[d] = doc[d] /\ doc[d].file \in Files /\ doc[d].file # f
               \/ /\ doc'[d].holder \in Experiences /\ doc'[d].file = f
                  /\ \A g \in Docs : g # d => doc'[g] = doc[g]
    <3>1. /\ doc'[i].holder = e /\ doc'[i].file = f /\ \A g \in Docs : g # i => doc'[g] = doc[g]
      BY <2>3, InsertMoves DEF Holders
    <3> QED
      BY <1>2, <2>1, <2>3, <3>1 DEF Exists
  <2> QED
    BY <2>2, <2>3
<1>3. \A k \in Calls : Carries(k) => call[k].file \in Files /\ call[k].file # f
  BY <1>1 DEF FileInvariant, UsedFiles, Carries, Holding, Typed, CallsFit, Fits
<1>4. \A k \in Calls : (Holding(k)' <=> Holding(k)) /\ (Carries(k)' <=> Carries(k))
  BY DEF Carries, Holding
<1>5. NewFiles'
  <2>1. ASSUME NEW k \in Calls, Holding(k)', call[k].file \notin loose
        PROVE  /\ file'[call[k].file] = "stored"
               /\ \A d \in Docs : Exists(d)' => doc'[d].file # call[k].file
               /\ \A l \in Calls : l # k /\ Carries(l)' => call[l].file # call[k].file
    <3>1. Holding(k) /\ Carries(k) /\ call[k].file \in Files /\ call[k].file # f
      BY <1>3, <1>4, <2>1 DEF Carries
    <3>2. /\ file[call[k].file] = "stored"
          /\ \A d \in Docs : Exists(d) => doc[d].file # call[k].file
          /\ \A l \in Calls : l # k /\ Carries(l) => call[l].file # call[k].file
      BY <2>1, <3>1 DEF FileInvariant, NewFiles
    <3> QED
      BY <1>1, <1>2, <1>4, <3>1, <3>2
  <2> QED
    BY <2>1 DEF NewFiles
<1>6. UsedFiles'
  <2>1. \A d \in Docs : Exists(d)' /\ doc'[d].file \notin loose' => file'[doc'[d].file] # "none"
    BY <1>1, <1>2 DEF FileInvariant, UsedFiles
  <2>2. \A k \in Calls : Carries(k)' /\ call[k].file \notin loose => file'[call[k].file] # "none"
    BY <1>1, <1>3, <1>4 DEF FileInvariant, UsedFiles
  <2> QED
    BY <2>1, <2>2 DEF UsedFiles
<1>7. SharedFiles'
  <2>1. ASSUME NEW d \in Docs, NEW e \in Docs, d # e, Exists(d)', Exists(e)'
        PROVE  /\ doc'[d].file = doc'[e].file =>
                     doc'[d].holder \in doubled \/ doc'[d].file \in loose
               /\ doc'[d].holder = doc'[e].holder /\ doc'[d].holder \in Profiles =>
                     doc'[d].holder \in doubled
    <3>1. CASE doc'[d].file = f
      <4>1. doc'[d].holder \in Experiences /\ doc'[e] = doc[e]
        BY <1>2, <2>1, <3>1
      <4>2. doc'[e].file # f
        BY <1>1, <2>1, <4>1 DEF FileInvariant, UsedFiles, Exists
      <4>3. doc'[d].holder \notin Profiles
        BY <4>1, DocumentsAssumption
      <4> QED
        BY <3>1, <4>2, <4>3
    <3>2. CASE doc'[e].file = f
      <4>1. doc'[e].holder \in Experiences /\ doc'[d] = doc[d]
        BY <1>2, <2>1, <3>2
      <4>2. doc'[d].file # f
        BY <1>1, <2>1, <4>1 DEF FileInvariant, UsedFiles, Exists
      <4>3. doc'[e].holder \notin Profiles
        BY <4>1, DocumentsAssumption
      <4> QED
        BY <3>2, <4>2, <4>3
    <3>3. CASE doc'[d].file # f /\ doc'[e].file # f
      BY <1>2, <2>1, <3>3 DEF FileInvariant, SharedFiles
    <3> QED
      BY <3>1, <3>2, <3>3
  <2> QED
    BY <2>1 DEF SharedFiles
<1>8. OwnDeletes'
  <2>1. ASSUME NEW k \in Calls, At(k, "blob"), NEW d \in Docs, Exists(d)',
               doc'[d].file = call[k].file
        PROVE  d = call[k].doc \/ doc'[d].holder \in doubled \/ doc'[d].file \in loose
    <3>1. call[k].file # f
      BY <1>3, <2>1 DEF At, Carries
    <3> QED
      BY <1>2, <2>1, <3>1 DEF FileInvariant, OwnDeletes
  <2> QED
    BY <2>1 DEF OwnDeletes, At
<1>9. RowsHaveFiles'
  <2>1. ASSUME NEW d \in Docs, Exists(d)'
        PROVE  \/ file'[doc'[d].file] = "stored" \/ doc'[d].file \in loose
               \/ d \in cut \/ doc'[d].holder \in doubled
               \/ \E k \in Calls : At(k, "row") /\ call[k].doc = d
    BY <1>1, <1>2, <2>1 DEF FileInvariant, RowsHaveFiles
  <2> QED
    BY <2>1 DEF RowsHaveFiles, At
<1> QED
  BY <1>5, <1>6, <1>7, <1>8, <1>9 DEF FileInvariant

(* A client stores a file, takes it, or removes one that nobody names.     *)
LEMMA FilesByName ==
    ASSUME Typed, FileInvariant, NEW f \in Files,
           UNCHANGED <<doc, doubled, cut, call>>, loose \subseteq loose',
           \A g \in Files : g # f => file'[g] = file[g],
           f \in loose' \/ Unnamed(f) \/ file'[f] = "stored"
    PROVE  FileInvariant'
<1>1. \A d \in Docs : (Exists(d)' <=> Exists(d)) /\ (Exists(d) => doc[d].file \in Files)
  BY Row DEF Exists
<1>2. \A k \in Calls : /\ Holding(k)' <=> Holding(k)
                       /\ Carries(k)' <=> Carries(k)
                       /\ Holding(k) => Carries(k)
                       /\ Carries(k) => call[k].file \in Files
  BY DEF Carries, Holding, Typed, CallsFit, Fits
<1>3. /\ \A d \in Docs : Exists(d) /\ doc[d].file = f => ~Unnamed(f)
      /\ \A k \in Calls : call[k].file = f => ~Unnamed(f)
  BY DEF Unnamed
<1>4. NewFiles'
  BY <1>1, <1>2, <1>3 DEF FileInvariant, NewFiles
<1>5. UsedFiles'
  BY <1>1, <1>2, <1>3 DEF FileInvariant, UsedFiles
<1>6. SharedFiles'
  BY <1>1 DEF FileInvariant, SharedFiles
<1>7. OwnDeletes'
  BY <1>1 DEF FileInvariant, OwnDeletes, At
<1>8. RowsHaveFiles'
  BY <1>1, <1>3 DEF FileInvariant, RowsHaveFiles, At
<1> QED
  BY <1>4, <1>5, <1>6, <1>7, <1>8 DEF FileInvariant

LEMMA FileStepFiles ==
    ASSUME Typed, FileInvariant, NEW c \in Calls, FileStep(c)
    PROVE  FileInvariant'
<1>1. ASSUME NEW f \in Files, file[f] = "none", f \notin loose
      PROVE  /\ \A d \in Docs : Exists(d) => doc[d].file # f
             /\ \A k \in Calls : Carries(k) => call[k].file # f
  BY <1>1 DEF FileInvariant, UsedFiles
<1>2. ASSUME NEW f \in Files, NEW h, NEW at \in {"find", "insert"}, Brings(c, at, h, f),
             StoreFile(f), ~At(c, "row"), UNCHANGED <<doc, doubled, cut, loose>>
      PROVE  FileInvariant'
  <2>1. PICK n \in Call : Becomes(c, n) /\ n.at = at /\ n.file = f
    BY <1>2 DEF Brings
  <2>2. /\ file[f] = "none" /\ f \notin loose /\ file'[f] = "stored"
        /\ \A g \in Files : g # f => file'[g] = file[g]
    BY <1>2, StoredTyped DEF StoreFile
  <2> QED
    BY <1>1, <1>2, <2>1, <2>2, FilesHeld
<1>3. ASSUME NEW f \in Files, LinkProfile(c, f) PROVE FileInvariant'
  <2>1. Brings(c, "find", call[c].holder, f)
    BY <1>3, BringsFile
  <2>2. StoreFile(f) /\ ~At(c, "row") /\ UNCHANGED <<doc, doubled, cut, loose>>
    BY <1>3 DEF LinkProfile, At, history
  <2> QED
    BY <1>2, <2>1, <2>2
<1>4. ASSUME NEW f \in Files, NEW h \in Holders, Upload(c, h, f) PROVE FileInvariant'
  <2>1. PICK at \in {"find", "insert"} : Brings(c, at, h, f)
    BY <1>4, BringsFile
  <2>2. StoreFile(f) /\ ~At(c, "row") /\ UNCHANGED <<doc, doubled, cut, loose>>
    BY <1>4 DEF Upload, Begin, At, history
  <2> QED
    BY <1>2, <2>1, <2>2
<1>5. ASSUME NEW f \in Files, NEW r \in Resorts, RegisterDocument(c, r, f)
      PROVE  FileInvariant'
  <2>1. PICK n \in Call : Becomes(c, n) /\ n.at = "find" /\ n.file = f
    BY <1>5, BringsFile DEF Brings
  <2>2. /\ ~At(c, "row") /\ UNCHANGED <<file, doc, doubled, cut>> /\ loose \subseteq loose'
        /\ f \notin loose' => Unnamed(f)
    BY <1>5 DEF RegisterDocument, Took, Begin, At, papers
  <2>3. Unnamed(f) => /\ file'[f] = "stored"
                      /\ \A d \in Docs : Exists(d) => doc[d].file # f
                      /\ \A k \in Calls : call[k].file # f
    BY <2>2 DEF Unnamed
  <2> QED
    BY <2>1, <2>2, <2>3, FilesHeld
<1>6. ASSUME FindDocument(c) PROVE FileInvariant'
  <2>1. PICK n \in Call :
           Becomes(c, n) /\ n.at \in {"insert", "replace"} /\ n.file = call[c].file
    BY <1>6, BringsFile
  <2>2. At(c, "find") /\ ~At(c, "row") /\ UNCHANGED <<file, doc, doubled, cut, loose>>
    BY <1>6 DEF FindDocument, At, papers, history
  <2>3. PICK f \in Files : f = call[c].file
    BY <2>2 DEF At, Typed, CallsFit, Fits
  <2>4. f \notin loose =>
        /\ file[f] = "stored"
        /\ \A d \in Docs : Exists(d) => doc[d].file # f
        /\ \A k \in Calls : k # c /\ Carries(k) => call[k].file # f
    BY <2>2, <2>3 DEF FileInvariant, NewFiles, Holding, At
  <2> QED
    BY <2>1, <2>2, <2>3, <2>4, FilesHeld
<1> QED
  BY <1>3, <1>4, <1>5, <1>6, FilesReplaced, FilesInserted DEF FileStep

LEMMA OtherStepFiles ==
    ASSUME Typed, FileInvariant, NEW c \in Calls, ProfileStep(c) \/ DocStep(c)
    PROVE  FileInvariant'
<1>1. ASSUME Ends(c), UNCHANGED <<doc, file, doubled, loose>>, cut \subseteq cut',
             At(c, "row") => call[c].doc \in cut'
      PROVE  FileInvariant'
  <2>1. PICK n \in Call : Becomes(c, n) /\ n.at = "idle"
    BY <1>1 DEF Ends
  <2> QED
    BY <1>1, <2>1, FilesStay DEF Exists
<1>2. ASSUME ProfileStep(c) PROVE FileInvariant'
  <2>1. PICK n \in Call :
           Becomes(c, n) /\ n.at \notin {"find", "replace", "insert", "review", "blob", "row"}
    BY <1>2, MakesProfile, EndsCall
       DEF ProfileStep, Makes, Ends, ResortCreated, AgentCreated, AssignProfile
  <2>2. ~At(c, "row") /\ UNCHANGED <<doc, file, doubled, cut, loose>>
    BY <1>2 DEF ProfileStep, CreateResort, CreateAgent, ResortCreated, AgentCreated,
       UploadWithoutProfile, UpdateAgentProfile, AssignProfile, Begin, At, papers, history
  <2> QED
    BY <2>1, <2>2, FilesStay DEF Exists
<1>3. ASSUME NEW d \in Docs, NEW v \in {"approved", "rejected"}, Review(c, d, v)
      PROVE  FileInvariant'
  <2>1. Exists(d) /\ Reads(c, "review", d, doc[d].file)
    BY <1>3, ReadsDocument
  <2>2. ~At(c, "row") /\ UNCHANGED <<doc, file, doubled, cut, loose>>
    BY <1>3 DEF Review, Begin, At, papers, history
  <2> QED
    BY <2>1, <2>2, FilesRead
<1>4. ASSUME NEW d \in Docs, DeleteDocument(c, d) PROVE FileInvariant'
  <2>1. Exists(d) /\ Reads(c, "blob", d, doc[d].file)
    BY <1>4, ReadsDocument
  <2>2. ~At(c, "row") /\ UNCHANGED <<doc, file, doubled, cut, loose>>
    BY <1>4 DEF DeleteDocument, Begin, At, papers, history
  <2> QED
    BY <2>1, <2>2, FilesRead
<1>5. ASSUME Reviewed(c) PROVE FileInvariant'
  <2>1. /\ Ends(c) /\ ~At(c, "row")
        /\ \A d \in Docs : Exists(d)' => /\ Exists(d) /\ doc'[d].holder = doc[d].holder
                                         /\ doc'[d].file = doc[d].file
    BY <1>5, ReviewedMoves DEF At, Exists
  <2>2. PICK n \in Call : Becomes(c, n) /\ n.at = "idle"
    BY <2>1 DEF Ends
  <2>3. UNCHANGED <<file, doubled, cut, loose>>
    BY <1>5 DEF Reviewed, history
  <2> QED
    BY <2>1, <2>2, <2>3, FilesStay
<1>6. ASSUME DeleteRow(c) PROVE FileInvariant'
  <2>1. PICK e \in Docs : e = call[c].doc
    BY <1>6 DEF DeleteRow, At, Typed, CallsFit, Fits
  <2>2. PICK n \in Call : Becomes(c, n) /\ n.at = "idle"
    BY <1>6, EndsCall DEF DeleteRow, Ends
  <2>3. /\ doc'[e] = Gone /\ \A d \in Docs : d # e => doc'[d] = doc[d]
        /\ cut' = cut \ {e} /\ UNCHANGED <<file, doubled, loose>>
    BY <1>6, <2>1 DEF DeleteRow, Typed, TypeOK
  <2>4. \A d \in Docs : Exists(d)' => /\ d # e /\ Exists(d) /\ doc'[d] = doc[d]
                                      /\ d \in cut => d \in cut'
    BY <2>3 DEF Exists
  <2> QED
    BY <2>1, <2>2, <2>3, <2>4, FilesStay
<1>7. ASSUME Crash(c) PROVE FileInvariant'
  BY <1>1, <1>7, EndsCall DEF Crash, papers
<1> QED
  BY <1>2, <1>3, <1>4, <1>5, <1>6, <1>7, FilesDeleted DEF DocStep

LEMMA NextFiles ==
    ASSUME Typed, FileInvariant, [Next]_vars
    PROVE  FileInvariant'
<1>1. ASSUME UNCHANGED <<doc, file, doubled, cut, loose, call>> PROVE FileInvariant'
  BY <1>1 DEF FileInvariant, NewFiles, UsedFiles, SharedFiles, OwnDeletes, RowsHaveFiles,
     Holding, Carries, At, Exists
<1>2. ASSUME NEW e \in Experiences, NEW d \in Docs, NEW f \in Files, PresignImage(e, d, f)
      PROVE  FileInvariant'
  <2>1. /\ StoreFile(f) /\ UNCHANGED <<cut, doubled, loose, call>>
        /\ doc[d] = None /\ doc' = [doc EXCEPT ![d] = NewRow(e, f)]
    BY <1>2 DEF PresignImage, NewRow, history
  <2> QED
    BY <2>1, FilesPresigned
<1>3. ASSUME NEW f \in Files, PresignFile(f) PROVE FileInvariant'
  BY <1>3, FilesPresigned DEF PresignFile, history
<1>7. ASSUME NEW f \in Files, DirectUpload(f) \/ DeleteByName(f) PROVE FileInvariant'
  <2>1. UNCHANGED <<doc, doubled, cut, call>> /\ loose \subseteq loose'
    BY <1>7 DEF DirectUpload, DeleteByName, Took, history
  <2>2. \A g \in Files : g # f => file'[g] = file[g]
    BY <1>7, PutTyped DEF DirectUpload, DeleteByName, Typed, TypeOK
  <2>3. f \in loose' \/ Unnamed(f) \/ file'[f] = "stored"
    BY <1>7, PutTyped DEF DirectUpload, DeleteByName, Took
  <2> QED
    BY <2>1, <2>2, <2>3, FilesByName
<1>4. ASSUME NEW a \in Agents, NEW r \in Resorts, CreateAgreement(a, r) PROVE FileInvariant'
  BY <1>1, <1>4 DEF CreateAgreement, papers, history
<1>5. ASSUME NEW r \in Resorts, RemoveResort(r) PROVE FileInvariant'
  BY <1>1, <1>5 DEF RemoveResort, papers, history
<1>6. ASSUME UNCHANGED vars PROVE FileInvariant'
  BY <1>1, <1>6 DEF vars, papers, history
<1> QED
  BY Split, <1>2, <1>3, <1>4, <1>5, <1>6, <1>7, FileStepFiles, OtherStepFiles

\* The file of a row is stored, or was promised by a client, unless the row
\* is being deleted, its deletion stopped half-way, two documents of the
\* profile shared a file, or a client has deleted the file by its name or named
\* one that was not there or another row's (deleteDocument, createDocument, and
\* UploadController, which ask nobody).
THEOREM FilesTheorem == Spec => []RowsHaveFiles
<1>1. Init => Typed /\ FileInvariant
  <2>1. ASSUME Init PROVE FileInvariant
    <3>1. /\ \A d \in Docs : ~Exists(d)
          /\ \A c \in Calls : call[c].at = "idle"
      BY <2>1, NoCallTyped DEF Init, Exists
    <3> QED
      BY <3>1 DEF FileInvariant, NewFiles, UsedFiles, SharedFiles, OwnDeletes, RowsHaveFiles,
         Holding, Carries, At
  <2> QED
    BY <2>1, InitTyped
<1>2. Typed /\ FileInvariant /\ [Next]_vars => Typed' /\ FileInvariant'
  BY NextTyped, NextFiles
<1>3. Typed /\ FileInvariant => RowsHaveFiles
  BY DEF FileInvariant
<1> QED
  BY <1>1, <1>2, <1>3, PTL DEF Spec
-----------------------------------------------------------------------------
(* Who is named *)

\* A profile that somebody finds, or that need not be found.
Settled(p) == Named(p) \/ profile[p] \in astray \cup removed

\* Rows and uploads hang on such profiles.
HoldersSettled ==
    /\ \A d \in Docs : Exists(d) /\ doc[d].holder \in Profiles => Settled(doc[d].holder)
    /\ \A c \in Calls :
          Holding(c) /\ call[c].holder \in Profiles => Settled(call[c].holder)

\* Agreements, resorts and requests name the profiles that were made for them.
NamesOwn ==
    /\ \A a \in Agents, r \in Opt(Resorts) :
          agreement[a][r] \in Profiles => profile[agreement[a][r]] = a
    /\ \A r \in Resorts : resort[r] \in Profiles => profile[resort[r]] = r
    /\ \A c \in Calls :
          call[c].at \in {"resort", "agent", "link", "assign"} =>
             profile[call[c].holder] = call[c].who

\* A new resort or agent is named by nobody; one request makes it.
NewResorts ==
    \A c \in Calls :
       At(c, "resort") =>
          /\ resort[call[c].who] = None
          /\ \A k \in Calls : k # c /\ At(k, "resort") => call[k].who # call[c].who

NewAgents ==
    \A c \in Calls :
       At(c, "agent") =>
          /\ \A r \in Opt(Resorts) : agreement[call[c].who][r] = None
          /\ \A k \in Calls :
                k # c /\ call[k].at \in {"agent", "assign"} => call[k].who # call[c].who

\* Two requests that make a profile for one agent leave a mark.
Racing ==
    \A c \in Calls, k \in Calls :
       /\ c # k /\ call[c].who = call[k].who
       /\ call[c].at \in {"link", "assign"} /\ call[k].at \in {"link", "assign"}
       => call[c].who \in astray

\* The agreement a new profile goes into names none, but for the mark.
Assigning ==
    \A c \in Calls :
       At(c, "assign") =>
          /\ agreement[call[c].who][call[c].resort] # None
          /\ agreement[call[c].who][call[c].resort] # Null => call[c].who \in astray

Linking ==
    \A c \in Calls :
       At(c, "link") =>
          call[c].who \in astray \/ \E r \in Opt(Resorts) : agreement[call[c].who][r] = Null

PartyInvariant ==
    HoldersSettled /\ NamesOwn /\ NewResorts /\ NewAgents /\ Racing /\ Assigning /\ Linking

LEMMA NamedBy ==
    \A p \in Profiles :
       /\ Named(p) <=> \/ \E r \in Resorts : r \notin removed /\ resort[r] = p
                       \/ \E a \in Agents, r \in Opt(Resorts) : agreement[a][r] = p
       /\ Named(p)' <=> \/ \E r \in Resorts : r \notin removed' /\ resort'[r] = p
                        \/ \E a \in Agents, r \in Opt(Resorts) : agreement'[a][r] = p
<1>1. \A p \in Profiles : p # None /\ p # Null
  BY DocumentsAssumption DEF Holders
<1> QED
  BY <1>1 DEF Named, Open, ProfilesOf, AgreementsOf

(* What a request that makes a profile is about.                           *)
LEMMA Maker ==
    ASSUME Typed, NEW c \in Calls
    PROVE  /\ call[c].at = "resort" => call[c].who \in Resorts /\ call[c].holder \in Profiles
           /\ call[c].at \in {"agent", "link", "assign"} =>
                 call[c].who \in Agents /\ call[c].holder \in Profiles
           /\ call[c].at \in {"agent", "assign"} => call[c].resort \in Opt(Resorts)
BY DEF Typed, CallsFit, Fits

(* Steps that name and make nothing: holders they bring are settled.       *)
LEMMA PartiesStay ==
    ASSUME Typed, PartyInvariant, UNCHANGED parties, astray \subseteq astray',
           \A k \in Calls :
              \/ call'[k] = call[k]
              \/ /\ call'[k].at \notin {"resort", "agent", "link", "assign"}
                 /\ Holding(k)' /\ call'[k].holder \in Profiles => Settled(call'[k].holder),
           \A d \in Docs :
              Exists(d)' /\ doc'[d].holder \in Profiles => Settled(doc'[d].holder)
    PROVE  PartyInvariant'
<1>1. profile' = profile /\ resort' = resort /\ removed' = removed /\ agreement' = agreement
  BY DEF parties
<1>2. \A p \in Profiles : Settled(p) => Settled(p)'
  BY <1>1, NamedBy DEF Settled
<1>3. \A k \in Calls :
         call'[k].at \in {"resort", "agent", "link", "assign"} => call'[k] = call[k]
  OBVIOUS
<1>4. HoldersSettled'
  <2>1. \A d \in Docs :
           Exists(d)' /\ doc'[d].holder \in Profiles => Settled(doc[d].holder)'
    BY <1>1 DEF Settled, Named, Open, ProfilesOf, AgreementsOf
  <2>2. ASSUME NEW k \in Calls, Holding(k)', call'[k].holder \in Profiles
        PROVE  Settled(call[k].holder)'
    <3>1. Settled(call'[k].holder)
      <4>1. CASE call'[k] = call[k]
        BY <2>2, <4>1 DEF PartyInvariant, HoldersSettled, Holding
      <4> QED
        BY <2>2, <4>1
    <3> QED
      BY <1>1, <3>1 DEF Settled, Named, Open, ProfilesOf, AgreementsOf
  <2> QED
    BY <2>1, <2>2 DEF HoldersSettled
<1>5. NamesOwn'
  BY <1>1, <1>3 DEF PartyInvariant, NamesOwn
<1>6. NewResorts'
  BY <1>1, <1>3 DEF PartyInvariant, NewResorts, At
<1>7. NewAgents'
  BY <1>1, <1>3 DEF PartyInvariant, NewAgents, At
<1>8. Racing'
  BY <1>3 DEF PartyInvariant, Racing
<1>9. Assigning'
  BY <1>1, <1>3 DEF PartyInvariant, Assigning, At
<1>10. Linking'
  BY <1>1, <1>3 DEF PartyInvariant, Linking, At
<1> QED
  BY <1>4, <1>5, <1>6, <1>7, <1>8, <1>9, <1>10 DEF PartyInvariant
(* A request makes a profile.                                              *)
LEMMA PartiesBegun ==
    ASSUME Typed, PartyInvariant, NEW c \in Calls,
           NEW at \in {"resort", "agent", "link", "assign"}, NEW who \in Resorts \cup Agents,
           NEW r \in Opt(Resorts), NEW p \in Profiles, Makes(c, at, who, r, p),
           NewProfile(p, who), UNCHANGED <<resort, removed, agreement, doc>>,
           astray \subseteq astray',
           at \in {"resort", "agent"} => \A k \in Calls : call[k].who # who,
           at = "resort" => resort[who] = None,
           at = "agent" => \A q \in Opt(Resorts) : agreement[who][q] = None,
           at \in {"link", "assign"} =>
              who \in Agents /\ (Making(who) => who \in astray'),
           at = "link" =>
              who \in astray' \/ \E q \in Opt(Resorts) : agreement[who][q] = Null,
           at = "assign" => agreement[who][r] = Null
    PROVE  PartyInvariant'
<1>1. PICK n \in Call : Becomes(c, n) /\ n.at = at /\ n.who = who /\ n.resort = r /\ n.holder = p
  BY DEF Makes
<1>2. \A k \in Calls : call'[k] = IF k = c THEN n ELSE call[k]
  BY <1>1, BecomesOnly
<1>3. /\ profile[p] = None /\ profile'[p] = who
      /\ \A q \in Profiles : profile[q] # None => profile'[q] = profile[q]
  BY NewProfileTyped
<1>4. None \notin Resorts \cup Agents \cup Profiles \cup {Null}
  BY DocumentsAssumption
<1>5. \A q \in Profiles : Settled(q) => Settled(q)'
  <2>1. ASSUME NEW q \in Profiles, Settled(q) PROVE Settled(q)'
    <3>1. CASE Named(q)
      BY <3>1, NamedBy DEF Settled
    <3>2. CASE profile[q] \in astray \cup removed
      <4>1. profile[q] # None
        BY <1>4, <3>2 DEF Typed, TypeOK
      <4> QED
        BY <1>3, <3>2, <4>1 DEF Settled
    <3> QED
      BY <2>1, <3>1, <3>2 DEF Settled
  <2> QED
    BY <2>1
<1>6. HoldersSettled'
  <2>1. \A k \in Calls : Holding(k)' => call'[k] = call[k] /\ Holding(k)
    BY <1>1, <1>2 DEF Holding
  <2>2. \A k \in Calls : Holding(k)' /\ call'[k].holder \in Profiles => Settled(call[k].holder)'
    BY <1>5, <2>1 DEF PartyInvariant, HoldersSettled
  <2>3. \A d \in Docs : Exists(d)' /\ doc'[d].holder \in Profiles => Settled(doc[d].holder)'
    BY <1>5 DEF PartyInvariant, HoldersSettled, Exists
  <2> QED
    BY <2>2, <2>3 DEF HoldersSettled
<1>7. NamesOwn'
  <2>1. \A a \in Agents, q \in Opt(Resorts) :
           agreement'[a][q] \in Profiles => profile'[agreement'[a][q]] = a
    BY <1>3, <1>4 DEF PartyInvariant, NamesOwn
  <2>2. \A q \in Resorts : resort'[q] \in Profiles => profile'[resort'[q]] = q
    BY <1>3, <1>4 DEF PartyInvariant, NamesOwn
  <2>3. ASSUME NEW k \in Calls, call'[k].at \in {"resort", "agent", "link", "assign"}
        PROVE  profile'[call'[k].holder] = call'[k].who
    <3>1. CASE k = c
      BY <1>1, <1>2, <1>3, <3>1
    <3>2. CASE k # c
      <4>1. /\ call'[k] = call[k] /\ call[k].at \in {"resort", "agent", "link", "assign"}
        BY <1>2, <2>3, <3>2
      <4>2. /\ call[k].who \in Resorts \cup Agents /\ call[k].holder \in Profiles
        BY <4>1, Maker
      <4>3. profile[call[k].holder] = call[k].who
        BY <4>1 DEF PartyInvariant, NamesOwn
      <4> QED
        BY <1>3, <1>4, <4>1, <4>2, <4>3
    <3> QED
      BY <3>1, <3>2
  <2> QED
    BY <2>1, <2>2, <2>3 DEF NamesOwn
<1>8. NewResorts'
  BY <1>1, <1>2 DEF PartyInvariant, NewResorts, At
<1>9. NewAgents'
  <2>1. ASSUME NEW k \in Calls, At(k, "agent")'
        PROVE  /\ \A q \in Opt(Resorts) : agreement'[call'[k].who][q] = None
               /\ \A l \in Calls :
                     l # k /\ call'[l].at \in {"agent", "assign"} => call'[l].who # call'[k].who
    <3>1. CASE k = c
      BY <1>1, <1>2, <2>1, <3>1 DEF At
    <3>2. CASE k # c
      <4>1. call'[k] = call[k] /\ At(k, "agent")
        BY <1>2, <2>1, <3>2 DEF At
      <4>2. /\ \A q \in Opt(Resorts) : agreement[call[k].who][q] = None
            /\ \A l \in Calls :
                  l # k /\ call[l].at \in {"agent", "assign"} => call[l].who # call[k].who
        BY <4>1 DEF PartyInvariant, NewAgents
      <4>3. at \in {"agent", "assign"} => who # call[k].who
        <5>1. CASE at = "agent"
          BY <5>1
        <5>2. CASE at = "assign"
          BY <1>4, <4>2, <5>2
        <5> QED
          BY <5>1, <5>2
      <4> QED
        BY <1>1, <1>2, <4>1, <4>2, <4>3
    <3> QED
      BY <3>1, <3>2
  <2> QED
    BY <2>1 DEF NewAgents
<1>10. Racing'
  <2>1. ASSUME NEW k \in Calls, NEW l \in Calls, k # l, call'[k].who = call'[l].who,
               call'[k].at \in {"link", "assign"}, call'[l].at \in {"link", "assign"}
        PROVE  call'[k].who \in astray'
    <3>1. CASE k = c
      BY <1>1, <1>2, <2>1, <3>1 DEF Making
    <3>2. CASE l = c
      BY <1>1, <1>2, <2>1, <3>2 DEF Making
    <3>3. CASE k # c /\ l # c
      BY <1>2, <2>1, <3>3 DEF PartyInvariant, Racing
    <3> QED
      BY <3>1, <3>2, <3>3
  <2> QED
    BY <2>1 DEF Racing
<1>11. Assigning'
  <2>1. ASSUME NEW k \in Calls, At(k, "assign")'
        PROVE  /\ agreement'[call'[k].who][call'[k].resort] # None
               /\ agreement'[call'[k].who][call'[k].resort] # Null => call'[k].who \in astray'
    <3>1. CASE k = c
      BY <1>1, <1>2, <1>4, <2>1, <3>1 DEF At
    <3>2. CASE k # c
      BY <1>2, <2>1, <3>2 DEF PartyInvariant, Assigning, At
    <3> QED
      BY <3>1, <3>2
  <2> QED
    BY <2>1 DEF Assigning
<1>12. Linking'
  <2>1. ASSUME NEW k \in Calls, At(k, "link")'
        PROVE  \/ call'[k].who \in astray'
               \/ \E q \in Opt(Resorts) : agreement'[call'[k].who][q] = Null
    <3>1. CASE k = c
      BY <1>1, <1>2, <2>1, <3>1 DEF At
    <3>2. CASE k # c
      BY <1>2, <2>1, <3>2 DEF PartyInvariant, Linking, At
    <3> QED
      BY <3>1, <3>2
  <2> QED
    BY <2>1 DEF Linking
<1> QED
  BY <1>6, <1>7, <1>8, <1>9, <1>10, <1>11, <1>12 DEF PartyInvariant

(* A request puts the profile it made into agreements of the agent.        *)
LEMMA AgreementsNamed ==
    ASSUME Typed, PartyInvariant, NEW c \in Calls, NEW a \in Agents, NEW p \in Profiles,
           call[c].at \in {"agent", "link", "assign"}, call[c].who = a, call[c].holder = p,
           NEW n, Becomes(c, n), n.at \in {"idle", "find"}, n.at = "find" => call[c].at = "link" /\ n.holder = p,
           UNCHANGED <<profile, resort, removed, doc, astray>>,
           \A b \in Agents, q \in Opt(Resorts) :
              agreement'[b][q] = agreement[b][q] \/ (b = a /\ agreement'[b][q] = p),
           \A q \in Opt(Resorts) :
              agreement'[a][q] # agreement[a][q] =>
                 \/ agreement[a][q] = Null
                 \/ call[c].at = "agent"
                 \/ call[c].at = "assign" /\ q = call[c].resort,
           call[c].at = "link" =>
              \A q \in Opt(Resorts) : agreement[a][q] = Null => agreement'[a][q] = p
    PROVE  PartyInvariant'
<1>1. \A k \in Calls : call'[k] = IF k = c THEN n ELSE call[k]
  BY BecomesOnly
<1>2. None \notin Profiles \cup {Null} /\ Null \notin Profiles
  BY DocumentsAssumption DEF Holders
<1>3. \A k \in Calls :
         call'[k].at \in {"resort", "agent", "link", "assign"} => k # c /\ call'[k] = call[k]
  BY <1>1
<1>4. profile[p] = a
  BY DEF PartyInvariant, NamesOwn
\* What was in an agreement before.
<1>5. ASSUME NEW q \in Opt(Resorts), agreement'[a][q] # agreement[a][q]
      PROVE  \/ agreement[a][q] = Null
             \/ call[c].at = "agent" /\ agreement[a][q] = None
             \/ call[c].at = "assign" /\ agreement[a][q] # None /\ a \in astray
  <2>1. CASE call[c].at = "agent"
    BY <2>1 DEF PartyInvariant, NewAgents, At
  <2>2. CASE call[c].at = "assign" /\ q = call[c].resort
    BY <2>2 DEF PartyInvariant, Assigning, At
  <2> QED
    BY <1>5, <2>1, <2>2
<1>6. ASSUME NEW q \in Profiles, Settled(q) PROVE Settled(q)'
  <2>1. ASSUME NEW b \in Agents, NEW r \in Opt(Resorts), agreement[b][r] = q PROVE Settled(q)'
    <3>1. CASE agreement'[b][r] = q
      BY <3>1, NamedBy DEF Settled
    <3>2. CASE agreement'[b][r] # q
      <4>1. b = a /\ a \in astray
        BY <1>2, <1>5, <2>1, <3>2
      <4>2. profile[q] = a
        BY <2>1, <4>1 DEF PartyInvariant, NamesOwn
      <4> QED
        BY <4>1, <4>2 DEF Settled
    <3> QED
      BY <3>1, <3>2
  <2>2. ASSUME NEW r \in Resorts, r \notin removed, resort[r] = q PROVE Settled(q)'
    BY <2>2, NamedBy DEF Settled
  <2>3. CASE profile[q] \in astray \cup removed
    BY <2>3 DEF Settled
  <2> QED
    BY <1>6, <2>1, <2>2, <2>3, NamedBy DEF Settled
<1>7. call[c].at = "link" => Settled(p)'
  <2>1. ASSUME call[c].at = "link" PROVE Settled(p)'
    <3>1. CASE a \in astray
      BY <1>4, <3>1 DEF Settled
    <3>2. CASE a \notin astray
      <4>1. PICK r \in Opt(Resorts) : agreement[a][r] = Null
        BY <2>1, <3>2 DEF PartyInvariant, Linking, At
      <4>2. agreement'[a][r] = p
        BY <2>1, <4>1
      <4> QED
        BY <4>2, NamedBy DEF Settled
    <3> QED
      BY <3>1, <3>2
  <2> QED
    BY <2>1
<1>8. HoldersSettled'
  <2>1. ASSUME NEW k \in Calls, Holding(k)', call'[k].holder \in Profiles
        PROVE  Settled(call[k].holder)'
    <3>1. CASE k = c
      BY <1>1, <1>7, <2>1, <3>1 DEF Holding, Settled, Named, Open, ProfilesOf, AgreementsOf
    <3>2. CASE k # c
      <4>1. call'[k] = call[k] /\ Holding(k)
        BY <1>1, <2>1, <3>2 DEF Holding
      <4> QED
        BY <1>6, <2>1, <4>1 DEF PartyInvariant, HoldersSettled
    <3> QED
      BY <3>1, <3>2
  <2>2. \A d \in Docs : Exists(d)' /\ doc'[d].holder \in Profiles => Settled(doc[d].holder)'
    BY <1>6 DEF PartyInvariant, HoldersSettled, Exists
  <2> QED
    BY <2>1, <2>2 DEF HoldersSettled
<1>9. NamesOwn'
  <2>1. \A b \in Agents, q \in Opt(Resorts) :
           agreement'[b][q] \in Profiles => profile'[agreement'[b][q]] = b
    BY <1>4 DEF PartyInvariant, NamesOwn
  <2> QED
    BY <1>3, <2>1 DEF PartyInvariant, NamesOwn
<1>10. NewResorts'
  BY <1>3 DEF PartyInvariant, NewResorts, At
\* Another request that makes a profile for the agent.
<1>11. ASSUME NEW k \in Calls, k # c, call[k].who = a, call[k].at \in {"link", "assign"}
       PROVE  \/ a \in astray
              \/ /\ call[c].at = "agent" /\ call[k].at = "link"
                 /\ \A q \in Opt(Resorts) : agreement[a][q] = None
  <2>1. CASE call[c].at = "agent"
    BY <1>11, <2>1 DEF PartyInvariant, NewAgents, At
  <2>2. CASE call[c].at \in {"link", "assign"}
    BY <1>11, <2>2 DEF PartyInvariant, Racing
  <2> QED
    BY <2>1, <2>2
<1>12. NewAgents'
  <2>1. ASSUME NEW k \in Calls, At(k, "agent")'
        PROVE  /\ \A q \in Opt(Resorts) : agreement'[call'[k].who][q] = None
               /\ \A l \in Calls :
                     l # k /\ call'[l].at \in {"agent", "assign"} => call'[l].who # call'[k].who
    <3>1. k # c /\ call'[k] = call[k] /\ At(k, "agent") /\ call[k].who \in Agents
      BY <1>3, <2>1, Maker DEF At
    <3>2. /\ \A q \in Opt(Resorts) : agreement[call[k].who][q] = None
          /\ \A l \in Calls :
                l # k /\ call[l].at \in {"agent", "assign"} => call[l].who # call[k].who
      BY <3>1 DEF PartyInvariant, NewAgents
    <3>3. \A q \in Opt(Resorts) : agreement'[call[k].who][q] = None
      <4>1. CASE call[k].who = a
        BY <1>2, <1>5, <3>1, <3>2, <4>1
      <4>2. CASE call[k].who # a
        BY <3>1, <3>2, <4>2
      <4> QED
        BY <4>1, <4>2
    <3>4. \A l \in Calls :
             l # k /\ call'[l].at \in {"agent", "assign"} => call'[l].who # call'[k].who
      BY <1>3, <3>1, <3>2
    <3> QED
      BY <3>1, <3>3, <3>4
  <2> QED
    BY <2>1 DEF NewAgents
<1>13. Racing'
  BY <1>3 DEF PartyInvariant, Racing
<1>14. Assigning'
  <2>1. ASSUME NEW k \in Calls, At(k, "assign")'
        PROVE  /\ agreement'[call'[k].who][call'[k].resort] # None
               /\ agreement'[call'[k].who][call'[k].resort] # Null => call'[k].who \in astray'
    <3>1. /\ k # c /\ call'[k] = call[k] /\ At(k, "assign")
          /\ call[k].who \in Agents /\ call[k].resort \in Opt(Resorts)
      BY <1>3, <2>1, Maker DEF At
    <3>2. /\ agreement[call[k].who][call[k].resort] # None
          /\ agreement[call[k].who][call[k].resort] # Null => call[k].who \in astray
      BY <3>1 DEF PartyInvariant, Assigning
    <3>3. CASE call[k].who = a
      BY <1>2, <1>11, <3>1, <3>2, <3>3 DEF At
    <3>4. CASE call[k].who # a
      BY <3>1, <3>2, <3>4
    <3> QED
      BY <3>3, <3>4
  <2> QED
    BY <2>1 DEF Assigning
<1>15. Linking'
  <2>1. ASSUME NEW k \in Calls, At(k, "link")'
        PROVE  \/ call'[k].who \in astray'
               \/ \E q \in Opt(Resorts) : agreement'[call'[k].who][q] = Null
    <3>1. k # c /\ call'[k] = call[k] /\ At(k, "link") /\ call[k].who \in Agents
      BY <1>3, <2>1, Maker DEF At
    <3>2. call[k].who \in astray \/ \E q \in Opt(Resorts) : agreement[call[k].who][q] = Null
      BY <3>1 DEF PartyInvariant, Linking
    <3>3. CASE call[k].who = a
      BY <1>2, <1>11, <3>1, <3>2, <3>3 DEF At
    <3>4. CASE call[k].who # a
      BY <3>1, <3>2, <3>4
    <3> QED
      BY <3>3, <3>4
  <2> QED
    BY <2>1 DEF Linking
<1> QED
  BY <1>8, <1>9, <1>10, <1>12, <1>13, <1>14, <1>15 DEF PartyInvariant

(* A request names the new profile in the new resort.                      *)
LEMMA ResortNamed ==
    ASSUME Typed, PartyInvariant, NEW c \in Calls, ResortCreated(c)
    PROVE  PartyInvariant'
<1>1. PICK n \in Call : Becomes(c, n) /\ n.at = "idle"
  BY EndsCall DEF ResortCreated, Ends
<1>2. PICK r \in Resorts, p \in Profiles : r = call[c].who /\ p = call[c].holder
  BY Maker DEF ResortCreated, At
<1>3. \A k \in Calls : call'[k] = IF k = c THEN n ELSE call[k]
  BY <1>1, BecomesOnly
<1>4. /\ At(c, "resort") /\ resort' = [resort EXCEPT ![r] = p]
      /\ UNCHANGED <<profile, removed, agreement, doc, astray>>
  BY <1>2 DEF ResortCreated, papers, history
<1>5. resort'[r] = p /\ \A q \in Resorts : q # r => resort'[q] = resort[q]
  BY <1>4 DEF Typed, TypeOK
<1>6. resort[r] = None /\ profile[p] = r
  BY <1>2, <1>4 DEF PartyInvariant, NewResorts, NamesOwn, At
<1>7. \A k \in Calls :
         call'[k].at \in {"resort", "agent", "link", "assign"} => k # c /\ call'[k] = call[k]
  BY <1>1, <1>3
<1>8. ASSUME NEW q \in Profiles, Settled(q) PROVE Settled(q)'
  <2>1. q # None
    BY DocumentsAssumption
  <2>2. \A s \in Resorts : resort[s] = q => resort'[s] = q
    BY <1>5, <1>6, <2>1
  <2> QED
    BY <1>4, <1>8, <2>2, NamedBy DEF Settled
<1>9. HoldersSettled'
  <2>1. ASSUME NEW k \in Calls, Holding(k)', call'[k].holder \in Profiles
        PROVE  Settled(call[k].holder)'
    <3>1. call'[k] = call[k] /\ Holding(k)
      BY <1>1, <1>3, <2>1 DEF Holding
    <3> QED
      BY <1>8, <2>1, <3>1 DEF PartyInvariant, HoldersSettled
  <2>2. \A d \in Docs : Exists(d)' /\ doc'[d].holder \in Profiles => Settled(doc[d].holder)'
    BY <1>4, <1>8 DEF PartyInvariant, HoldersSettled, Exists
  <2> QED
    BY <2>1, <2>2 DEF HoldersSettled
<1>10. NamesOwn'
  <2>1. \A q \in Resorts : resort'[q] \in Profiles => profile'[resort'[q]] = q
    BY <1>4, <1>5, <1>6 DEF PartyInvariant, NamesOwn
  <2> QED
    BY <1>4, <1>7, <2>1 DEF PartyInvariant, NamesOwn
<1>11. NewResorts'
  <2>1. ASSUME NEW k \in Calls, At(k, "resort")'
        PROVE  /\ resort'[call'[k].who] = None
               /\ \A l \in Calls : l # k /\ At(l, "resort")' => call'[l].who # call'[k].who
    <3>1. k # c /\ call'[k] = call[k] /\ At(k, "resort") /\ call[k].who \in Resorts
      BY <1>7, <2>1, Maker DEF At
    <3>2. /\ resort[call[k].who] = None /\ call[k].who # r
          /\ \A l \in Calls : l # k /\ At(l, "resort") => call[l].who # call[k].who
      BY <1>2, <1>4, <3>1 DEF PartyInvariant, NewResorts
    <3>3. \A l \in Calls : At(l, "resort")' => At(l, "resort") /\ call'[l] = call[l]
      BY <1>7 DEF At
    <3> QED
      BY <1>5, <3>1, <3>2, <3>3
  <2> QED
    BY <2>1 DEF NewResorts
<1>12. NewAgents'
  BY <1>4, <1>7 DEF PartyInvariant, NewAgents, At
<1>13. Racing'
  BY <1>4, <1>7 DEF PartyInvariant, Racing
<1>14. Assigning' /\ Linking'
  BY <1>4, <1>7 DEF PartyInvariant, Assigning, Linking, At
<1> QED
  BY <1>9, <1>10, <1>11, <1>12, <1>13, <1>14 DEF PartyInvariant

(* Agreements without a profile, and resorts that are removed.             *)
LEMMA PartiesMove ==
    ASSUME Typed, PartyInvariant, UNCHANGED <<profile, resort, doc, astray, call>>,
           removed \subseteq removed',
           \A a \in Agents, r \in Opt(Resorts) :
              \/ agreement'[a][r] = agreement[a][r]
              \/ /\ agreement[a][r] = None /\ agreement'[a][r] = Null
                 /\ AgreementsOf(a) # {}
    PROVE  PartyInvariant'
<1>1. None \notin Profiles \cup {Null} /\ Null \notin Profiles
  BY DocumentsAssumption DEF Holders
<1>2. ASSUME NEW q \in Profiles, Settled(q) PROVE Settled(q)'
  <2>1. \A a \in Agents, r \in Opt(Resorts) : agreement[a][r] = q => agreement'[a][r] = q
    BY <1>1
  <2>2. ASSUME NEW r \in Resorts, r \notin removed, resort[r] = q PROVE Settled(q)'
    <3>1. profile'[q] = r
      BY <2>2 DEF PartyInvariant, NamesOwn
    <3> QED
      BY <2>2, <3>1, NamedBy DEF Settled
  <2> QED
    BY <1>2, <2>1, <2>2, NamedBy DEF Settled
<1>3. HoldersSettled'
  <2>1. \A k \in Calls :
           Holding(k)' /\ call[k].holder \in Profiles => Settled(call[k].holder)'
    BY <1>2 DEF PartyInvariant, HoldersSettled, Holding
  <2>2. \A d \in Docs : Exists(d)' /\ doc[d].holder \in Profiles => Settled(doc[d].holder)'
    BY <1>2 DEF PartyInvariant, HoldersSettled, Exists
  <2> QED
    BY <2>1, <2>2 DEF HoldersSettled
<1>4. NamesOwn'
  BY <1>1 DEF PartyInvariant, NamesOwn
<1>5. NewResorts' /\ Racing'
  BY DEF PartyInvariant, NewResorts, Racing, At
<1>6. NewAgents'
  <2>1. ASSUME NEW k \in Calls, At(k, "agent")
        PROVE  /\ \A r \in Opt(Resorts) : agreement'[call[k].who][r] = None
               /\ \A l \in Calls :
                     l # k /\ call[l].at \in {"agent", "assign"} => call[l].who # call[k].who
    <3>1. call[k].who \in Agents /\ \A r \in Opt(Resorts) : agreement[call[k].who][r] = None
      BY <2>1, Maker DEF PartyInvariant, NewAgents, At
    <3>2. AgreementsOf(call[k].who) = {}
      BY <3>1 DEF AgreementsOf
    <3> QED
      BY <2>1, <3>1, <3>2 DEF PartyInvariant, NewAgents
  <2> QED
    BY <2>1 DEF NewAgents, At
<1>7. Assigning' /\ Linking'
  <2>1. \A k \in Calls : call[k].at \in {"link", "assign"} => call[k].who \in Agents
    BY Maker
  <2>2. \A k \in Calls : call[k].at = "assign" => call[k].resort \in Opt(Resorts)
    BY Maker
  <2>3. \A k \in Calls : At(k, "link") => \/ call[k].who \in astray
                                         \/ \E r \in Opt(Resorts) : agreement'[call[k].who][r] = Null
    BY <1>1, <2>1 DEF PartyInvariant, Linking, At
  <2>4. Assigning'
    BY <1>1, <2>1, <2>2 DEF PartyInvariant, Assigning, At
  <2> QED
    BY <2>3, <2>4 DEF Linking, At
<1> QED
  BY <1>3, <1>4, <1>5, <1>6, <1>7 DEF PartyInvariant
LEMMA ProfileStepParties ==
    ASSUME Typed, PartyInvariant, NEW c \in Calls, ProfileStep(c)
    PROVE  PartyInvariant'
<1>1. None \notin Profiles \cup {Null} /\ Resorts \cap Agents = {}
  BY DocumentsAssumption
<1>2. ASSUME NEW r \in Resorts, NEW p \in Profiles, CreateResort(c, r, p)
      PROVE  PartyInvariant'
  <2>1. Makes(c, "resort", r, Null, p) /\ Null \in Opt(Resorts)
    BY <1>2, MakesProfile DEF Opt
  <2>2. /\ NewProfile(p, r) /\ UNCHANGED <<resort, removed, agreement, doc, astray>>
        /\ resort[r] = None /\ \A k \in Calls : call[k].who # r
    BY <1>2 DEF CreateResort, papers, history
  <2> QED
    BY <2>1, <2>2, PartiesBegun
<1>3. ASSUME NEW r \in Opt(Resorts), NEW p \in Profiles, NEW a \in Agents, CreateAgent(c, a, r, p)
      PROVE  PartyInvariant'
  <2>1. Makes(c, "agent", a, r, p)
    BY <1>3, MakesProfile
  <2>2. /\ NewProfile(p, a) /\ UNCHANGED <<resort, removed, agreement, doc, astray>>
        /\ \A k \in Calls : call[k].who # a
        /\ \A q \in Opt(Resorts) : agreement[a][q] = None
    BY <1>3 DEF CreateAgent, AgreementsOf, papers, history
  <2> QED
    BY <2>1, <2>2, PartiesBegun
<1>4. ASSUME NEW r \in Opt(Resorts), NEW p \in Profiles, NEW a \in Agents,
             UpdateAgentProfile(c, a, r, p)
      PROVE  PartyInvariant'
  <2>1. Makes(c, "assign", a, r, p)
    BY <1>4, MakesProfile
  <2>2. /\ NewProfile(p, a) /\ UNCHANGED <<resort, removed, agreement, doc>>
        /\ astray \subseteq astray' /\ (Making(a) => a \in astray')
        /\ agreement[a][r] = Null
    BY <1>4 DEF UpdateAgentProfile, papers
  <2> QED
    BY <2>1, <2>2, PartiesBegun
<1>5. ASSUME NEW p \in Profiles, NEW a \in Agents, UploadWithoutProfile(c, a, p)
      PROVE  PartyInvariant'
  <2>1. Makes(c, "link", a, Null, p) /\ Null \in Opt(Resorts)
    BY <1>5, MakesProfile DEF Opt
  <2>2. /\ NewProfile(p, a) /\ UNCHANGED <<resort, removed, agreement, doc>>
        /\ astray \subseteq astray' /\ (Making(a) => a \in astray')
    BY <1>5 DEF UploadWithoutProfile, papers
  <2>3. a \in astray' \/ \E q \in Opt(Resorts) : agreement[a][q] = Null
    BY <1>5 DEF UploadWithoutProfile, ProfilesOf, AgreementsOf
  <2> QED
    BY <2>1, <2>2, <2>3, PartiesBegun
<1>6. ASSUME AgentCreated(c) \/ AssignProfile(c) PROVE PartyInvariant'
  <2>1. PICK a \in Agents, r \in Opt(Resorts), p \in Profiles :
           a = call[c].who /\ r = call[c].resort /\ p = call[c].holder
    BY <1>6, Maker DEF AgentCreated, AssignProfile, At
  <2>2. PICK n \in Call : Becomes(c, n) /\ n.at = "idle"
    BY <1>6, EndsCall DEF AgentCreated, AssignProfile, Ends
  <2>3. /\ agreement' = [agreement EXCEPT ![a] = [@ EXCEPT ![r] = p]]
        /\ call[c].at \in {"agent", "assign"}
        /\ UNCHANGED <<profile, resort, removed, doc, astray>>
    BY <1>6, <2>1 DEF AgentCreated, AssignProfile, At, papers, history
  <2>4. /\ agreement'[a][r] = p
        /\ \A b \in Agents, q \in Opt(Resorts) :
              b # a \/ q # r => agreement'[b][q] = agreement[b][q]
    BY <2>3 DEF Typed, TypeOK
  <2>5. \A b \in Agents, q \in Opt(Resorts) :
           agreement'[b][q] = agreement[b][q] \/ (b = a /\ agreement'[b][q] = p)
    BY <2>4
  <2>6. \A q \in Opt(Resorts) :
           agreement'[a][q] # agreement[a][q] =>
              \/ agreement[a][q] = Null
              \/ call[c].at = "agent"
              \/ call[c].at = "assign" /\ q = call[c].resort
    BY <2>1, <2>3, <2>4
  <2>7. call[c].at # "link" /\ n.at # "find"
    BY <2>2, <2>3
  <2> QED
    BY <2>1, <2>2, <2>3, <2>5, <2>6, <2>7, AgreementsNamed
<1> QED
  BY <1>2, <1>3, <1>4, <1>5, <1>6, ResortNamed DEF ProfileStep

LEMMA FileStepParties ==
    ASSUME Typed, PartyInvariant, NEW c \in Calls, FileStep(c)
    PROVE  PartyInvariant'
<1>1. \A d \in Docs : Exists(d) /\ doc[d].holder \in Profiles => Settled(doc[d].holder)
  BY DEF PartyInvariant, HoldersSettled
<1>2. ASSUME NEW n \in Call, Becomes(c, n), n.at \notin {"resort", "agent", "link", "assign"},
             n.at \in {"find", "replace", "insert"} /\ n.holder \in Profiles =>
                Settled(n.holder),
             UNCHANGED <<parties, astray>>,
             \A d \in Docs :
                Exists(d)' /\ doc'[d].holder \in Profiles => Settled(doc'[d].holder)
      PROVE  PartyInvariant'
  <2>1. \A k \in Calls : call'[k] = IF k = c THEN n ELSE call[k]
    BY <1>2, BecomesOnly
  <2>2. \A k \in Calls :
           \/ call'[k] = call[k]
           \/ /\ call'[k].at \notin {"resort", "agent", "link", "assign"}
              /\ Holding(k)' /\ call'[k].holder \in Profiles => Settled(call'[k].holder)
    BY <1>2, <2>1 DEF Holding
  <2> QED
    BY <1>2, <2>2, PartiesStay
<1>3. ASSUME NEW f \in Files, LinkProfile(c, f) PROVE PartyInvariant'
  <2>1. PICK a \in Agents, p \in Profiles : a = call[c].who /\ p = call[c].holder
    BY <1>3, Maker DEF LinkProfile, At
  <2>2. PICK n \in Call : Becomes(c, n) /\ n.at = "find" /\ n.holder = p
    BY <1>3, <2>1, BringsFile DEF Brings
  <2>3. /\ agreement' = [agreement EXCEPT ![a] = Linked(a, p)] /\ call[c].at = "link"
        /\ UNCHANGED <<profile, resort, removed, doc, astray>>
    BY <1>3, <2>1 DEF LinkProfile, At, history
  <2>4. \A b \in Agents, q \in Opt(Resorts) :
           agreement'[b][q] = IF b = a /\ agreement[b][q] = Null THEN p ELSE agreement[b][q]
    BY <2>3, LinkedTyped
  <2>5. \A b \in Agents, q \in Opt(Resorts) :
           agreement'[b][q] = agreement[b][q] \/ (b = a /\ agreement'[b][q] = p)
    BY <2>4
  <2>6. \A q \in Opt(Resorts) :
           /\ agreement'[a][q] # agreement[a][q] => agreement[a][q] = Null
           /\ agreement[a][q] = Null => agreement'[a][q] = p
    BY <2>4
  <2> QED
    BY <2>1, <2>2, <2>3, <2>5, <2>6, AgreementsNamed
<1>4. ASSUME NEW f \in Files, NEW h \in Holders, Upload(c, h, f) PROVE PartyInvariant'
  <2>1. PICK n \in Call : Becomes(c, n) /\ n.at \in {"find", "insert"} /\ n.holder = h
    BY <1>4, BringsFile DEF Brings
  <2>2. UNCHANGED <<parties, doc, astray>> /\ (h \in Profiles => Settled(h))
    BY <1>4, DocumentsAssumption DEF Upload, Target, Settled, history
  <2> QED
    BY <1>1, <1>2, <2>1, <2>2 DEF Exists
<1>5. ASSUME NEW f \in Files, NEW r \in Resorts, RegisterDocument(c, r, f)
      PROVE  PartyInvariant'
  <2>1. PICK n \in Call : Becomes(c, n) /\ n.at = "find" /\ n.holder = resort[r]
    BY <1>5, BringsFile DEF Brings
  <2>2. UNCHANGED <<parties, doc, astray>> /\ Settled(resort[r])
    BY <1>5 DEF RegisterDocument, Settled, Named, papers, history
  <2> QED
    BY <1>1, <1>2, <2>1, <2>2 DEF Exists
<1>6. ASSUME FindDocument(c) PROVE PartyInvariant'
  <2>1. PICK n \in Call :
           /\ Becomes(c, n) /\ n.at \in {"insert", "replace"} /\ n.holder = call[c].holder
    BY <1>6, BringsFile
  <2>2. At(c, "find") /\ UNCHANGED <<parties, doc, astray>>
    BY <1>6 DEF FindDocument, papers, history
  <2>3. call[c].holder \in Profiles => Settled(call[c].holder)
    BY <2>2 DEF PartyInvariant, HoldersSettled, Holding, At
  <2> QED
    BY <1>1, <1>2, <2>1, <2>2, <2>3 DEF Exists
<1>7. ASSUME ReplaceDocument(c) PROVE PartyInvariant'
  <2>1. PICK n \in Call : Becomes(c, n) /\ n.at = "idle"
    BY <1>7, ReplaceMoves DEF Ends
  <2>2. \A d \in Docs : Exists(d)' => Exists(d) /\ doc'[d].holder = doc[d].holder
    BY <1>7, ReplaceMoves DEF DocsOf, Exists
  <2>3. UNCHANGED <<parties, astray>>
    BY <1>7 DEF ReplaceDocument
  <2> QED
    BY <1>1, <1>2, <2>1, <2>2, <2>3
<1>8. ASSUME NEW i \in Docs, InsertDocument(c, i) PROVE PartyInvariant'
  <2>1. PICK h \in Holders, f \in Files : h = call[c].holder /\ f = call[c].file
    BY <1>8 DEF InsertDocument, At, Typed, CallsFit, Fits
  <2>2. /\ doc' = [doc EXCEPT ![i] = NewRow(h, f)] /\ At(c, "insert")
        /\ UNCHANGED <<parties, astray>>
    BY <1>8, <2>1 DEF InsertDocument, NewRow
  <2>3. doc'[i].holder = h /\ \A d \in Docs : d # i => doc'[d] = doc[d]
    BY <2>2, InsertMoves
  <2>4. h \in Profiles => Settled(h)
    BY <2>1, <2>2 DEF PartyInvariant, HoldersSettled, Holding, At
  <2>5. \A d \in Docs :
           Exists(d)' /\ doc'[d].holder \in Profiles => Settled(doc'[d].holder)
    BY <1>1, <2>3, <2>4 DEF Exists
  <2>6. PICK n \in Call : Becomes(c, n) /\ n.at = "idle"
    BY <1>8, EndsCall DEF InsertDocument, Ends
  <2> QED
    BY <1>2, <2>2, <2>5, <2>6
<1> QED
  BY <1>3, <1>4, <1>5, <1>6, <1>7, <1>8 DEF FileStep

LEMMA DocStepParties ==
    ASSUME Typed, PartyInvariant, NEW c \in Calls, DocStep(c)
    PROVE  PartyInvariant'
<1>1. PICK n \in Call : Becomes(c, n) /\ n.at \in {"review", "blob", "row", "idle"}
  BY ReadsDocument, EndsCall DEF DocStep, Reads, Ends, Reviewed, DeleteRow, Crash
<1>2. \A k \in Calls : call'[k] = IF k = c THEN n ELSE call[k]
  BY <1>1, BecomesOnly
<1>3. UNCHANGED parties /\ astray \subseteq astray'
  BY DEF DocStep, DeleteDocument, Review, Reviewed, DeleteFile, DeleteRow, Crash, history
<1>4. \A d \in Docs : Exists(d)' => Exists(d) /\ doc'[d].holder = doc[d].holder
  <2>1. CASE Reviewed(c)
    BY <2>1, ReviewedMoves DEF Exists
  <2>2. CASE DeleteRow(c)
    BY <2>2 DEF DeleteRow, Exists, Typed, TypeOK
  <2>3. CASE doc' = doc
    BY <2>3 DEF Exists
  <2> QED
    BY <2>1, <2>2, <2>3 DEF DocStep, DeleteDocument, Review, DeleteFile, Crash, papers
<1>5. \A k \in Calls :
         \/ call'[k] = call[k]
         \/ /\ call'[k].at \notin {"resort", "agent", "link", "assign"}
            /\ Holding(k)' /\ call'[k].holder \in Profiles => Settled(call'[k].holder)
  BY <1>1, <1>2 DEF Holding
<1>6. \A d \in Docs :
         Exists(d)' /\ doc'[d].holder \in Profiles => Settled(doc'[d].holder)
  BY <1>4 DEF PartyInvariant, HoldersSettled
<1> QED
  BY <1>3, <1>5, <1>6, PartiesStay

LEMMA NextParties ==
    ASSUME Typed, PartyInvariant, [Next]_vars
    PROVE  PartyInvariant'
<1>1. \A d \in Docs : Exists(d) /\ doc[d].holder \in Profiles => Settled(doc[d].holder)
  BY DEF PartyInvariant, HoldersSettled
<1>2. ASSUME NEW a \in Agents, NEW r \in Resorts, CreateAgreement(a, r) PROVE PartyInvariant'
  <2>1. /\ agreement[a][r] = None /\ AgreementsOf(a) # {}
        /\ agreement' = [agreement EXCEPT ![a] = [@ EXCEPT ![r] = Null]]
        /\ UNCHANGED <<profile, resort, removed, doc, astray, call>>
    <3>1. r \in Opt(Resorts)
      BY DEF Opt
    <3> QED
      BY <1>2, <3>1 DEF CreateAgreement, AgreementsOf, papers, history
  <2>2. /\ agreement'[a][r] = Null
        /\ \A b \in Agents, q \in Opt(Resorts) :
              b # a \/ q # r => agreement'[b][q] = agreement[b][q]
    <3>1. r \in Opt(Resorts)
      BY DEF Opt
    <3>2. /\ agreement \in [Agents -> [Opt(Resorts) -> Opt(Profiles) \cup {None}]]
          /\ agreement' = [agreement EXCEPT ![a] = [@ EXCEPT ![r] = Null]]
      BY <2>1 DEF Typed, TypeOK
    <3> QED
      BY <3>1, <3>2
  <2>3. \A b \in Agents, q \in Opt(Resorts) :
           \/ agreement'[b][q] = agreement[b][q]
           \/ /\ agreement[b][q] = None /\ agreement'[b][q] = Null
              /\ AgreementsOf(b) # {}
    BY <2>1, <2>2
  <2> QED
    BY <2>1, <2>3, PartiesMove
<1>3. ASSUME NEW r \in Resorts, RemoveResort(r) PROVE PartyInvariant'
  <2>1. /\ removed \subseteq removed'
        /\ UNCHANGED <<profile, resort, agreement, doc, astray, call>>
    BY <1>3 DEF RemoveResort, papers, history
  <2> QED
    BY <2>1, PartiesMove
<1>4. ASSUME NEW e \in Experiences, NEW d \in Docs, NEW f \in Files, PresignImage(e, d, f)
      PROVE  PartyInvariant'
  <2>1. /\ e \in Holders /\ e \notin Profiles /\ doc' = [doc EXCEPT ![d] = NewRow(e, f)]
        /\ UNCHANGED <<parties, astray, call>>
    BY <1>4, DocumentsAssumption DEF PresignImage, NewRow, Holders, history
  <2>2. doc'[d].holder = e /\ \A g \in Docs : g # d => doc'[g] = doc[g]
    BY <2>1, InsertMoves
  <2>3. \A g \in Docs :
           Exists(g)' /\ doc'[g].holder \in Profiles => Settled(doc'[g].holder)
    BY <1>1, <2>1, <2>2 DEF Exists
  <2> QED
    BY <2>1, <2>3, PartiesStay
<1>5. ASSUME UNCHANGED <<parties, doc, astray, call>> PROVE PartyInvariant'
  BY <1>1, <1>5, PartiesStay DEF Exists
<1>6. ASSUME NEW f \in Files, PresignFile(f) \/ DirectUpload(f) \/ DeleteByName(f)
      PROVE  PartyInvariant'
  BY <1>5, <1>6 DEF PresignFile, DirectUpload, DeleteByName, history
<1>7. ASSUME UNCHANGED vars PROVE PartyInvariant'
  BY <1>5, <1>7 DEF vars, papers, history
<1> QED
  BY Split, <1>2, <1>3, <1>4, <1>6, <1>7, ProfileStepParties, FileStepParties, DocStepParties

\* Every document hangs on a profile that a resort or an agreement names,
\* unless two requests made a profile for the same agent at once, the agent
\* has no agreement, or the resort was removed (updateProfile,
\* uploadDocument, remove).
THEOREM ReachableTheorem == Spec => []DocumentsReachable
<1>1. Init => Typed /\ PartyInvariant
  <2>1. ASSUME Init PROVE PartyInvariant
    <3>1. /\ \A d \in Docs : ~Exists(d)
          /\ \A c \in Calls : call[c].at = "idle"
      BY <2>1, NoCallTyped DEF Init, Exists
    <3>2. /\ \A a \in Agents, r \in Opt(Resorts) : agreement[a][r] \notin Profiles
          /\ \A r \in Resorts : resort[r] \notin Profiles
      BY <2>1, DocumentsAssumption DEF Init, Holders
    <3> QED
      BY <3>1, <3>2 DEF PartyInvariant, HoldersSettled, NamesOwn, NewResorts, NewAgents,
         Racing, Assigning, Linking, Holding, At
  <2> QED
    BY <2>1, InitTyped
<1>2. Typed /\ PartyInvariant /\ [Next]_vars => Typed' /\ PartyInvariant'
  BY NextTyped, NextParties
<1>3. Typed /\ PartyInvariant => DocumentsReachable
  BY DEF PartyInvariant, HoldersSettled, Settled, DocumentsReachable
<1> QED
  BY <1>1, <1>2, <1>3, PTL DEF Spec
=============================================================================

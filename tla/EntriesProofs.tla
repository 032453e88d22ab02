---------------------------- MODULE EntriesProofs ----------------------------
(***************************************************************************)
(* Proofs about ContestEntries, for every number of users, workers,        *)
(* contests, images and faults.                                            *)
(***************************************************************************)
EXTENDS ContestEntries, SequenceTheorems, TLAPS

-----------------------------------------------------------------------------
\* The type invariant.

\* A busy worker that moves to another statement keeps its request.
LEMMA GotoOK ==
  ASSUME WorkOK, NEW w \in Workers, work[w].pc \notin {"idle", "look"},
         NEW label \in Labels, Goto(w, label)
  PROVE  WorkOK'
BY DEF WorkOK, WorkType, Goto

\* A worker's record is replaced by one of its type.
LEMMA ReplaceOK ==
  ASSUME WorkOK, NEW w \in Workers, NEW r \in WorkType,
         r.pc \notin {"idle", "look"} => r.user \in Users,
         work' = [work EXCEPT ![w] = r]
  PROVE  WorkOK'
BY DEF WorkOK

\* A new request starts from the idle record.
LEMMA IdleType ==
  /\ \A reply \in Replies : Idle(reply) \in WorkType
  /\ \A reply : Idle(reply).pc = "idle"
BY DEF WorkType, Idle, Labels, None, Public, View, Blank

\* A worker that answers becomes idle.
LEMMA AnswerOK ==
  ASSUME WorkOK, NEW w \in Workers, NEW reply \in Replies, Answer(w, reply)
  PROVE  WorkOK'
BY IdleType, ReplaceOK DEF Answer

\* The row createContest() inserts is a row of the table.
LEMMA NewContestType ==
  ASSUME NEW u \in Users, NEW p \in Users \cup {None, Public}
  PROVE  NewContest(u, p) \in ContestRow
BY DEF NewContest, ContestRow, None, Public, Slots

\* So is a row that updateImage() has updated.
LEMMA EnteredType ==
  ASSUME contest \in Seq(ContestRow), NEW c \in Nat, NEW s \in Slots,
         NEW u \in Users, NEW i \in Nat, NEW t \in Nat
  PROVE  Entered(c, s, u, i, t) \in Seq(ContestRow)
<1>1. CASE Exists(c)
  <2>1. contest[c] \in ContestRow
    BY <1>1 DEF Exists
  <2>2. EnteredRow(contest[c], s, u, i, t) \in ContestRow
    BY <2>1 DEF EnteredRow, ContestRow
  <2> QED
    BY <1>1, <2>2, ExceptSeq DEF Entered, Exists
<1>2. CASE ~Exists(c)
  BY <1>2 DEF Entered
<1> QED
  BY <1>1, <1>2

\* What a SELECT takes of the table contest are entries.
LEMMA EntriesType ==
  ASSUME contest \in Seq(ContestRow), NEW cs, NEW ss \in SUBSET Slots
  PROVE  Pictures(cs, ss) \subseteq EntryType /\ Thumbs(cs) \subseteq EntryType
<1>1. ASSUME NEW e \in Taken(cs, Slots) \cup Taken(cs, ss)
      PROVE  /\ contest[e[1]].user[e[2]] \in Users \cup {None}
             /\ contest[e[1]].image[e[2]] \in Nat
             /\ contest[e[1]].thumb[e[2]] \in Nat
  <2>1. contest[e[1]] \in ContestRow /\ e[2] \in Slots
    BY DEF Taken
  <2> QED
    BY <2>1 DEF ContestRow
<1> QED
  BY <1>1 DEF Pictures, Thumbs, EntryType

\* The functions that show contests share their SELECT.
LEMMA ReadForms ==
  ASSUME NEW w \in Workers, Read(w)
  PROVE  \/ ReadFails(w) \/ ShowEntry(w) \/ EndView(w)
         \/ \E slot \in Slots \cup {0}, ss \in SUBSET Slots : \E cs :
              Select(w, slot, Pictures(cs, ss)) \/ Select(w, slot, Thumbs(cs))
<1>0. /\ 0 \in Slots \cup {0} /\ Slots \in SUBSET Slots
      /\ \A s \in Slots : s \in Slots \cup {0} /\ {s} \in SUBSET Slots
  OBVIOUS
<1>1. ASSUME NEW c, GetContest(w, c)
      PROVE  \E slot \in Slots \cup {0}, ss \in SUBSET Slots : \E cs :
               Select(w, slot, Pictures(cs, ss))
  BY <1>0, <1>1, Zenon DEF GetContest
<1>2. ASSUME NEW u, GetUserContests(w, u)
      PROVE  \E slot \in Slots \cup {0} : \E cs : Select(w, slot, Thumbs(cs))
  BY <1>0, <1>2, Zenon DEF GetUserContests
<1>3. ASSUME GetContestList(w)
      PROVE  \E slot \in Slots \cup {0} : \E cs : Select(w, slot, Thumbs(cs))
  BY <1>0, <1>3, Zenon DEF GetContestList
<1>4. ASSUME NEW c, NEW s \in Slots, PublicGetImage(w, c, s)
      PROVE  \E slot \in Slots \cup {0}, ss \in SUBSET Slots : \E cs :
               Select(w, slot, Pictures(cs, ss))
  BY <1>0, <1>4, Zenon DEF PublicGetImage
<1>5. \E ss : ss \in SUBSET Slots
  OBVIOUS
<1> QED
  BY <1>1, <1>2, <1>3, <1>4, <1>5, Zenon DEF Read

LEMMA SelectOK ==
  ASSUME WorkOK, NEW w \in Workers, NEW slot \in Slots \cup {0},
         NEW rows \in SUBSET EntryType, Select(w, slot, rows)
  PROVE  WorkOK'
<1> DEFINE r == [Idle("none") EXCEPT !.pc = "look", !.slot = slot, !.rows = rows]
<1>1. Idle("none") \in WorkType
  BY IdleType DEF Replies
<1>2. r \in WorkType /\ r.pc = "look"
  BY <1>1 DEF WorkType, Labels, EntryType
<1>3. work' = [work EXCEPT ![w] = r]
  BY DEF Select
<1> QED
  BY <1>2, <1>3, ReplaceOK

LEMMA ShowOK ==
  ASSUME TypeOK, NEW w \in Workers, work[w].pc = "look", NEW row \in work[w].rows,
         NEW view \in {View(row.user, PictureOf(row.image)),
                       View(row.user, Unread), View(None, PictureOf(row.image))},
         Show(w, row, view)
  PROVE  WorkOK'
<1> DEFINE r == [work[w] EXCEPT !.shown = view, !.rows = @ \ {row}]
<1>1. work[w] \in WorkType /\ row \in EntryType /\ WorkOK
  BY DEF TypeOK, WorkOK, WorkType, EntryType
<1>2. PictureOf(row.image) \in Users \cup {None}
  <2>1. ASSUME row.image \in 1 .. Len(images) PROVE images[row.image] \in ImageRow
    BY <2>1 DEF TypeOK
  <2> QED
    BY <2>1 DEF PictureOf, ImageRow
<1>3. view \in [user : Users \cup {None}, owner : Users \cup {None, Unread}]
  BY <1>1, <1>2 DEF View, EntryType
<1>4. r \in WorkType /\ r.pc = "look"
  BY <1>1, <1>3 DEF WorkType
<1>5. work' = [work EXCEPT ![w] = r]
  BY DEF Show
<1> QED
  BY <1>1, <1>4, <1>5, ReplaceOK

\* Every table, session and worker keeps its type under every step.
THEOREM TypeCorrect == Spec => []TypeOK
<1>1. Init => TypeOK
  BY EntriesAssumption, IdleType DEF Init, TypeOK, WorkOK, Replies
<1>2. TypeOK /\ [Next]_vars => TypeOK'
  <2> SUFFICES ASSUME TypeOK, [Next]_vars PROVE TypeOK'
    OBVIOUS
  <2>0. /\ WorkOK
        /\ faults \in 0 .. MaxFaults
        /\ faults' \in {faults} \/ Fault => faults' \in 0 .. MaxFaults
    BY EntriesAssumption DEF TypeOK, Fault
  <2>1. ASSUME NEW w \in Workers, NEW u \in Users,
               NEW p \in Users \cup {None, Public, Refused},
               CreateContest(w, u, p)
        PROVE TypeOK'
    <3> DEFINE r == [Idle("none") EXCEPT !.pc = "insert", !.user = u, !.perm = p]
    <3>1. WorkOK'
      <4>1. CASE p = Refused
        BY <2>0, <2>1, <4>1, IdleType, ReplaceOK DEF CreateContest, Replies
      <4>2. CASE p # Refused
        <5>0. Idle("none") \in WorkType
          BY IdleType DEF Replies
        <5>1. r \in WorkType /\ r.user \in Users
          BY <4>2, <5>0 DEF WorkType, Labels
        <5> QED
          BY <2>0, <2>1, <4>2, <5>1, ReplaceOK DEF CreateContest
      <4> QED
        BY <4>1, <4>2
    <3> QED
      BY <3>1, <2>1 DEF TypeOK, CreateContest
  <2>2. ASSUME NEW w \in Workers, InsertContest(w) PROVE TypeOK'
    <3>1. WorkOK'
      BY <2>0, <2>2, GotoOK, AnswerOK DEF InsertContest, Labels, Replies
    <3>2. NewContest(work[w].user, work[w].perm) \in ContestRow
      BY <2>0, <2>2, NewContestType DEF WorkOK, WorkType, InsertContest
    <3>3. Append(contest, NewContest(work[w].user, work[w].perm)) \in Seq(ContestRow)
      BY <3>2 DEF TypeOK
    <3>4. Len(Append(contest, NewContest(work[w].user, work[w].perm))) \in Nat
      BY <3>3
    <3>5. contest' \in Seq(ContestRow)
      BY <3>3, <2>2 DEF TypeOK, InsertContest
    <3>6. lastId' \in [Workers -> Nat]
      BY <3>4, <2>2 DEF TypeOK, InsertContest
    <3> QED
      BY <3>1, <3>5, <3>6, <2>0, <2>2 DEF TypeOK, InsertContest
  <2>3. ASSUME NEW w \in Workers, ReadContestKey(w) PROVE TypeOK'
    <3> DEFINE r == [work[w] EXCEPT !.pc = "idle", !.reply = "key",
                                    !.contest = ContestKey(w)]
    <3>0. work[w] \in WorkType /\ ContestKey(w) \in Nat
      BY <2>0 DEF TypeOK, WorkOK, ContestKey
    <3>1. r \in WorkType /\ r.pc = "idle"
      BY <3>0 DEF WorkType, Labels, Replies
    <3>2. WorkOK'
      <4>1. CASE work' = [work EXCEPT ![w] = r]
        BY <2>0, <3>1, <4>1, ReplaceOK
      <4>2. CASE Answer(w, "1003")
        BY <2>0, <4>2, AnswerOK DEF Replies
      <4> QED
        BY <2>3, <4>1, <4>2 DEF ReadContestKey
    <3> QED
      BY <3>2, <2>0, <2>3 DEF TypeOK, ReadContestKey
  <2>4. ASSUME NEW w \in Workers, NEW u \in Users, NEW c \in 1 .. MaxRequests,
               NEW s \in Slots \cup {BadSlot}, UpdateImage(w, u, c, s)
        PROVE TypeOK'
    <3> DEFINE r == [Idle("none") EXCEPT !.pc = "check", !.user = u,
                                         !.contest = c, !.slot = s]
    <3>0. c \in Nat /\ s \in Slots \cup {0, BadSlot}
      BY EntriesAssumption
    <3>1. Idle("none") \in WorkType
      BY IdleType DEF Replies
    <3>2. r \in WorkType /\ r.user \in Users
      BY <3>0, <3>1 DEF WorkType, Labels
    <3>3. WorkOK'
      BY <2>0, <2>4, <3>2, ReplaceOK DEF UpdateImage
    <3> QED
      BY <3>3, <2>4 DEF TypeOK, UpdateImage
  <2>5. ASSUME NEW w \in Workers, CheckSlot(w) PROVE TypeOK'
    <3>1. WorkOK'
      BY <2>0, <2>5, GotoOK, AnswerOK DEF CheckSlot, Labels, Replies
    <3> QED
      BY <3>1, <2>0, <2>5 DEF TypeOK, CheckSlot
  <2>6. ASSUME NEW w \in Workers, InsertImage(w) PROVE TypeOK'
    <3>1. WorkOK'
      BY <2>0, <2>6, GotoOK, AnswerOK DEF InsertImage, Labels, Replies
    <3>2. \A of \in Nat : NewImage(work[w].user, of) \in ImageRow
      BY <2>0, <2>6 DEF WorkOK, InsertImage, NewImage, ImageRow
    <3>3. \A of \in Nat : Append(images, NewImage(work[w].user, of)) \in Seq(ImageRow)
      BY <3>2 DEF TypeOK
    <3>4. work[w].image \in Nat /\ Len(images) + 1 \in Nat
      BY <2>0 DEF TypeOK, WorkOK, WorkType
    <3> QED
      BY <3>1, <3>3, <3>4, <2>0, <2>6 DEF TypeOK, InsertImage
  <2>7. ASSUME NEW w \in Workers, ReadImageId(w) PROVE TypeOK'
    <3> DEFINE r == [work[w] EXCEPT !.pc = "thumb", !.image = ImageKey(w)]
               t == [work[w] EXCEPT !.pc = "update", !.thumb = ImageKey(w)]
    <3>0. work[w] \in WorkType /\ ImageKey(w) \in Nat
      BY <2>0 DEF TypeOK, WorkOK, ImageKey
    <3>1. WorkOK'
      <4>1. CASE work[w].pc = "imageid" /\ work' = [work EXCEPT ![w] = r]
        <5>0. work[w].user \in Users
          BY <2>0, <4>1 DEF WorkOK
        <5>1. r \in WorkType /\ r.user \in Users
          BY <3>0, <5>0 DEF WorkType, Labels
        <5> QED
          BY <2>0, <4>1, <5>1, ReplaceOK
      <4>2. CASE work[w].pc = "thumbid" /\ work' = [work EXCEPT ![w] = t]
        <5>0. work[w].user \in Users
          BY <2>0, <4>2 DEF WorkOK
        <5>1. t \in WorkType /\ t.user \in Users
          BY <3>0, <5>0 DEF WorkType, Labels
        <5> QED
          BY <2>0, <4>2, <5>1, ReplaceOK
      <4>3. CASE Answer(w, "999")
        BY <2>0, <4>3, AnswerOK DEF Replies
      <4> QED
        BY <2>7, <4>1, <4>2, <4>3 DEF ReadImageId
    <3> QED
      BY <3>1, <2>0, <2>7 DEF TypeOK, ReadImageId
  <2>8. ASSUME NEW w \in Workers, UpdateEntry(w) PROVE TypeOK'
    <3>1. WorkOK'
      BY <2>0, <2>8, AnswerOK DEF UpdateEntry, Replies
    <3>2. work[w].slot \in Slots =>
            Entered(work[w].contest, work[w].slot, work[w].user,
                    work[w].image, work[w].thumb) \in Seq(ContestRow)
      BY <2>0, <2>8, EnteredType DEF TypeOK, WorkOK, WorkType, UpdateEntry
    <3> QED
      BY <3>1, <3>2, <2>0, <2>8 DEF TypeOK, UpdateEntry
  <2>9. ASSUME NEW c \in 1 .. MaxRequests, Lock(c) PROVE TypeOK'
    <3> DEFINE row == [contest[c] EXCEPT !.perm = Locked]
    <3>0. c \in 1 .. Len(contest) /\ contest[c] \in ContestRow
      BY <2>9 DEF TypeOK, Lock, Exists
    <3>1. row \in ContestRow
      BY <3>0 DEF ContestRow
    <3>2. contest' = [contest EXCEPT ![c] = row]
      BY <2>9 DEF Lock
    <3>3. contest' \in Seq(ContestRow)
      BY <3>0, <3>1, <3>2, ExceptSeq DEF TypeOK
    <3> QED
      BY <3>3, <2>9 DEF TypeOK, Lock, WorkOK
  <2>10. CASE Crash
    <3>1. WorkOK'
      BY <2>10, IdleType DEF WorkOK, Crash, Replies
    <3> QED
      BY <3>1, <2>0, <2>10 DEF TypeOK, Crash
  <2>11. CASE UNCHANGED vars
    BY <2>11 DEF vars, TypeOK, WorkOK
  <2>12. ASSUME NEW w \in Workers, NEW slot \in Slots \cup {0},
                NEW rows \in SUBSET EntryType, Select(w, slot, rows)
         PROVE  TypeOK'
    <3>1. WorkOK'
      BY <2>0, <2>12, SelectOK
    <3> QED
      BY <3>1, <2>0, <2>12 DEF TypeOK, Select
  <2>13. ASSUME NEW w \in Workers, ShowEntry(w) PROVE TypeOK'
    <3>1. WorkOK'
      BY <2>0, <2>13, ShowOK, AnswerOK DEF ShowEntry, Replies
    <3> QED
      BY <3>1, <2>0, <2>13 DEF TypeOK, ShowEntry
  <2>14. ASSUME NEW w \in Workers, EndView(w) PROVE TypeOK'
    <3>1. WorkOK'
      BY <2>0, <2>14, AnswerOK DEF EndView, Replies
    <3> QED
      BY <3>1, <2>0, <2>14 DEF TypeOK, EndView
  <2>15. ASSUME NEW w \in Workers, ReadFails(w) PROVE TypeOK'
    <3>1. WorkOK'
      BY <2>0, <2>15, AnswerOK DEF ReadFails, Replies
    <3> QED
      BY <3>1, <2>0, <2>15 DEF TypeOK, ReadFails
  <2>16. ASSUME NEW w \in Workers, Read(w) PROVE TypeOK'
    <3>1. \A ss \in SUBSET Slots : \A cs :
            Pictures(cs, ss) \subseteq EntryType /\ Thumbs(cs) \subseteq EntryType
      BY EntriesType DEF TypeOK
    <3> QED
      BY <2>12, <2>13, <2>14, <2>15, <2>16, <3>1, ReadForms
  <2> QED
    BY <2>1, <2>2, <2>3, <2>4, <2>5, <2>6, <2>7, <2>8, <2>9, <2>10, <2>11, <2>16
    DEF Next, Step
<1> QED
  BY <1>1, <1>2, PTL DEF Spec

-----------------------------------------------------------------------------
\* An entry is whole because the upload in a worker's hands is: at every
\* statement of updateImage() the ids it holds name its own user's rows.

\* i is a full-size image of u.
FullSize(u, i) == i \in 1 .. Len(images) /\ images[i] = NewImage(u, i)

UploadOK(w) ==
  LET r == work[w]
  IN  /\ r.pc = "imageid" => FullSize(r.user, lastId[w])
      /\ r.pc = "thumb" => FullSize(r.user, r.image)
      /\ r.pc = "thumbid" => Upload(r.user, r.image, lastId[w])
      /\ r.pc = "update" => Upload(r.user, r.image, r.thumb)

UploadsOK == \A w \in Workers : UploadOK(w)

\* Rows are added to the table images at its end and never changed.
ImagesGrow == images' = images \/ \E row \in ImageRow : images' = Append(images, row)

LEMMA ImagesKept ==
  ASSUME images \in Seq(ImageRow), ImagesGrow
  PROVE  /\ Len(images) \in Nat /\ Len(images') \in Nat
         /\ Len(images) <= Len(images')
         /\ \A i \in 1 .. Len(images) : images'[i] = images[i]
BY AppendProperties DEF ImagesGrow

LEMMA UploadKept ==
  ASSUME images \in Seq(ImageRow), ImagesGrow, NEW u, NEW i, NEW t
  PROVE  /\ FullSize(u, i) => FullSize(u, i)'
         /\ Upload(u, i, t) => Upload(u, i, t)'
BY ImagesKept DEF FullSize, Upload

\* What a step of worker w leaves alone.
OthersSame(w) ==
  \A x \in Workers \ {w} : work'[x] = work[x] /\ lastId'[x] = lastId[x]

LEMMA OthersKept ==
  ASSUME images \in Seq(ImageRow), ImagesGrow, UploadsOK,
         NEW w \in Workers, OthersSame(w), UploadOK(w)'
  PROVE  UploadsOK'
<1>1. ASSUME NEW x \in Workers \ {w} PROVE UploadOK(x)'
  <2>1. work'[x] = work[x] /\ lastId'[x] = lastId[x] /\ UploadOK(x)
    BY DEF OthersSame, UploadsOK
  <2> QED
    BY <2>1, UploadKept DEF UploadOK
<1> QED
  BY <1>1 DEF UploadsOK

\* An entry of the next state that was there before is still whole.
EntryKept(c, s) ==
  /\ c \in 1 .. Len(contest)
  /\ contest'[c].user[s] = contest[c].user[s]
  /\ contest'[c].image[s] = contest[c].image[s]
  /\ contest'[c].thumb[s] = contest[c].thumb[s]

LEMMA EntriesKept ==
  ASSUME images \in Seq(ImageRow), ImagesGrow, EntryWhole,
         \A c \in 1 .. Len(contest'), s \in Slots :
           contest'[c].image[s] # None => EntryKept(c, s)
  PROVE  EntryWhole'
<1> SUFFICES ASSUME NEW c \in 1 .. Len(contest'), NEW s \in Slots,
                    contest'[c].image[s] # None
             PROVE  Upload(contest[c].user[s], contest[c].image[s],
                           contest[c].thumb[s])'
  BY DEF EntryWhole
<1> DEFINE u == contest[c].user[s]
           i == contest[c].image[s]
           t == contest[c].thumb[s]
           Kept == /\ i \in 1 .. Len(images') /\ t \in 1 .. Len(images') /\ i # t
                   /\ images'[i] = NewImage(u, i)
                   /\ images'[t] = NewImage(u, i)
<1>1. EntryKept(c, s)
  OBVIOUS
<1>2. Upload(u, i, t)
  BY <1>1 DEF EntryKept, EntryWhole
<1>3. Kept => Upload(contest[c].user[s], contest[c].image[s], contest[c].thumb[s])'
  BY <1>1, Zenon DEF EntryKept, Upload
<1>4. Kept
  <2> HIDE DEF u, i, t
  <2> QED
    BY <1>2, ImagesKept DEF Upload
<1> QED
  BY <1>3, <1>4

\* What each statement makes of its own worker's record.
LEMMA GotoMoves ==
  ASSUME WorkOK, NEW w \in Workers, NEW label, Goto(w, label)
  PROVE  /\ work'[w].pc = label
         /\ work'[w].user = work[w].user
         /\ work'[w].image = work[w].image
         /\ work'[w].thumb = work[w].thumb
         /\ work'[w].rows = work[w].rows /\ work'[w].shown = work[w].shown
         /\ \A x \in Workers \ {w} : work'[x] = work[x]
BY DEF WorkOK, WorkType, Goto

LEMMA AnswerMoves ==
  ASSUME WorkOK, NEW w \in Workers, NEW reply, Answer(w, reply)
  PROVE  /\ work'[w].pc = "idle"
         /\ work'[w].rows = {} /\ work'[w].shown = Blank
         /\ \A x \in Workers \ {w} : work'[x] = work[x]
BY DEF WorkOK, WorkType, Answer, Idle

\* insertImage() puts a row at the end of the table and its id in the session.
LEMMA InsertImageOK ==
  ASSUME TypeOK, NEW w \in Workers, UploadOK(w), InsertImage(w)
  PROVE  ImagesGrow /\ OthersSame(w) /\ UploadOK(w)'
<1> DEFINE id == Len(images) + 1
           Row(of) == NewImage(work[w].user, of)
<1>0. WorkOK /\ work[w].user \in Users /\ work[w].image \in Nat /\ id \in Nat
  <2>1. work[w] \in WorkType /\ WorkOK /\ images \in Seq(ImageRow)
    BY DEF TypeOK, WorkOK
  <2>2. work[w].pc \in {"image", "thumb"}
    BY DEF InsertImage
  <2>3. work[w].user \in Users
    BY <2>1, <2>2 DEF WorkOK
  <2>4. work[w].image \in Nat
    BY <2>1 DEF WorkType
  <2> QED
    BY <2>1, <2>3, <2>4
<1>1. \A of \in Nat : Row(of) \in ImageRow
  BY <1>0 DEF NewImage, ImageRow
<1>2. \A of \in Nat : /\ Len(Append(images, Row(of))) = id
                      /\ Append(images, Row(of))[id] = Row(of)
                      /\ \A i \in 1 .. Len(images) :
                           Append(images, Row(of))[i] = images[i]
  BY <1>1, AppendProperties DEF TypeOK
<1>3. CASE /\ work[w].pc = "image" /\ Goto(w, "imageid")
           /\ images' = Append(images, Row(id))
           /\ lastId' = [lastId EXCEPT ![w] = id]
  <2>1. ImagesGrow /\ OthersSame(w)
    BY <1>0, <1>1, <1>3, GotoMoves DEF ImagesGrow, OthersSame, TypeOK
  <2>2. lastId'[w] = id
    BY <1>3 DEF TypeOK
  <2>3. FullSize(work[w].user, lastId[w])'
    BY <1>0, <1>2, <1>3, <2>2, GotoMoves DEF FullSize
  <2> QED
    BY <1>0, <1>3, <2>1, <2>2, <2>3, GotoMoves DEF UploadOK, FullSize
<1>4. CASE /\ work[w].pc = "thumb" /\ Goto(w, "thumbid")
           /\ images' = Append(images, Row(work[w].image))
           /\ lastId' = [lastId EXCEPT ![w] = id]
  <2>1. ImagesGrow /\ OthersSame(w)
    BY <1>0, <1>1, <1>4, GotoMoves DEF ImagesGrow, OthersSame, TypeOK
  <2>2. lastId'[w] = id
    BY <1>4 DEF TypeOK
  <2>3. FullSize(work[w].user, work[w].image)
    BY <1>4 DEF UploadOK
  <2>4. Upload(work[w].user, work[w].image, lastId[w])'
    BY <1>0, <1>2, <1>4, <2>2, <2>3, GotoMoves DEF FullSize, Upload
  <2> QED
    BY <1>0, <1>4, <2>1, <2>4, GotoMoves DEF UploadOK
<1>5. CASE Answer(w, "999") /\ UNCHANGED lastId
           /\ images' \in {images} \cup {Append(images, Row(of)) : of \in Nat}
  <2>1. ImagesGrow /\ OthersSame(w)
    BY <1>0, <1>1, <1>5, AnswerMoves DEF ImagesGrow, OthersSame
  <2> QED
    BY <1>0, <1>5, <2>1, AnswerMoves DEF UploadOK
<1> QED
  BY <1>0, <1>3, <1>4, <1>5 DEF InsertImage

\* SELECT LAST_INSERT_ID() of a session finds the row its worker inserted.
LEMMA ReadImageIdOK ==
  ASSUME TypeOK, NEW w \in Workers, UploadOK(w), ReadImageId(w)
  PROVE  ImagesGrow /\ OthersSame(w) /\ UploadOK(w)'
<1>0. WorkOK /\ work[w] \in WorkType
  BY DEF TypeOK, WorkOK
<1>1. CASE /\ work[w].pc = "imageid"
           /\ work' = [work EXCEPT ![w].pc = "thumb", ![w].image = ImageKey(w)]
  <2>1. /\ OthersSame(w) /\ work'[w].pc = "thumb"
        /\ work'[w].image = lastId[w] /\ work'[w].user = work[w].user
    BY <1>0, <1>1 DEF ReadImageId, ImageKey, OthersSame, WorkOK, WorkType
  <2> QED
    BY <1>1, <2>1 DEF ReadImageId, UploadOK, ImagesGrow, FullSize
<1>2. CASE /\ work[w].pc = "thumbid"
           /\ work' = [work EXCEPT ![w].pc = "update", ![w].thumb = ImageKey(w)]
  <2>1. /\ OthersSame(w) /\ work'[w].pc = "update"
        /\ work'[w].thumb = lastId[w] /\ work'[w].user = work[w].user
        /\ work'[w].image = work[w].image
    BY <1>0, <1>2 DEF ReadImageId, ImageKey, OthersSame, WorkOK, WorkType
  <2> QED
    BY <1>2, <2>1 DEF ReadImageId, UploadOK, ImagesGrow, Upload
<1>3. CASE Answer(w, "999")
  BY <1>0, <1>3, AnswerMoves DEF ReadImageId, UploadOK, ImagesGrow, OthersSame
<1> QED
  BY <1>1, <1>2, <1>3 DEF ReadImageId

\* The other statements hold no image, before or after.
LEMMA NoUploadOK ==
  ASSUME TypeOK, NEW w \in Workers,
         \/ InsertContest(w) \/ ReadContestKey(w) \/ CheckSlot(w) \/ UpdateEntry(w)
         \/ Read(w)
         \/ \E u \in Users, p \in Users \cup {None, Public, Refused} :
              CreateContest(w, u, p)
         \/ \E u \in Users, c \in 1 .. MaxRequests, s \in Slots \cup {BadSlot} :
              UpdateImage(w, u, c, s)
  PROVE  ImagesGrow /\ OthersSame(w) /\ UploadOK(w)'
<1>0. WorkOK /\ work[w] \in WorkType /\ lastId \in [Workers -> Nat]
  BY DEF TypeOK, WorkOK
<1>1. UNCHANGED images
  BY ReadForms
  DEF InsertContest, ReadContestKey, CheckSlot, UpdateEntry, CreateContest, UpdateImage,
      Select, ReadFails, ShowEntry, EndView
<1>2. OthersSame(w) /\ work'[w].pc \in {"idle", "insert", "key", "check", "image", "look"}
  <2>1. CASE InsertContest(w)
    BY <1>0, <2>1, GotoMoves, AnswerMoves DEF InsertContest, OthersSame
  <2>2. CASE ReadContestKey(w)
    BY <1>0, <2>2, AnswerMoves DEF ReadContestKey, OthersSame, WorkOK, WorkType
  <2>3. CASE CheckSlot(w)
    BY <1>0, <2>3, GotoMoves, AnswerMoves DEF CheckSlot, OthersSame
  <2>4. CASE UpdateEntry(w)
    BY <1>0, <2>4, AnswerMoves DEF UpdateEntry, OthersSame
  <2>5. CASE \E u \in Users, p \in Users \cup {None, Public, Refused} :
               CreateContest(w, u, p)
    <3>1. PICK u \in Users, p \in Users \cup {None, Public, Refused} :
            CreateContest(w, u, p)
      BY <2>5
    <3>2. work'[w].pc \in {"idle", "insert"}
      BY <1>0, <3>1 DEF CreateContest, WorkOK, Idle
    <3> QED
      BY <1>0, <3>1, <3>2 DEF CreateContest, OthersSame, WorkOK
  <2>6. CASE \E u \in Users, c \in 1 .. MaxRequests, s \in Slots \cup {BadSlot} :
               UpdateImage(w, u, c, s)
    <3>1. PICK u \in Users, c \in 1 .. MaxRequests, s \in Slots \cup {BadSlot} :
            UpdateImage(w, u, c, s)
      BY <2>6
    <3>2. work'[w].pc = "check"
      BY <1>0, <3>1 DEF UpdateImage, WorkOK, Idle
    <3> QED
      BY <1>0, <3>1, <3>2 DEF UpdateImage, OthersSame, WorkOK
  <2>7. CASE Read(w)
    <3>1. ASSUME NEW slot, NEW rows, Select(w, slot, rows)
          PROVE  OthersSame(w) /\ work'[w].pc \in {"idle", "look"}
      BY <1>0, <3>1 DEF Select, OthersSame, WorkOK, Idle
    <3>2. CASE ShowEntry(w)
      BY <1>0, <3>2, AnswerMoves DEF ShowEntry, Show, OthersSame, WorkOK, WorkType
    <3>3. CASE EndView(w)
      BY <1>0, <3>3, AnswerMoves DEF EndView, OthersSame
    <3>4. CASE ReadFails(w)
      BY <1>0, <3>4, AnswerMoves DEF ReadFails, OthersSame
    <3> QED
      BY <2>7, <3>1, <3>2, <3>3, <3>4, ReadForms
  <2> QED
    BY <2>1, <2>2, <2>3, <2>4, <2>5, <2>6, <2>7
<1> QED
  BY <1>1, <1>2 DEF UploadOK, ImagesGrow

LEMMA UploadsCorrect == Spec => []UploadsOK
<1>1. Init => UploadsOK
  BY DEF Init, UploadsOK, UploadOK, Idle
<1>2. TypeOK /\ UploadsOK /\ [Next]_vars => UploadsOK'
  <2> SUFFICES ASSUME TypeOK, UploadsOK, [Next]_vars PROVE UploadsOK'
    OBVIOUS
  <2>1. ASSUME NEW w \in Workers, ImagesGrow, OthersSame(w), UploadOK(w)'
        PROVE  UploadsOK'
    BY <2>1, OthersKept DEF TypeOK
  <2>2. CASE Crash
    BY <2>2 DEF Crash, Idle, UploadsOK, UploadOK
  <2>3. CASE \E c \in 1 .. MaxRequests : Lock(c)
    BY <2>3 DEF Lock, UploadsOK, UploadOK, Upload, FullSize
  <2>4. CASE UNCHANGED vars
    BY <2>4 DEF vars, UploadsOK, UploadOK, Upload, FullSize
  <2> QED
    BY <2>1, <2>2, <2>3, <2>4, InsertImageOK, ReadImageIdOK, NoUploadOK
    DEF Next, Step, UploadsOK
<1> QED
  BY <1>1, <1>2, TypeCorrect, PTL DEF Spec

\* What updateImage()'s UPDATE makes of the rows of contest.
LEMMA EnteredRows ==
  ASSUME contest \in Seq(ContestRow), NEW c \in 1 .. Len(contest),
         NEW s \in Slots, NEW u, NEW i, NEW t,
         NEW d \in 1 .. Len(contest), NEW r \in Slots,
         NEW row, row = Entered(c, s, u, i, t)[d]
  PROVE  /\ row.perm = contest[d].perm
         /\ IF d = c /\ r = s
            THEN row.user[r] = u /\ row.image[r] = i /\ row.thumb[r] = t
            ELSE /\ row.user[r] = contest[d].user[r]
                 /\ row.image[r] = contest[d].image[r]
                 /\ row.thumb[r] = contest[d].thumb[r]
<1>1. contest[d] \in ContestRow /\ contest[c] \in ContestRow
  OBVIOUS
<1>2. Entered(c, s, u, i, t)[d] =
        IF d = c THEN EnteredRow(contest[c], s, u, i, t) ELSE contest[d]
  BY DEF Entered, Exists
<1>3. ASSUME NEW old \in ContestRow
      PROVE  /\ EnteredRow(old, s, u, i, t).perm = old.perm
             /\ EnteredRow(old, s, u, i, t).user = [old.user EXCEPT ![s] = u]
             /\ EnteredRow(old, s, u, i, t).image = [old.image EXCEPT ![s] = i]
             /\ EnteredRow(old, s, u, i, t).thumb = [old.thumb EXCEPT ![s] = t]
  BY DEF EnteredRow, ContestRow
<1>4. /\ contest[c].user \in [Slots -> Users \cup {None}]
      /\ contest[c].image \in [Slots -> Nat]
      /\ contest[c].thumb \in [Slots -> Nat]
  BY <1>1 DEF ContestRow
<1>5. CASE d = c
  <2>1. /\ row.perm = contest[c].perm
        /\ row.user = [contest[c].user EXCEPT ![s] = u]
        /\ row.image = [contest[c].image EXCEPT ![s] = i]
        /\ row.thumb = [contest[c].thumb EXCEPT ![s] = t]
    BY <1>1, <1>2, <1>3, <1>5
  <2> QED
    BY <1>4, <1>5, <2>1
<1>6. CASE d # c
  BY <1>2, <1>6
<1> QED
  BY <1>5, <1>6

LEMMA EnteredLen ==
  ASSUME contest \in Seq(ContestRow), NEW c, NEW s, NEW u, NEW i, NEW t
  PROVE  Len(Entered(c, s, u, i, t)) = Len(contest)
BY DEF Entered, Exists

\* Every contest shows, in each slot, one upload of the user of that slot,
\* whatever the interleaving of uploads and whichever statements fail.
THEOREM EntriesWhole == Spec => []EntryWhole
<1>1. Init => EntryWhole
  BY DEF Init, EntryWhole
<1>2. TypeOK /\ UploadsOK /\ EntryWhole /\ [Next]_vars => EntryWhole'
  <2> SUFFICES ASSUME TypeOK, UploadsOK, EntryWhole, [Next]_vars
               PROVE  EntryWhole'
    OBVIOUS
  <2>0. images \in Seq(ImageRow) /\ contest \in Seq(ContestRow) /\ WorkOK
    BY DEF TypeOK
  <2>1. ASSUME ImagesGrow, UNCHANGED contest PROVE EntryWhole'
    BY <2>0, <2>1, EntriesKept DEF EntryKept
  <2>2. ASSUME NEW w \in Workers, InsertContest(w) PROVE EntryWhole'
    <3> DEFINE new == NewContest(work[w].user, work[w].perm)
    <3>1. new \in ContestRow
      BY <2>0, <2>2, NewContestType DEF WorkOK, WorkType, InsertContest
    <3>2. contest' \in {contest, Append(contest, new)} /\ ImagesGrow
      BY <2>2 DEF InsertContest, ImagesGrow
    <3>3. ASSUME NEW c \in 1 .. Len(contest'), NEW s \in Slots,
                 contest'[c].image[s] # None
          PROVE  EntryKept(c, s)
      <4>1. CASE c \in 1 .. Len(contest)
        BY <2>0, <3>1, <3>2, <4>1, AppendProperties DEF EntryKept
      <4>2. CASE c \notin 1 .. Len(contest)
        <5>1. contest'[c] = new
          BY <2>0, <3>1, <3>2, <4>2, AppendProperties
        <5> QED
          BY <3>3, <5>1 DEF NewContest
      <4> QED
        BY <4>1, <4>2
    <3> QED
      BY <2>0, <3>2, <3>3, EntriesKept
  <2>3. ASSUME NEW w \in Workers, UpdateEntry(w) PROVE EntryWhole'
    <3> DEFINE r == work[w]
               entered == Entered(r.contest, r.slot, r.user, r.image, r.thumb)
    <3>1. UNCHANGED images /\ ImagesGrow
      BY <2>3 DEF UpdateEntry, ImagesGrow
    <3>2. CASE UNCHANGED contest
      BY <2>1, <3>1, <3>2
    <3>3. CASE r.slot \in Slots /\ contest' = entered /\ Exists(r.contest)
      <4>1. Upload(r.user, r.image, r.thumb)
        BY <2>3 DEF UpdateEntry, UploadsOK, UploadOK
      <4>2. ASSUME NEW c \in 1 .. Len(contest'), NEW s \in Slots,
                   contest'[c].image[s] # None
            PROVE  Upload(contest'[c].user[s], contest'[c].image[s],
                          contest'[c].thumb[s])
        <5>1. c \in 1 .. Len(contest)
          BY <2>0, <3>3, EnteredLen
        <5>2. CASE c = r.contest /\ s = r.slot
          <6>1. /\ contest'[c].user[s] = r.user
                /\ contest'[c].image[s] = r.image
                /\ contest'[c].thumb[s] = r.thumb
            <7>1. r.contest \in 1 .. Len(contest) /\ r.slot \in Slots
              BY <3>3 DEF Exists
            <7>2. contest'[c] = Entered(r.contest, r.slot, r.user, r.image, r.thumb)[c]
              BY <3>3
            <7> HIDE DEF r
            <7> QED
              BY <2>0, <5>1, <5>2, <7>1, <7>2, EnteredRows
          <6> QED
            BY <4>1, <6>1
        <5>3. CASE ~(c = r.contest /\ s = r.slot)
          <6>1. EntryKept(c, s)
            BY <2>0, <3>3, <5>1, <5>3, EnteredRows DEF Exists, EntryKept
          <6> QED
            BY <4>2, <6>1 DEF EntryWhole, EntryKept
        <5> QED
          BY <5>2, <5>3
      <4> QED
        BY <3>1, <4>2 DEF EntryWhole, Upload
    <3> QED
      BY <2>3, <3>2, <3>3 DEF UpdateEntry, Entered
  <2>4. ASSUME NEW c \in 1 .. MaxRequests, Lock(c) PROVE EntryWhole'
    <3>1. /\ Len(contest') = Len(contest)
          /\ \A d \in 1 .. Len(contest), s \in Slots : EntryKept(d, s)
      BY <2>0, <2>4 DEF Lock, Exists, EntryKept, ContestRow
    <3> QED
      BY <2>0, <2>4, <3>1, EntriesKept DEF Lock, ImagesGrow
  <2>5. CASE Crash \/ UNCHANGED vars
    BY <2>1, <2>5 DEF Crash, vars, ImagesGrow
  <2>6. ASSUME NEW w \in Workers, InsertImage(w) PROVE EntryWhole'
    BY <2>1, <2>6, InsertImageOK DEF UploadsOK, InsertImage
  <2>7. ASSUME NEW w \in Workers,
               \/ ReadContestKey(w) \/ CheckSlot(w) \/ ReadImageId(w) \/ Read(w)
               \/ \E u \in Users, p \in Users \cup {None, Public, Refused} :
                    CreateContest(w, u, p)
               \/ \E u \in Users, c \in 1 .. MaxRequests, s \in Slots \cup {BadSlot} :
                    UpdateImage(w, u, c, s)
        PROVE EntryWhole'
    BY <2>1, <2>7, ReadForms DEF ReadContestKey, CheckSlot, ReadImageId,
       CreateContest, UpdateImage, ImagesGrow, Select, ReadFails, ShowEntry, EndView
  <2> QED
    BY <2>2, <2>3, <2>4, <2>5, <2>6, <2>7 DEF Next, Step
<1> QED
  BY <1>1, <1>2, TypeCorrect, UploadsCorrect, PTL DEF Spec

-----------------------------------------------------------------------------
\* A reader is shown whole entries because the rows it took name pictures that
\* are never changed or deleted, however long it takes to look them up.

ShowsOwn(row) == /\ row.image \in 1 .. Len(images)
                 /\ images[row.image].owner = row.user /\ row.user \in Users

ViewOK(view) == view # Blank => \/ view.owner \in {view.user, Unread}
                                \/ view.user = None /\ view.owner \in Users

ReaderOK(w) == (\A row \in work[w].rows : ShowsOwn(row)) /\ ViewOK(work[w].shown)

ReadersOK == \A w \in Workers : ReaderOK(w)

\* Rows that a worker keeps stay right, whatever is inserted.
LEMMA ReaderKept ==
  ASSUME images \in Seq(ImageRow), ImagesGrow, NEW w \in Workers, ReaderOK(w),
         work'[w].rows \subseteq work[w].rows,
         work'[w].shown \in {work[w].shown, Blank}
  PROVE  ReaderOK(w)'
BY ImagesKept DEF ReaderOK, ShowsOwn, ViewOK

\* The rows a SELECT takes are entries, and those are whole.
LEMMA TakenOwn ==
  ASSUME contest \in Seq(ContestRow), EntryWhole, NEW cs, NEW ss \in SUBSET Slots,
         images \in Seq(ImageRow)
  PROVE  \A row \in Pictures(cs, ss) \cup Thumbs(cs) : ShowsOwn(row)
<1>1. ASSUME NEW e \in Taken(cs, ss) \cup Taken(cs, Slots)
      PROVE  /\ ShowsOwn([user |-> contest[e[1]].user[e[2]],
                          image |-> contest[e[1]].image[e[2]]])
             /\ ShowsOwn([user |-> contest[e[1]].user[e[2]],
                          image |-> contest[e[1]].thumb[e[2]]])
  <2> DEFINE u == contest[e[1]].user[e[2]]
             i == contest[e[1]].image[e[2]]
             t == contest[e[1]].thumb[e[2]]
  <2>1. e[1] \in 1 .. Len(contest) /\ e[2] \in Slots /\ i # None
    BY DEF Taken
  <2>2. Upload(u, i, t)
    BY <2>1 DEF EntryWhole
  <2>3. /\ i \in 1 .. Len(images) /\ t \in 1 .. Len(images)
        /\ images[i].owner = u /\ images[t].owner = u
    <3> HIDE DEF u, i, t
    <3> QED
      BY <2>2 DEF Upload, NewImage
  <2>4. u \in Users
    <3>1. images[i] \in ImageRow
      BY <2>3
    <3> QED
      BY <2>3, <3>1 DEF ImageRow
  <2> QED
    BY <2>3, <2>4 DEF ShowsOwn
<1> QED
  BY <1>1 DEF Pictures, Thumbs

\* The statements that do not read contests leave a worker no new rows.
LEMMA NoNewRows ==
  ASSUME TypeOK, NEW w \in Workers,
         \/ Step(w) \/ EndView(w)
         \/ \E u \in Users, p \in Users \cup {None, Public, Refused} :
              CreateContest(w, u, p)
         \/ \E u \in Users, c \in 1 .. MaxRequests, s \in Slots \cup {BadSlot} :
              UpdateImage(w, u, c, s)
  PROVE  /\ work'[w].rows \subseteq work[w].rows
         /\ work'[w].shown \in {work[w].shown, Blank}
<1>0. WorkOK /\ work[w] \in WorkType
  BY DEF TypeOK, WorkOK
<1>1. ASSUME NEW label, Goto(w, label)
      PROVE  work'[w].rows = work[w].rows /\ work'[w].shown = work[w].shown
  BY <1>0, <1>1, GotoMoves
<1>2. ASSUME NEW reply, Answer(w, reply)
      PROVE  work'[w].rows = {} /\ work'[w].shown = Blank
  BY <1>0, <1>2, AnswerMoves
<1>3. CASE ReadContestKey(w) \/ ReadImageId(w)
  BY <1>0, <1>2, <1>3 DEF ReadContestKey, ReadImageId, WorkOK, WorkType
<1>4. CASE InsertContest(w) \/ CheckSlot(w) \/ InsertImage(w) \/ UpdateEntry(w)
           \/ EndView(w)
  BY <1>1, <1>2, <1>4, Zenon
  DEF InsertContest, CheckSlot, InsertImage, UpdateEntry, EndView
<1>5. CASE \E u \in Users, p \in Users \cup {None, Public, Refused} :
             CreateContest(w, u, p)
  <2>1. PICK u \in Users, p \in Users \cup {None, Public, Refused} :
          CreateContest(w, u, p)
    BY <1>5
  <2>2. work'[w].rows = {} /\ work'[w].shown = Blank
    BY <1>0, <2>1 DEF CreateContest, Idle, WorkOK
  <2> QED
    BY <2>2
<1>6. CASE \E u \in Users, c \in 1 .. MaxRequests, s \in Slots \cup {BadSlot} :
             UpdateImage(w, u, c, s)
  <2>1. PICK u \in Users, c \in 1 .. MaxRequests, s \in Slots \cup {BadSlot} :
          UpdateImage(w, u, c, s)
    BY <1>6
  <2>2. work'[w].rows = {} /\ work'[w].shown = Blank
    BY <1>0, <2>1 DEF UpdateImage, Idle, WorkOK
  <2> QED
    BY <2>2
<1> QED
  BY <1>3, <1>4, <1>5, <1>6 DEF Step

\* A reader's own statements.
LEMMA ReadOK ==
  ASSUME TypeOK, EntryWhole, NEW w \in Workers, ReaderOK(w), Read(w)
  PROVE  ReaderOK(w)'
<1>0. /\ WorkOK /\ work[w] \in WorkType
      /\ images \in Seq(ImageRow) /\ contest \in Seq(ContestRow)
  BY DEF TypeOK, WorkOK
<1>1. ASSUME NEW slot, NEW rows, \A row \in rows : ShowsOwn(row),
             Select(w, slot, rows)
      PROVE  ReaderOK(w)'
  <2>1. images' = images /\ work'[w].rows = rows /\ work'[w].shown = Blank
    <3> DEFINE r == [Idle("none") EXCEPT !.pc = "look", !.slot = slot, !.rows = rows]
    <3>1. r.rows = rows /\ r.shown = Blank
      BY DEF Idle
    <3>2. work' = [work EXCEPT ![w] = r]
      BY <1>1, Zenon DEF Select, r
    <3> HIDE DEF r
    <3> QED BY <1>0, <1>1, <3>1, <3>2 DEF Select, WorkOK
  <2> QED
    BY <1>1, <2>1 DEF ReaderOK, ShowsOwn, ViewOK
<1>2. CASE EndView(w)
  BY <1>0, <1>2, NoNewRows, ReaderKept DEF EndView, ImagesGrow
<1>6. CASE ReadFails(w)
  <2>1. images' = images /\ work'[w].rows = {} /\ work'[w].shown = Blank
    BY <1>0, <1>6, AnswerMoves DEF ReadFails
  <2> QED
    BY <2>1 DEF ReaderOK, ViewOK
<1>3. CASE ShowEntry(w)
  <2>1. ASSUME NEW row \in work[w].rows,
               NEW view \in {View(row.user, PictureOf(row.image)),
                             View(row.user, Unread), View(None, PictureOf(row.image))},
               Show(w, row, view)
        PROVE  ReaderOK(w)'
    <3>1. /\ images' = images /\ work'[w].shown = view
          /\ work'[w].rows \subseteq work[w].rows
      BY <1>0, <1>3, <2>1 DEF Show, ShowEntry, WorkOK, WorkType
    <3>2. ShowsOwn(row) /\ PictureOf(row.image) = row.user
      BY DEF ReaderOK, ShowsOwn, PictureOf
    <3>3. ViewOK(view)
      BY <3>2 DEF ViewOK, View, ShowsOwn
    <3> QED
      BY <3>1, <3>3 DEF ReaderOK, ShowsOwn, ViewOK
  <2>2. CASE Answer(w, "1003")
    <3>1. images' = images /\ work'[w].rows = {} /\ work'[w].shown = Blank
      BY <1>0, <1>3, <2>2, AnswerMoves DEF ShowEntry
    <3> QED
      BY <3>1 DEF ReaderOK, ViewOK
  <2> QED
    BY <1>3, <2>1, <2>2 DEF ShowEntry
<1>4. \A ss \in SUBSET Slots : \A cs : \A row \in Pictures(cs, ss) \cup Thumbs(cs) :
        ShowsOwn(row)
  BY <1>0, TakenOwn
<1>5. \A ss \in SUBSET Slots : \A cs : /\ \A row \in Pictures(cs, ss) : ShowsOwn(row)
                                      /\ \A row \in Thumbs(cs) : ShowsOwn(row)
  BY <1>4
<1> QED
  BY <1>1, <1>2, <1>3, <1>5, <1>6, ReadForms, Zenon

\* Whoever lists or opens contests is shown each user's own pictures, also
\* while they are replaced, and whichever statements fail.
THEOREM ViewsWhole == Spec => []ViewWhole
<1>1. Init => ReadersOK
  BY DEF Init, ReadersOK, ReaderOK, ViewOK, Idle
<1>2. TypeOK /\ UploadsOK /\ EntryWhole /\ ReadersOK /\ [Next]_vars => ReadersOK'
  <2> SUFFICES ASSUME TypeOK, UploadsOK, EntryWhole, ReadersOK, [Next]_vars
               PROVE  ReadersOK'
    OBVIOUS
  <2>0. images \in Seq(ImageRow)
    BY DEF TypeOK
  <2>1. ASSUME NEW w \in Workers, ImagesGrow, OthersSame(w), ReaderOK(w)'
        PROVE  ReadersOK'
    <3>1. ASSUME NEW x \in Workers, x # w PROVE ReaderOK(x)'
      BY <2>0, <2>1, <3>1, ReaderKept DEF OthersSame, ReadersOK
    <3> QED
      BY <2>1, <3>1 DEF ReadersOK
  <2>2. ASSUME NEW w \in Workers, Step(w) \/ Read(w)
               \/ (\E u \in Users, p \in Users \cup {None, Public, Refused} :
                     CreateContest(w, u, p))
               \/ (\E u \in Users, c \in 1 .. MaxRequests, s \in Slots \cup {BadSlot} :
                     UpdateImage(w, u, c, s))
        PROVE  ReadersOK'
    <3>1. ImagesGrow /\ OthersSame(w)
      BY <2>2, InsertImageOK, ReadImageIdOK, NoUploadOK DEF UploadsOK, Step
    <3>2. ReaderOK(w)'
      <4>1. CASE Read(w)
        BY <4>1, ReadOK DEF ReadersOK
      <4>2. CASE ~Read(w)
        BY <2>0, <2>2, <3>1, <4>2, NoNewRows, ReaderKept DEF ReadersOK
      <4> QED
        BY <4>1, <4>2
    <3> QED
      BY <2>1, <3>1, <3>2
  <2>3. CASE Crash
    BY <2>3 DEF Crash, ReadersOK, ReaderOK, ViewOK, Idle
  <2>4. CASE (\E c \in 1 .. MaxRequests : Lock(c)) \/ UNCHANGED vars
    BY <2>4 DEF Lock, vars, ReadersOK, ReaderOK, ShowsOwn
  <2> QED
    BY <2>2, <2>3, <2>4 DEF Next
<1>3. ReadersOK => ViewWhole
  BY DEF ReadersOK, ReaderOK, ViewOK, ViewWhole
<1> QED
  BY <1>1, <1>2, <1>3, TypeCorrect, UploadsCorrect, EntriesWhole, PTL DEF Spec

-----------------------------------------------------------------------------
\* What a step does to the request of its own worker, as far as the contest it
\* is about is concerned.
Begun == {"image", "imageid", "thumb", "thumbid", "update"}
HasKey(w) == work[w].pc = "key" \/ (work[w].pc = "idle" /\ work[w].reply = "key")
Key(w) == IF work[w].pc = "key" THEN lastId[w] ELSE work[w].contest

SameRequest(w) ==
  /\ work'[w].contest = work[w].contest /\ work'[w].slot = work[w].slot
  /\ work'[w].user = work[w].user
Ends(w) == work'[w].pc \notin {"check"} \cup Begun /\ ~HasKey(w)'
Goes(w) == work[w].pc \in Begun /\ work'[w].pc \in Begun /\ SameRequest(w)
Passes(w) ==
  /\ work[w].pc = "check" /\ work'[w].pc = "image" /\ SameRequest(w)
  /\ Exists(work[w].contest) =>
       Allowed(contest[work[w].contest], work[w].user, work[w].slot)
  /\ UNCHANGED contest
Enters(w) ==
  /\ work'[w].pc = "check" /\ work'[w].contest \in 1 .. MaxRequests
  /\ AnyContestId \/ Exists(work'[w].contest)
Inserts(w) ==
  /\ work'[w].pc = "key" /\ lastId'[w] = Len(contest')
  /\ work'[w].user \in Users /\ OthersSame(w)
  /\ \E p \in Users \cup {None, Public} :
       contest' = Append(contest, NewContest(work'[w].user, p))
Takes(w) ==
  /\ work[w].pc = "key" /\ work'[w].pc = "idle"
  /\ work'[w].contest = lastId[w] /\ work'[w].user = work[w].user
Moves(w) ==
  Ends(w) \/ Goes(w) \/ Passes(w) \/ Enters(w) \/ Inserts(w) \/ Takes(w)

\* What a request does besides the tables.
Acts(w) ==
  \/ Step(w) \/ Read(w)
  \/ \E u \in Users, p \in Users \cup {None, Public, Refused} : CreateContest(w, u, p)
  \/ \E u \in Users, c \in 1 .. MaxRequests, s \in Slots \cup {BadSlot} :
       UpdateImage(w, u, c, s)

LEMMA GotoSame ==
  ASSUME WorkOK, NEW w \in Workers, NEW label, Goto(w, label)
  PROVE  work'[w].pc = label /\ SameRequest(w)
BY DEF WorkOK, WorkType, Goto, SameRequest

LEMMA AnswerEnds ==
  ASSUME WorkOK, NEW w \in Workers, NEW reply, reply # "key", Answer(w, reply)
  PROVE  Ends(w)
BY DEF WorkOK, WorkType, Answer, Idle, Ends, Begun, HasKey

LEMMA StepMoves == ASSUME TypeOK, NEW w \in Workers, Step(w) PROVE Moves(w)
<1>0. WorkOK /\ work[w] \in WorkType /\ lastId \in [Workers -> Nat]
  BY DEF TypeOK, WorkOK
<1>1. CASE InsertContest(w)
  <2>1. CASE /\ contest' = Append(contest, NewContest(work[w].user, work[w].perm))
             /\ lastId' = [lastId EXCEPT ![w] = Len(contest')]
             /\ Goto(w, "key")
    <3>1. /\ work'[w].pc = "key" /\ work'[w].user = work[w].user
          /\ lastId'[w] = Len(contest')
      BY <1>0, <2>1, GotoSame DEF SameRequest
    <3>2. work[w].user \in Users /\ work[w].perm \in Users \cup {None, Public}
      BY <1>0, <1>1 DEF InsertContest, WorkOK, WorkType
    <3>3. OthersSame(w)
      BY <1>1, NoUploadOK
    <3> QED
      BY <2>1, <3>1, <3>2, <3>3 DEF Inserts, Moves
  <2>2. CASE Answer(w, "1013") \/ Answer(w, "1003")
    BY <1>0, <2>2, AnswerEnds DEF Moves
  <2> QED
    BY <1>1, <2>1, <2>2 DEF InsertContest
<1>2. CASE ReadContestKey(w)
  <2>1. CASE work' = [work EXCEPT ![w].pc = "idle", ![w].reply = "key",
                                  ![w].contest = ContestKey(w)]
    BY <1>0, <1>2, <2>1 DEF ReadContestKey, ContestKey, Takes, Moves, WorkOK, WorkType
  <2>2. CASE Answer(w, "1003")
    BY <1>0, <2>2, AnswerEnds DEF Moves
  <2> QED
    BY <1>2, <2>1, <2>2 DEF ReadContestKey
<1>3. CASE CheckSlot(w)
  <2>1. CASE /\ Goto(w, "image")
             /\ Exists(work[w].contest) =>
                  Allowed(contest[work[w].contest], work[w].user, work[w].slot)
    BY <1>0, <1>3, <2>1, GotoSame DEF CheckSlot, Passes, Moves
  <2>2. CASE \E reply \in {"1000", "1002", "1012"} : Answer(w, reply)
    BY <1>0, <2>2, AnswerEnds DEF Moves
  <2> QED
    BY <1>3, <2>1, <2>2 DEF CheckSlot
<1>4. CASE InsertImage(w)
  <2>1. CASE Answer(w, "999")
    BY <1>0, <2>1, AnswerEnds DEF Moves
  <2>2. CASE work[w].pc \in Begun /\ (Goto(w, "imageid") \/ Goto(w, "thumbid"))
    BY <1>0, <2>2, GotoSame DEF Goes, Moves, Begun
  <2> QED
    BY <1>4, <2>1, <2>2 DEF InsertImage, Begun
<1>5. CASE ReadImageId(w)
  <2>1. CASE Answer(w, "999")
    BY <1>0, <2>1, AnswerEnds DEF Moves
  <2>2. CASE /\ work[w].pc = "imageid"
             /\ work' = [work EXCEPT ![w].pc = "thumb", ![w].image = ImageKey(w)]
    BY <1>0, <2>2 DEF Goes, Moves, Begun, SameRequest, WorkOK, WorkType
  <2>3. CASE /\ work[w].pc = "thumbid"
             /\ work' = [work EXCEPT ![w].pc = "update", ![w].thumb = ImageKey(w)]
    BY <1>0, <2>3 DEF Goes, Moves, Begun, SameRequest, WorkOK, WorkType
  <2> QED
    BY <1>5, <2>1, <2>2, <2>3 DEF ReadImageId
<1>6. CASE UpdateEntry(w)
  BY <1>0, <1>6, AnswerEnds DEF UpdateEntry, Moves
<1> QED
  BY <1>1, <1>2, <1>3, <1>4, <1>5, <1>6 DEF Step

LEMMA ActMoves == ASSUME TypeOK, NEW w \in Workers, Acts(w) PROVE Moves(w)
<1>0. WorkOK /\ work[w] \in WorkType
  BY DEF TypeOK, WorkOK
<1>1. ASSUME NEW u, NEW p, CreateContest(w, u, p) PROVE Moves(w)
  <2>1. work'[w].pc \in {"idle", "insert"} /\ work'[w].reply \in {"1013", "none"}
    BY <1>0, <1>1 DEF CreateContest, WorkOK, Idle
  <2> QED
    BY <2>1 DEF Moves, Ends, Begun, HasKey
<1>2. ASSUME NEW u, NEW c \in 1 .. MaxRequests, NEW s, UpdateImage(w, u, c, s)
      PROVE  Moves(w)
  BY <1>0, <1>2 DEF UpdateImage, WorkOK, Idle, Moves, Enters
<1>3. CASE Read(w)
  <2>1. ASSUME NEW slot, NEW rows, Select(w, slot, rows) PROVE Moves(w)
    <3>1. work' = [work EXCEPT ![w] = [Idle("none") EXCEPT !.pc = "look",
                                         !.slot = slot, !.rows = rows]]
      BY <2>1 DEF Select
    <3> QED
      BY <1>0, <3>1 DEF Moves, Ends, Begun, HasKey, WorkOK, Idle
  <2>2. CASE ShowEntry(w)
    <3>1. CASE Answer(w, "1003")
      BY <1>0, <3>1, AnswerEnds DEF Moves
    <3>2. CASE \E row, view : Show(w, row, view)
      BY <1>0, <2>2, <3>2 DEF ShowEntry, Show, Moves, Ends, Begun, HasKey, WorkOK, WorkType
    <3> QED
      BY <2>2, <3>1, <3>2 DEF ShowEntry
  <2>3. CASE EndView(w)
    BY <1>0, <2>3, AnswerEnds DEF EndView, Moves
  <2>4. CASE ReadFails(w)
    BY <1>0, <2>4, AnswerEnds DEF ReadFails, Moves
  <2> QED
    BY <1>3, <2>1, <2>2, <2>3, <2>4, ReadForms
<1> QED
  BY <1>1, <1>2, <1>3, StepMoves DEF Acts

\* Every worker moves, stays as it is, or is set back by a crash.
LEMMA AllMove ==
  ASSUME TypeOK, UploadsOK, [Next]_vars, NEW w \in Workers
  PROVE  Moves(w) \/ (work'[w] = work[w] /\ lastId'[w] = lastId[w])
<1>1. ASSUME NEW x \in Workers, Acts(x)
      PROVE  Moves(w) \/ (work'[w] = work[w] /\ lastId'[w] = lastId[w])
  <2>1. OthersSame(x)
    BY <1>1, InsertImageOK, ReadImageIdOK, NoUploadOK DEF UploadsOK, Acts, Step
  <2> QED
    BY <1>1, <2>1, ActMoves DEF OthersSame
<1>2. CASE Crash
  BY <1>2 DEF Crash, Idle, Moves, Ends, Begun, HasKey
<1>3. CASE (\E c \in 1 .. MaxRequests : Lock(c)) \/ UNCHANGED vars
  BY <1>3 DEF Lock, vars
<1> QED
  BY <1>1, <1>2, <1>3 DEF Next, Acts

-----------------------------------------------------------------------------
\* A contest for an invited user has a creator in its first slot, and an upload
\* that passed the test for that slot is the creator's.
Creators == \A c \in 1 .. Len(contest) : contest[c].perm \in Users => contest[c].user[1] \in Users
EntrantOK(w) ==
  /\ work[w].pc \in {"check"} \cup Begun => Exists(work[w].contest)
  /\ work[w].pc \in Begun /\ work[w].slot = 1 /\ contest[work[w].contest].perm \in Users =>
       contest[work[w].contest].user[1] = work[w].user
Entrants == ~AnyContestId => Creators /\ \A w \in Workers : EntrantOK(w)

\* What no step does to the rows of contest.
RowKept(c) ==
  /\ contest'[c].perm \in Users => contest[c].perm \in Users
  /\ contest[c].perm \in Users => contest'[c].user[1] = contest[c].user[1]
TableKept ==
  /\ Len(contest) \in Nat /\ Len(contest') \in Nat /\ Len(contest) <= Len(contest')
  /\ \A c \in 1 .. Len(contest) : RowKept(c)
  /\ \A c \in 1 .. Len(contest') : c > Len(contest) => contest'[c].user[1] \in Users

LEMMA SameKept ==
  ASSUME contest \in Seq(ContestRow), UNCHANGED contest
  PROVE  TableKept
BY DEF TableKept, RowKept

LEMMA AppendKept ==
  ASSUME contest \in Seq(ContestRow), NEW u \in Users, NEW p \in Users \cup {None, Public},
         contest' = Append(contest, NewContest(u, p))
  PROVE  /\ TableKept /\ Len(contest') = Len(contest) + 1
         /\ contest'[Len(contest')].user[1] = u
<1> DEFINE new == NewContest(u, p)
<1>1. new \in ContestRow /\ new.user[1] = u
  BY NewContestType DEF NewContest, Slots
<1> HIDE DEF new
<1>2. /\ Len(contest) \in Nat /\ Len(contest') = Len(contest) + 1
      /\ contest'[Len(contest')] = new
      /\ \A c \in 1 .. Len(contest) : contest'[c] = contest[c]
  BY <1>1, AppendProperties DEF new
<1>3. \A c \in 1 .. Len(contest') : c > Len(contest) => contest'[c] = new
  BY <1>2
<1> QED
  BY <1>1, <1>2, <1>3 DEF TableKept, RowKept

LEMMA TableSteps ==
  ASSUME TypeOK, Entrants, ~AnyContestId, [Next]_vars
  PROVE  TableKept
<1>0. contest \in Seq(ContestRow) /\ WorkOK
  BY DEF TypeOK
<1>1. ASSUME NEW w \in Workers, InsertContest(w) PROVE TableKept
  <2>1. work[w].user \in Users /\ work[w].perm \in Users \cup {None, Public}
    BY <1>0, <1>1 DEF InsertContest, WorkOK, WorkType
  <2>2. contest' \in {contest, Append(contest, NewContest(work[w].user, work[w].perm))}
    BY <1>1 DEF InsertContest
  <2> QED
    BY <1>0, <2>1, <2>2, SameKept, AppendKept
<1>2. ASSUME NEW w \in Workers, UpdateEntry(w) PROVE TableKept
  <2> DEFINE r == work[w]
             entered == Entered(r.contest, r.slot, r.user, r.image, r.thumb)
  <2>1. CASE UNCHANGED contest
    BY <1>0, <2>1, SameKept
  <2>2. CASE r.slot \in Slots /\ contest' = entered
    <3>0. r.contest \in 1 .. Len(contest)
      BY <1>2 DEF Entrants, EntrantOK, Begun, UpdateEntry, Exists
    <3>1. Len(contest') = Len(contest)
      BY <1>0, <2>2, EnteredLen
    <3>2. ASSUME NEW c \in 1 .. Len(contest) PROVE RowKept(c)
      <4>1. contest'[c].perm = contest[c].perm
        <5>1. contest'[c] = Entered(r.contest, r.slot, r.user, r.image, r.thumb)[c]
          BY <2>2
        <5> HIDE DEF r
        <5> QED
          BY <1>0, <2>2, <3>0, <5>1, EnteredRows DEF Slots
      <4>2. CASE c = r.contest /\ r.slot = 1
        <5>1. contest'[c].user[1] = r.user
          <6>1. contest'[c] = Entered(r.contest, r.slot, r.user, r.image, r.thumb)[c]
            BY <2>2
          <6> HIDE DEF r
          <6> QED
            BY <1>0, <2>2, <3>0, <4>2, <6>1, EnteredRows DEF Slots
        <5>2. contest[c].perm \in Users => contest[c].user[1] = r.user
          BY <1>2, <4>2 DEF Entrants, EntrantOK, Begun, UpdateEntry
        <5> QED
          BY <4>1, <5>1, <5>2 DEF RowKept
      <4>3. CASE ~(c = r.contest /\ r.slot = 1)
        <5>1. contest'[c].user[1] = contest[c].user[1]
          <6>1. contest'[c] = Entered(r.contest, r.slot, r.user, r.image, r.thumb)[c]
            BY <2>2
          <6> HIDE DEF r
          <6> QED
            BY <1>0, <2>2, <3>0, <4>3, <6>1, EnteredRows DEF Slots
        <5> QED
          BY <4>1, <5>1 DEF RowKept
      <4> QED
        BY <4>2, <4>3
    <3> QED
      BY <1>0, <3>1, <3>2 DEF TableKept
  <2> QED
    BY <1>2, <2>1, <2>2 DEF UpdateEntry
<1>3. ASSUME NEW c \in 1 .. MaxRequests, Lock(c) PROVE TableKept
  <2>1. Locked \notin Users
    BY EntriesAssumption
  <2>2. /\ Len(contest') = Len(contest)
        /\ \A d \in 1 .. Len(contest) :
             /\ contest'[d].user = contest[d].user
             /\ contest'[d].perm \in {contest[d].perm, Locked}
    BY <1>0, <1>3 DEF Lock, Exists, ContestRow
  <2> QED
    BY <1>0, <2>1, <2>2 DEF TableKept, RowKept
<1>4. CASE Crash \/ UNCHANGED vars
  BY <1>0, <1>4, SameKept DEF Crash, vars
<1>5. ASSUME NEW w \in Workers,
             \/ ReadContestKey(w) \/ CheckSlot(w) \/ InsertImage(w) \/ ReadImageId(w) \/ Read(w)
             \/ \E u \in Users, p \in Users \cup {None, Public, Refused} : CreateContest(w, u, p)
             \/ \E u \in Users, c \in 1 .. MaxRequests, s \in Slots \cup {BadSlot} :
                  UpdateImage(w, u, c, s)
      PROVE TableKept
  BY <1>0, <1>5, ReadForms, SameKept DEF ReadContestKey, CheckSlot, InsertImage, ReadImageId,
     CreateContest, UpdateImage, Select, ReadFails, ShowEntry, EndView
<1> QED
  BY <1>1, <1>2, <1>3, <1>4, <1>5 DEF Next, Step

LEMMA EntrantSteps ==
  ASSUME TypeOK, UploadsOK, Entrants, [Next]_vars
  PROVE  Entrants'
<1> SUFFICES ASSUME ~AnyContestId PROVE Creators' /\ \A w \in Workers : EntrantOK(w)'
  BY DEF Entrants
<1>0. TableKept /\ Creators /\ \A w \in Workers : EntrantOK(w)
  BY TableSteps DEF Entrants
<1>1. Creators'
  BY <1>0 DEF TableKept, RowKept, Creators
<1>2. ASSUME NEW w \in Workers PROVE EntrantOK(w)'
  <2>1. \A c : Exists(c) => Exists(c)' /\ RowKept(c)
    BY <1>0 DEF TableKept, Exists
  <2>2. CASE Ends(w) \/ Inserts(w) \/ Takes(w)
    BY <2>2 DEF EntrantOK, Ends, Inserts, Takes, Begun
  <2>3. CASE Enters(w)
    BY <2>1, <2>3 DEF EntrantOK, Enters, Exists, Begun
  <2>4. CASE Goes(w) \/ (work'[w] = work[w])
    <3>1. SameRequest(w) /\ (work'[w].pc \in Begun => work[w].pc \in Begun)
          /\ (work'[w].pc \in {"check"} \cup Begun => work[w].pc \in {"check"} \cup Begun)
      BY <2>4 DEF Goes, SameRequest
    <3> QED
      BY <1>0, <2>1, <3>1 DEF SameRequest, EntrantOK, RowKept, Exists
  <2>5. CASE Passes(w)
    <3> DEFINE c == work[w].contest
    <3>1. /\ Exists(c) /\ work'[w].contest = c /\ work'[w].slot = work[w].slot
          /\ work'[w].user = work[w].user /\ contest' = contest
      BY <1>0, <2>5 DEF Passes, EntrantOK, SameRequest
    <3>2. Allowed(contest[c], work[w].user, work[w].slot)
      BY <2>5, <3>1 DEF Passes
    <3>3. work[w].slot = 1 /\ contest[c].perm \in Users => contest[c].user[1] = work[w].user
      <4>1. contest[c].perm \in Users => contest[c].user[1] \in Users
        BY <1>0, <3>1 DEF Creators, Exists
      <4> QED
        BY <3>2, <4>1, EntriesAssumption DEF Allowed
    <3> QED
      BY <3>1, <3>3 DEF EntrantOK, Exists
  <2> QED
    BY <2>2, <2>3, <2>4, <2>5, AllMove DEF Moves
<1> QED
  BY <1>1, <1>2

LEMMA EntrantsCorrect == Spec => []Entrants
<1>1. Init => Entrants
  BY DEF Init, Entrants, Creators, EntrantOK, Idle, Begun
<1> QED
  BY <1>1, EntrantSteps, TypeCorrect, UploadsCorrect, PTL DEF Spec

\* In a contest made for an invited user nobody takes over the creator's slot
\* (srv_db.cpp:580-607), as long as requests name contests that exist.
THEOREM CreatorStays == ASSUME ~AnyContestId PROVE Spec => CreatorKeepsSlot
<1>1. TypeOK /\ Entrants /\ [Next]_vars
      => [\A c \in 1 .. Len(contest) : contest[c].perm \in Users =>
            contest'[c].user[1] = contest[c].user[1]]_vars
  BY TableSteps DEF TableKept, RowKept
<1> QED
  BY <1>1, TypeCorrect, EntrantsCorrect, PTL DEF Spec, CreatorKeepsSlot

\* A request that holds the key of a contest, or is about to read it, made that
\* contest, and no other request did.
KeyOK(w) ==
  HasKey(w) =>
    /\ Exists(Key(w))
    /\ contest[Key(w)].perm \in Users => contest[Key(w)].user[1] = work[w].user
KeysOK ==
  ~AnyContestId =>
    /\ \A w \in Workers : KeyOK(w)
    /\ \A w, x \in Workers : w # x /\ HasKey(w) /\ HasKey(x) => Key(w) # Key(x)

\* A key is kept by its request, or new.
KeepsKey(w) == HasKey(w) /\ Key(w)' = Key(w) /\ work'[w].user = work[w].user

LEMMA KeySteps ==
  ASSUME TypeOK, UploadsOK, [Next]_vars, NEW w \in Workers, HasKey(w)'
  PROVE  KeepsKey(w) \/ Inserts(w)
BY AllMove DEF Moves, Ends, Goes, Passes, Enters, Takes, HasKey, Key, KeepsKey, Begun

LEMMA KeysKept ==
  ASSUME TypeOK, UploadsOK, Entrants, KeysOK, [Next]_vars
  PROVE  KeysOK'
<1> SUFFICES ASSUME ~AnyContestId
             PROVE  /\ \A w \in Workers : KeyOK(w)'
                    /\ \A w, x \in Workers :
                         w # x /\ HasKey(w)' /\ HasKey(x)' => Key(w)' # Key(x)'
  BY DEF KeysOK
<1>0. TableKept /\ contest \in Seq(ContestRow)
  BY TableSteps DEF TypeOK
<1>1. ASSUME NEW w \in Workers, Inserts(w)
      PROVE  /\ Key(w)' = Len(contest') /\ Len(contest') = Len(contest) + 1
             /\ Len(contest) \in Nat /\ contest'[Len(contest')].user[1] = work'[w].user
             /\ OthersSame(w)
  BY <1>0, <1>1, AppendKept DEF Inserts, Key, TableKept
<1>2. ASSUME NEW w \in Workers, KeepsKey(w) PROVE Key(w) \in 1 .. Len(contest)
  BY <1>2 DEF KeysOK, KeyOK, KeepsKey, Exists
<1>3. ASSUME NEW w \in Workers, HasKey(w)' PROVE KeyOK(w)'
  <2>1. CASE KeepsKey(w)
    <3>1. PICK k : k = Key(w) /\ k = Key(w)' /\ Exists(k) /\ RowKept(k) /\ k \in 1 .. Len(contest')
      BY <1>0, <1>2, <2>1 DEF KeepsKey, Exists, TableKept
    <3>2. contest[k].perm \in Users => contest[k].user[1] = work[w].user
      BY <2>1, <3>1 DEF KeysOK, KeyOK, KeepsKey
    <3>3. contest'[k].perm \in Users => contest'[k].user[1] = work'[w].user
      BY <2>1, <3>1, <3>2 DEF RowKept, KeepsKey
    <3> QED
      BY <3>1, <3>3 DEF KeyOK, Exists
  <2>2. CASE Inserts(w)
    BY <1>1, <2>2 DEF KeyOK, Exists
  <2> QED
    BY <1>3, <2>1, <2>2, KeySteps
<1>4. ASSUME NEW w \in Workers, NEW x \in Workers, w # x, HasKey(w)', HasKey(x)'
      PROVE  Key(w)' # Key(x)'
  <2>1. ASSUME NEW y \in {w, x}, NEW z \in {w, x}, y # z, Inserts(y)
        PROVE  Key(y)' # Key(z)'
    <3>1. work'[z] = work[z] /\ lastId'[z] = lastId[z]
      BY <1>1, <2>1 DEF OthersSame
    <3>2. KeepsKey(z)
      BY <1>4, <3>1 DEF KeepsKey, HasKey, Key
    <3>3. Key(z)' \in 1 .. Len(contest)
      BY <1>2, <3>2 DEF KeepsKey
    <3> QED
      BY <1>1, <2>1, <3>3
  <2>2. CASE KeepsKey(w) /\ KeepsKey(x)
    BY <1>4, <2>2 DEF KeepsKey, KeysOK
  <2> QED
    BY <1>4, <2>1, <2>2, KeySteps
<1> QED
  BY <1>3, <1>4 DEF KeyOK

\* The key that createContest() answers is that of the caller's own contest,
\* whatever other sessions insert before it is read (srv_db.cpp:393-399).
THEOREM KeysOwn == Spec => [](~AnyContestId => KeyIsOwn)
<1>1. Init => KeysOK
  BY DEF Init, Idle, KeysOK, KeyOK, HasKey
<1>2. KeysOK => (~AnyContestId => KeyIsOwn)
  <2> SUFFICES ASSUME KeysOK, ~AnyContestId, NEW w \in Workers, work[w].pc = "idle",
                      work[w].reply = "key"
               PROVE  /\ Exists(work[w].contest)
                      /\ contest[work[w].contest].perm \in Users =>
                           contest[work[w].contest].user[1] = work[w].user
                      /\ \A x \in Workers \ {w} :
                           work[x].pc = "idle" /\ work[x].reply = "key" =>
                             work[x].contest # work[w].contest
    BY DEF KeyIsOwn
  <2>1. HasKey(w) /\ Key(w) = work[w].contest
    BY DEF HasKey, Key
  <2>2. ASSUME NEW x \in Workers \ {w}, work[x].pc = "idle", work[x].reply = "key"
        PROVE  HasKey(x) /\ Key(x) = work[x].contest
    BY <2>2 DEF HasKey, Key
  <2> QED
    BY <2>1, <2>2 DEF KeysOK, KeyOK
<1> QED
  BY <1>1, <1>2, KeysKept, TypeCorrect, UploadsCorrect, EntrantsCorrect, PTL DEF Spec

-----------------------------------------------------------------------------
\* createContest() and updateImage() implement the gallery of module Gallery.
\* What hangs there is a function of the rows of both tables.

ShownIn(imgs, row, s, i) == IF row.image[s] = None THEN NoPicture ELSE imgs[i]
EntryIn(imgs, row, s) ==
  [user |-> row.user[s], image |-> ShownIn(imgs, row, s, row.image[s]),
   thumb |-> ShownIn(imgs, row, s, row.thumb[s])]
HungIn(imgs, row) == [perm |-> row.perm, place |-> [s \in Slots |-> EntryIn(imgs, row, s)]]
HungRows(imgs, rows) == [c \in DOMAIN rows |-> HungIn(imgs, rows[c])]

LEMMA HungForm ==
  /\ HungContests = HungRows(images, contest)
  /\ HungContests' = HungRows(images', contest')
<1>1. HungContests = HungRows(images, contest)
  BY DEF HungContests, HungRows, Hung, HungIn, EntryIn, Shown, ShownIn
<1>2. HungContests' = HungRows(images', contest')
  BY DEF HungContests, HungRows, Hung, HungIn, EntryIn, Shown, ShownIn
<1> QED
  BY <1>1, <1>2

\* What a row shows is not touched by the images that others insert.
LEMMA ShownKept ==
  ASSUME images \in Seq(ImageRow), ImagesGrow, EntryWhole,
         NEW c \in 1 .. Len(contest), NEW s \in Slots
  PROVE  EntryIn(images', contest[c], s) = EntryIn(images, contest[c], s)
<1>1. CASE contest[c].image[s] = None
  BY <1>1 DEF EntryIn, ShownIn
<1>2. CASE contest[c].image[s] # None
  <2>1. Upload(contest[c].user[s], contest[c].image[s], contest[c].thumb[s])
    BY <1>2 DEF EntryWhole
  <2>2. /\ images'[contest[c].image[s]] = images[contest[c].image[s]]
        /\ images'[contest[c].thumb[s]] = images[contest[c].thumb[s]]
    BY <2>1, ImagesKept DEF Upload
  <2> QED
    BY <2>2 DEF EntryIn, ShownIn
<1> QED
  BY <1>1, <1>2

LEMMA HungKept ==
  ASSUME images \in Seq(ImageRow), contest \in Seq(ContestRow), ImagesGrow, EntryWhole
  PROVE  /\ \A c \in 1 .. Len(contest) : HungIn(images', contest[c]) = HungIn(images, contest[c])
         /\ UNCHANGED contest => UNCHANGED HungContests
<1>1. ASSUME NEW c \in 1 .. Len(contest)
      PROVE  HungIn(images', contest[c]) = HungIn(images, contest[c])
  <2>1. \A s \in Slots : EntryIn(images', contest[c], s) = EntryIn(images, contest[c], s)
    BY ShownKept
  <2> QED
    BY <2>1 DEF HungIn
<1>2. ASSUME UNCHANGED contest PROVE UNCHANGED HungContests
  <2>1. DOMAIN contest = 1 .. Len(contest)
    BY <1>2
  <2>2. HungRows(images', contest) = HungRows(images, contest)
    BY <1>1, <2>1 DEF HungRows
  <2> QED
    BY <1>2, <2>2, HungForm
<1> QED
  BY <1>1, <1>2

\* A request names a contest within the bound of the requests.
Named == \A w \in Workers : work[w].pc = "check" => work[w].contest \in 1 .. MaxRequests

LEMMA NamedCorrect == Spec => []Named
<1>1. Init => Named
  BY DEF Init, Named, Idle
<1>2. TypeOK /\ UploadsOK /\ Named /\ [Next]_vars => Named'
  <2> SUFFICES ASSUME TypeOK, UploadsOK, Named, [Next]_vars, NEW w \in Workers,
                      work'[w].pc = "check"
               PROVE  work'[w].contest \in 1 .. MaxRequests
    BY DEF Named
  <2> QED
    BY AllMove DEF Named, Moves, Ends, Goes, Passes, Enters, Inserts, Takes, Begun
<1> QED
  BY <1>1, <1>2, TypeCorrect, UploadsCorrect, PTL DEF Spec

\* The other workers keep their admissions.
Admissions == [w \in Workers |-> Admission(w)]

LEMMA AdmissionMoves ==
  ASSUME NEW w \in Workers, OthersSame(w)
  PROVE  /\ \A x \in Workers \ {w} : Admission(x)' = Admission(x)
         /\ Admissions' = [Admissions EXCEPT ![w] = Admission(w)']
<1>1. ASSUME NEW x \in Workers \ {w} PROVE Admission(x)' = Admission(x)
  BY DEF OthersSame, Admission, Admitted, Carried
<1> HIDE DEF Admission
<1>2. Admissions' = [Admissions EXCEPT ![w] = Admission(w)']
  BY <1>1 DEF Admissions
<1> QED
  BY <1>1, <1>2

\* The refinement mapping, spelled out.
LEMMA WallForm ==
  /\ Wall!vars = <<HungContests, Admissions, Len(images)>>
  /\ Wall!vars' = <<HungContests', Admissions', Len(images')>>
BY DEF Wall!vars, Admissions

\* A worker whose request is over has used or lost its admission.
LEMMA Loses ==
  ASSUME TypeOK, EntryWhole, ImagesGrow, NEW w \in Workers, OthersSame(w),
         UNCHANGED contest, ~Admitted(w)'
  PROVE  Wall!Next
<1>1. UNCHANGED HungContests
  BY HungKept DEF TypeOK
<1>2. Admission(w)' = [user |-> None, contest |-> 0, place |-> 0, picture |-> NoPicture]
  BY DEF Admission
<1>3. Admissions' = [v \in Workers |-> IF v \in {w} THEN Wall!NotAdmitted ELSE Admissions[v]]
  <2>1. Admission(w)' = Wall!NotAdmitted
    BY <1>2 DEF Wall!NotAdmitted, Wall!Admission, Wall!NoPicture, Wall!Picture, NoPicture,
       NewImage, None, Wall!None
  <2> HIDE DEF Admission
  <2> QED
    BY <2>1, AdmissionMoves DEF Admissions
<1>4. Len(images') \in {Len(images), Len(images) + 1}
  BY AppendProperties DEF ImagesGrow, TypeOK
<1>5. Wall!Lose({w})
  BY <1>1, <1>3, <1>4 DEF Wall!Lose, Admissions
<1>6. {w} \in SUBSET Workers
  OBVIOUS
<1> QED
  BY <1>5, <1>6, Zenon DEF Wall!Next

LEMMA OthersLose ==
  ASSUME TypeOK, UploadsOK, EntryWhole, NEW w \in Workers,
         \/ ReadContestKey(w) \/ Read(w)
         \/ \E u \in Users, p \in Users \cup {None, Public, Refused} : CreateContest(w, u, p)
         \/ \E u \in Users, c \in 1 .. MaxRequests, s \in Slots \cup {BadSlot} :
              UpdateImage(w, u, c, s)
  PROVE  Wall!Next
<1>1. OthersSame(w) /\ ImagesGrow
  BY NoUploadOK
<1>2. UNCHANGED contest /\ work[w].pc \in {"idle", "key", "look"}
  BY ReadForms DEF ReadContestKey, CreateContest, UpdateImage, Select, ReadFails, ShowEntry,
     EndView
<1>3. Moves(w)
  BY ActMoves DEF Acts, Step
<1>4. work'[w].pc \notin Begun
  BY <1>2, <1>3 DEF Moves, Ends, Goes, Passes, Enters, Inserts, Takes, Begun
<1> QED
  BY <1>1, <1>2, <1>4, Loses DEF Admitted, Begun

\* The INSERT of createContest() opens a contest.
LEMMA Opens ==
  ASSUME TypeOK, EntryWhole, NEW w \in Workers, InsertContest(w)
  PROVE  Wall!Next
<1> DEFINE u == work[w].user
           p == work[w].perm
           new == NewContest(u, p)
           empty == [perm |-> p,
                     place |-> [s \in Wall!Places |->
                                  Wall!Entry(IF s = 1 THEN u ELSE None, Wall!NoPicture,
                                             Wall!NoPicture)]]
<1>0. WorkOK /\ contest \in Seq(ContestRow) /\ images \in Seq(ImageRow)
  BY DEF TypeOK
<1>1. OthersSame(w) /\ ImagesGrow /\ UNCHANGED images
  BY NoUploadOK DEF InsertContest
<1>2. work'[w].pc \in {"idle", "key"} /\ work[w].pc = "insert"
  BY <1>0, GotoMoves, AnswerMoves DEF InsertContest
<1>3. ~Admitted(w) /\ ~Admitted(w)'
  BY <1>2 DEF Admitted
<1>4. CASE UNCHANGED contest
  BY <1>1, <1>3, <1>4, Loses
<1>5. CASE contest' = Append(contest, new)
  <2>1. u \in Users /\ p \in Users \cup {None, Public}
    BY <1>0, <1>2 DEF WorkOK, WorkType
  <2>2. new \in ContestRow
    BY <2>1, NewContestType
  <2>3. HungIn(images, new) = empty
    BY DEF HungIn, EntryIn, ShownIn, NewContest, NoPicture, NewImage, Slots,
       None, Wall!Places, Wall!Entry, Wall!NoPicture, Wall!Picture, Wall!None
  <2>4. HungContests' = Append(HungContests, empty)
    <3> DEFINE Rows == {HungIn(images, row) : row \in ContestRow}
    <3>1. HungRows(images, contest) \in Seq(Rows) /\ empty \in Rows
          /\ DOMAIN HungRows(images, contest) = 1 .. Len(contest)
      BY <1>0, <2>2, <2>3 DEF HungRows
    <3>2. Len(HungRows(images, contest)) = Len(contest)
      BY <1>0, <3>1
    <3> HIDE DEF Rows, empty, new
    <3>3. Append(HungRows(images, contest), empty) =
            [c \in 1 .. Len(contest) + 1 |->
               IF c \in 1 .. Len(contest) THEN HungIn(images, contest[c]) ELSE empty]
      <4>1. \A c \in 1 .. Len(contest) :
              HungRows(images, contest)[c] = HungIn(images, contest[c])
        BY <3>1 DEF HungRows
      <4> DEFINE old == HungRows(images, contest)
                 longer == Append(old, empty)
      <4>2. /\ longer \in Seq(Rows) /\ Len(longer) = Len(old) + 1
            /\ longer[Len(old) + 1] = empty
            /\ \A c \in 1 .. Len(old) : longer[c] = old[c]
        BY <3>1, AppendProperties
      <4>3. longer = [c \in 1 .. Len(old) + 1 |-> longer[c]]
        <5> HIDE DEF longer
        <5> QED
          BY <4>2
      <4>4. Len(contest) \in Nat
        BY <1>0
      <4> HIDE DEF longer, old
      <4>5. \A c \in 1 .. Len(contest) + 1 :
              longer[c] = IF c \in 1 .. Len(contest) THEN HungIn(images, contest[c]) ELSE empty
        BY <3>2, <4>1, <4>2, <4>4 DEF old
      <4> QED
        BY <3>2, <4>3, <4>5 DEF longer, old
    <3>4. HungRows(images, Append(contest, new)) =
            [c \in 1 .. Len(contest) + 1 |->
               IF c \in 1 .. Len(contest) THEN HungIn(images, contest[c]) ELSE empty]
      <4>1. /\ DOMAIN Append(contest, new) = 1 .. Len(contest) + 1
            /\ \A c \in 1 .. Len(contest) + 1 :
                 Append(contest, new)[c] =
                   IF c \in 1 .. Len(contest) THEN contest[c] ELSE new
        BY <1>0, <2>2, AppendProperties
      <4> QED
        BY <2>3, <4>1 DEF HungRows
    <3>5. HungContests = HungRows(images, contest)
          /\ HungContests' = HungRows(images, Append(contest, new))
      BY <1>1, <1>5, HungForm DEF new
    <3> QED
      BY <3>3, <3>4, <3>5
  <2>5. UNCHANGED <<Admissions, Len(images)>>
    <3>1. Admission(w)' = Admission(w)
      BY <1>3 DEF Admission
    <3> HIDE DEF Admission
    <3> QED
      BY <1>1, <3>1, AdmissionMoves DEF Admissions
  <2>6. Wall!Open(u, p)
    BY <2>4, <2>5, Zenon DEF Wall!Open, Admissions, None, Wall!None
  <2>7. p \in Users \cup {Wall!None, Wall!Public}
    BY <2>1 DEF None, Public, Wall!None, Wall!Public
  <2> QED
    BY <2>1, <2>6, <2>7, Zenon DEF Wall!Next
<1> QED
  BY <1>4, <1>5 DEF InsertContest

\* Whoever passes the test is admitted.
LEMMA Admits ==
  ASSUME TypeOK, EntryWhole, Named, NEW w \in Workers, CheckSlot(w)
  PROVE  Wall!Next
<1> DEFINE u == work[w].user
           c == work[w].contest
           s == work[w].slot
<1>0. WorkOK /\ contest \in Seq(ContestRow) /\ work[w] \in WorkType
  BY DEF TypeOK, WorkOK
<1>1. OthersSame(w) /\ ImagesGrow /\ UNCHANGED <<contest, images>> /\ work[w].pc = "check"
  BY NoUploadOK DEF CheckSlot
<1>2. CASE ~Admitted(w)'
  BY <1>1, <1>2, Loses
<1>3. CASE Admitted(w)'
  <2>1. /\ Goto(w, "image")
        /\ Exists(c) => Allowed(contest[c], u, s)
    <3>1. ASSUME NEW reply, Answer(w, reply) PROVE FALSE
      BY <1>0, <1>3, <3>1, AnswerMoves DEF Admitted
    <3> QED
      BY <3>1 DEF CheckSlot
  <2>2. work'[w].pc = "image" /\ SameRequest(w)
    BY <1>0, <2>1, GotoSame
  <2>3. /\ u \in Users /\ c \in 1 .. MaxRequests /\ s \in Slots
    BY <1>0, <1>1, <1>3, <2>2 DEF WorkOK, Named, Admitted, SameRequest
  <2>4. UNCHANGED HungContests
    BY <1>1, HungKept DEF TypeOK
  <2>5. Admission(w)' = Wall!Admission(u, c, s, Wall!NoPicture)
    BY <1>3, <2>2 DEF Admission, Carried, SameRequest, NoPicture, NewImage, None,
       Wall!Admission, Wall!NoPicture, Wall!Picture, Wall!None
  <2>6. Admission(w) = Wall!NotAdmitted
    BY <1>1 DEF Admission, Admitted, NoPicture, NewImage, None,
       Wall!NotAdmitted, Wall!Admission, Wall!NoPicture, Wall!Picture, Wall!None
  <2>7. c \in DOMAIN HungContests => Wall!Admits(HungContests[c], s, u)
    <3> SUFFICES ASSUME c \in DOMAIN contest PROVE Wall!Admits(Hung(contest[c]), s, u)
      BY DEF HungContests
    <3>1. Exists(c)
      BY <1>0 DEF Exists
    <3>2. Allowed(contest[c], u, s)
      BY <2>1, <3>1
    <3>3. Hung(contest[c]).perm = contest[c].perm
          /\ Hung(contest[c]).place[s].user = contest[c].user[s]
      BY <2>3 DEF Hung
    <3> HIDE DEF u, c, s
    <3> QED
      BY <3>2, <3>3 DEF Allowed, Wall!Admits, None, Public, Locked, Wall!None, Wall!Public,
         Wall!Locked
  <2>8. Wall!Admit(w, u, c, s)
    <3> HIDE DEF Admission, u, c, s
    <3> QED
      BY <1>1, <2>4, <2>5, <2>6, <2>7, AdmissionMoves DEF Wall!Admit, Admissions
  <2>9. s \in Wall!Places
    BY <2>3 DEF Slots, Wall!Places
  <2> QED
    BY <2>3, <2>8, <2>9, Zenon DEF Wall!Next
<1> QED
  BY <1>2, <1>3

\* insertImage() makes a picture; the row of the thumbnail is one that is not
\* hung by itself.
LEMMA Makes ==
  ASSUME TypeOK, UploadsOK, EntryWhole, NEW w \in Workers, InsertImage(w)
  PROVE  Wall!Next
<1> DEFINE u == work[w].user
           id == Len(images) + 1
<1>0. WorkOK /\ work[w] \in WorkType /\ lastId \in [Workers -> Nat]
      /\ images \in Seq(ImageRow)
  BY DEF TypeOK, WorkOK
<1>1. OthersSame(w) /\ ImagesGrow /\ UNCHANGED contest
  BY InsertImageOK DEF InsertImage, UploadsOK
<1>2. UNCHANGED HungContests
  BY <1>0, <1>1, HungKept DEF TypeOK
<1>3. CASE ~Admitted(w)'
  BY <1>1, <1>3, Loses
<1>4. CASE Admitted(w)'
  <2>1. ~\E reply : Answer(w, reply)
    BY <1>0, <1>4, AnswerMoves DEF Admitted
  <2>2. CASE work[w].pc = "image" /\ Goto(w, "imageid")
    <3>1. work'[w].pc = "imageid" /\ SameRequest(w)
      BY <1>0, <2>2, GotoSame
    <3>2. /\ images' = Append(images, NewImage(u, id))
          /\ lastId' = [lastId EXCEPT ![w] = id]
      BY <2>1, <2>2 DEF InsertImage
    <3>3. lastId'[w] = id /\ u \in Users /\ u # None
      BY <1>0, <2>2, <3>2, EntriesAssumption DEF WorkOK
    <3>4. Len(images') = id
      <4>1. NewImage(u, id) \in ImageRow
        BY <1>0, <3>3 DEF NewImage, ImageRow
      <4> QED
        BY <1>0, <3>2, <4>1, AppendProperties
    <3>5. Admission(w) = Wall!Admission(u, work[w].contest, work[w].slot, Wall!NoPicture)
      BY <1>4, <2>2, <3>1 DEF Admission, Admitted, Carried, SameRequest, NoPicture, NewImage,
         None, Wall!Admission, Wall!NoPicture, Wall!Picture, Wall!None
    <3>6. Admission(w)' =
            Wall!Admission(u, work[w].contest, work[w].slot, Wall!Picture(u, id))
      BY <1>4, <3>1, <3>3 DEF Admission, Carried, SameRequest, NewImage,
         Wall!Admission, Wall!Picture
    <3>7. Wall!Make(w)
      <4>1. /\ Admissions[w] # Wall!NotAdmitted
            /\ Admissions[w].picture = Wall!NoPicture
            /\ Admissions[w].user = u
        <5>1. Admissions[w] = Admission(w)
          BY DEF Admissions
        <5> HIDE DEF Admission
        <5> QED
          BY <3>3, <3>5, <5>1 DEF Wall!Admission, Wall!NotAdmitted, None, Wall!None
      <4>2. Admission(w)' = [Admissions[w] EXCEPT !.picture = Wall!Picture(u, id)]
        <5>1. Admissions[w] = Admission(w)
          BY DEF Admissions
        <5> HIDE DEF Admission
        <5> QED
          BY <3>5, <3>6, <5>1 DEF Wall!Admission
      <4> HIDE DEF Admission
      <4>3. Admissions' = [Admissions EXCEPT ![w] = Admission(w)']
        BY <1>1, AdmissionMoves
      <4>4. Admissions' = [Admissions EXCEPT ![w].picture = Wall!Picture(u, id)]
        <5> HIDE DEF u, id
        <5> QED
          BY <4>2, <4>3
      <4> QED
        BY <1>2, <3>4, <4>1, <4>4 DEF Wall!Make, Admissions
    <3> QED
      BY <3>7, Zenon DEF Wall!Next
  <2>3. CASE work[w].pc = "thumb" /\ Goto(w, "thumbid")
    <3>1. work'[w].pc = "thumbid" /\ SameRequest(w) /\ work'[w].image = work[w].image
      BY <1>0, <2>3, GotoSame, GotoMoves
    <3>2. images' = Append(images, NewImage(u, work[w].image))
      BY <2>1, <2>3 DEF InsertImage
    <3>3. Len(images') = Len(images) + 1
      <4>1. NewImage(u, work[w].image) \in ImageRow
        BY <1>0, <2>3 DEF NewImage, ImageRow, WorkOK, WorkType
      <4> QED
        BY <1>0, <3>2, <4>1, AppendProperties
    <3>4. Admission(w)' = Admission(w)
      BY <1>4, <2>3, <3>1 DEF Admission, Admitted, Carried, SameRequest
    <3>5. Wall!Waste
      <4> HIDE DEF Admission
      <4> QED
        BY <1>1, <1>2, <3>3, <3>4, AdmissionMoves DEF Wall!Waste, Admissions
    <3> QED
      BY <3>5, Zenon DEF Wall!Next
  <2> QED
    BY <2>1, <2>2, <2>3 DEF InsertImage
<1> QED
  BY <1>3, <1>4

\* SELECT LAST_INSERT_ID() changes nothing in the gallery.
LEMMA KeysStay ==
  ASSUME TypeOK, UploadsOK, EntryWhole, NEW w \in Workers, ReadImageId(w)
  PROVE  Wall!Next \/ UNCHANGED Wall!vars
<1>0. WorkOK /\ work[w] \in WorkType
  BY DEF TypeOK, WorkOK
<1>1. OthersSame(w) /\ ImagesGrow /\ UNCHANGED <<contest, images, lastId>>
  BY ReadImageIdOK DEF ReadImageId, UploadsOK
<1>2. CASE ~Admitted(w)'
  BY <1>1, <1>2, Loses
<1>3. CASE Admitted(w)'
  <2>1. ~\E reply : Answer(w, reply)
    BY <1>0, <1>3, AnswerMoves DEF Admitted
  <2>2. Admission(w)' = Admission(w)
    <3>1. CASE /\ work[w].pc = "imageid"
               /\ work' = [work EXCEPT ![w].pc = "thumb", ![w].image = ImageKey(w)]
      <4>1. work'[w].pc = "thumb" /\ work'[w].image = lastId[w] /\ SameRequest(w)
        BY <1>0, <3>1 DEF ImageKey, SameRequest, WorkOK, WorkType
      <4> QED
        BY <1>3, <3>1, <4>1 DEF Admission, Admitted, Carried, SameRequest
    <3>2. CASE /\ work[w].pc = "thumbid"
               /\ work' = [work EXCEPT ![w].pc = "update", ![w].thumb = ImageKey(w)]
      <4>1. /\ work'[w].pc = "update" /\ work'[w].image = work[w].image /\ SameRequest(w)
        BY <1>0, <3>2 DEF SameRequest, WorkOK, WorkType
      <4> QED
        BY <1>3, <3>2, <4>1 DEF Admission, Admitted, Carried, SameRequest
    <3> QED
      BY <2>1, <3>1, <3>2 DEF ReadImageId
  <2>3. UNCHANGED HungContests /\ UNCHANGED Admissions
    <3> HIDE DEF Admission
    <3> QED
      BY <1>1, <2>2, HungKept, AdmissionMoves DEF TypeOK, Admissions
  <2> QED
    BY <1>1, <2>3, WallForm
<1> QED
  BY <1>2, <1>3

\* The UPDATE hangs the picture made since the test, with its own thumbnail.
LEMMA Hangs ==
  ASSUME TypeOK, UploadsOK, EntryWhole, NEW w \in Workers, UpdateEntry(w)
  PROVE  Wall!Next
<1> DEFINE u == work[w].user
           c == work[w].contest
           s == work[w].slot
           i == work[w].image
           t == work[w].thumb
           picture == Wall!Picture(u, i)
           hung == Wall!Entry(u, picture, picture)
<1>0. WorkOK /\ work[w] \in WorkType /\ contest \in Seq(ContestRow)
      /\ images \in Seq(ImageRow)
  BY DEF TypeOK, WorkOK
<1>1. OthersSame(w) /\ ImagesGrow /\ UNCHANGED images /\ work[w].pc = "update"
  BY NoUploadOK DEF UpdateEntry
<1>2. ~Admitted(w)'
  BY <1>0, AnswerMoves DEF UpdateEntry, Admitted
<1>3. CASE UNCHANGED contest
  BY <1>1, <1>2, <1>3, Loses
<1>4. CASE s \in Slots /\ Exists(c) /\ contest' = Entered(c, s, u, i, t)
  <2>1. u \in Users /\ u # None /\ c \in 1 .. Len(contest)
    BY <1>0, <1>1, <1>4, EntriesAssumption DEF WorkOK, Exists
  <2>2. Upload(u, i, t) /\ i # None
    BY <1>1 DEF UploadsOK, UploadOK, Upload, None
  <2>3. DOMAIN contest' = DOMAIN contest /\ DOMAIN contest = 1 .. Len(contest)
    BY <1>0, <1>4 DEF Entered
  <2>4. ASSUME NEW d \in 1 .. Len(contest), NEW r \in Slots
        PROVE  EntryIn(images, contest'[d], r) =
                 IF d = c /\ r = s THEN hung ELSE EntryIn(images, contest[d], r)
    <3>1. /\ contest'[d].perm = contest[d].perm
          /\ IF d = c /\ r = s
             THEN contest'[d].user[r] = u /\ contest'[d].image[r] = i /\ contest'[d].thumb[r] = t
             ELSE /\ contest'[d].user[r] = contest[d].user[r]
                  /\ contest'[d].image[r] = contest[d].image[r]
                  /\ contest'[d].thumb[r] = contest[d].thumb[r]
      <4>1. contest'[d] = Entered(c, s, u, i, t)[d]
        BY <1>4
      <4> HIDE DEF u, c, s, i, t
      <4> QED
        BY <1>0, <1>4, <2>1, <4>1, EnteredRows
    <3>2. images[i] = picture /\ images[t] = picture
      BY <2>2 DEF Upload, NewImage, Wall!Picture
    <3> HIDE DEF u, c, s, i, t, picture
    <3> QED
      BY <2>2, <3>1, <3>2 DEF EntryIn, ShownIn, Wall!Entry
  <2>5. \A d \in 1 .. Len(contest) : contest'[d].perm = contest[d].perm
    <3>1. ASSUME NEW d \in 1 .. Len(contest) PROVE contest'[d].perm = contest[d].perm
      <4>1. contest'[d] = Entered(c, s, u, i, t)[d]
        BY <1>4
      <4> HIDE DEF u, c, s, i, t
      <4> QED
        BY <1>0, <1>4, <2>1, <4>1, EnteredRows
    <3> QED
      BY <3>1
  <2>6. HungContests' = [HungContests EXCEPT ![c].place[s] = hung]
    <3> DEFINE old == HungRows(images, contest)
    <3> HIDE DEF u, c, s, i, t, picture, hung
    <3>1. HungRows(images, contest') = [d \in 1 .. Len(contest) |-> HungIn(images, contest'[d])]
      BY <2>3 DEF HungRows
    <3>2. old = [d \in 1 .. Len(contest) |-> HungIn(images, contest[d])]
      BY <2>3 DEF HungRows
    <3>3. ASSUME NEW d \in 1 .. Len(contest)
          PROVE  HungIn(images, contest'[d]) =
                   IF d = c THEN [old[d] EXCEPT !.place[s] = hung] ELSE old[d]
      <4>0. old[d] = HungIn(images, contest[d])
        BY <3>2
      <4> HIDE DEF old
      <4>1. CASE d = c
        <5>1. [s1 \in Slots |-> EntryIn(images, contest'[d], s1)] =
                [[s1 \in Slots |-> EntryIn(images, contest[d], s1)] EXCEPT ![s] = hung]
          BY <1>4, <2>4, <4>1
        <5> QED
          BY <2>5, <4>0, <4>1, <5>1 DEF HungIn
      <4>2. CASE d # c
        <5>1. [s1 \in Slots |-> EntryIn(images, contest'[d], s1)] =
                [s1 \in Slots |-> EntryIn(images, contest[d], s1)]
          BY <2>4, <4>2
        <5> QED
          BY <2>5, <4>0, <4>2, <5>1 DEF HungIn
      <4> QED
        BY <4>1, <4>2
    <3>4. HungRows(images, contest') = [old EXCEPT ![c].place[s] = hung]
      <4>1. DOMAIN old = 1 .. Len(contest)
        BY <3>2
      <4> HIDE DEF old
      <4> QED
        BY <2>1, <3>1, <3>3, <4>1
    <3> QED
      BY <1>1, <3>4, HungForm
  <2>7. Admission(w) = Wall!Admission(u, c, s, picture)
    BY <1>1, <1>4 DEF Admission, Admitted, Carried, NewImage, Wall!Admission, Wall!Picture
  <2>8. Admission(w)' = Wall!NotAdmitted
    BY <1>2 DEF Admission, NoPicture, NewImage, None,
       Wall!NotAdmitted, Wall!Admission, Wall!NoPicture, Wall!Picture, Wall!None
  <2>9. Wall!Hang(w)
    <3>1. Admissions[w] = Admission(w)
      BY DEF Admissions
    <3>2. picture # Wall!NoPicture
      BY <2>1 DEF Wall!Picture, Wall!NoPicture, None, Wall!None
    <3>3. c \in DOMAIN HungContests
      BY <2>1, <2>3 DEF HungContests
    <3>4. Admissions' = [Admissions EXCEPT ![w] = Wall!NotAdmitted]
      <4> HIDE DEF Admission
      <4> QED
        BY <1>1, <2>8, AdmissionMoves
    <3>5. /\ Admissions[w].user = u /\ Admissions[w].contest = c
          /\ Admissions[w].place = s /\ Admissions[w].picture = picture
      <4> HIDE DEF Admission
      <4> QED
        BY <2>7, <3>1 DEF Wall!Admission
    <3> HIDE DEF u, c, s, i, t, picture
    <3> QED
      BY <1>1, <2>6, <3>2, <3>3, <3>4, <3>5 DEF Wall!Hang, Admissions
  <2> QED
    BY <2>9, Zenon DEF Wall!Next
<1> QED
  BY <1>3, <1>4 DEF UpdateEntry, Entered

LEMMA Locks ==
  ASSUME TypeOK, NEW c, Lock(c)
  PROVE  Wall!Next
<1>0. contest \in Seq(ContestRow) /\ c \in 1 .. Len(contest)
  BY DEF TypeOK, Lock, Exists
<1>1. DOMAIN contest = 1 .. Len(contest) /\ DOMAIN contest' = DOMAIN contest
  BY <1>0 DEF Lock
<1>2. ASSUME NEW d \in 1 .. Len(contest)
      PROVE  HungIn(images, contest'[d]) =
               IF d = c THEN [HungIn(images, contest[d]) EXCEPT !.perm = Locked]
               ELSE HungIn(images, contest[d])
  <2>1. contest[d] \in ContestRow
    BY <1>0
  <2>2. contest'[d] = IF d = c THEN [contest[d] EXCEPT !.perm = Locked] ELSE contest[d]
    BY <1>0 DEF Lock
  <2>3. /\ contest'[d].user = contest[d].user /\ contest'[d].image = contest[d].image
        /\ contest'[d].thumb = contest[d].thumb
        /\ contest'[d].perm = IF d = c THEN Locked ELSE contest[d].perm
    BY <2>1, <2>2 DEF ContestRow
  <2>4. \A s \in Slots : EntryIn(images, contest'[d], s) = EntryIn(images, contest[d], s)
    BY <2>3 DEF EntryIn, ShownIn
  <2> QED
    BY <2>3, <2>4 DEF HungIn
<1>3. HungRows(images, contest') = [HungRows(images, contest) EXCEPT ![c].perm = Locked]
  BY <1>0, <1>1, <1>2 DEF HungRows
<1>4. HungContests' = [HungContests EXCEPT ![c].perm = Wall!Locked]
  BY <1>3, HungForm DEF Lock, Locked, Wall!Locked
<1>5. UNCHANGED <<Admissions, Len(images)>>
  BY DEF Lock, Admissions, Admission, Admitted, Carried
<1>6. Wall!Lock(c) /\ c \in DOMAIN HungContests
  BY <1>0, <1>1, <1>4, <1>5 DEF Wall!Lock, Admissions, HungContests
<1> QED
  BY <1>6, Zenon DEF Wall!Next

LEMMA CrashLoses ==
  ASSUME TypeOK, Crash
  PROVE  Wall!Next
<1>1. UNCHANGED HungContests
  BY DEF Crash, HungContests, Hung, Shown
<1>2. \A w \in Workers : Admission(w)' = Wall!NotAdmitted
  BY DEF Crash, Idle, Admission, Admitted, NoPicture, NewImage, None,
     Wall!NotAdmitted, Wall!Admission, Wall!NoPicture, Wall!Picture, Wall!None
<1>3. Wall!Lose(Workers)
  <2> HIDE DEF Admission
  <2> QED
    BY <1>1, <1>2 DEF Crash, Wall!Lose, Admissions
<1>4. Workers \in SUBSET Workers
  OBVIOUS
<1> QED
  BY <1>3, <1>4, Zenon DEF Wall!Next

\* createContest() and updateImage() implement the gallery: each step of a
\* worker is one of the gallery's or changes nothing there, with every
\* interleaving of sessions, failing statement and crash.
THEOREM ImplementsGallery == Spec => GallerySpec
<1>1. Init => Wall!Init
  BY DEF Init, Idle, Wall!Init, HungContests, Admission, Admitted, NoPicture, NewImage, None,
     Wall!NotAdmitted, Wall!Admission, Wall!NoPicture, Wall!Picture, Wall!None
<1>2. TypeOK /\ UploadsOK /\ EntryWhole /\ Named /\ [Next]_vars => [Wall!Next]_(Wall!vars)
  <2> SUFFICES ASSUME TypeOK, UploadsOK, EntryWhole, Named, [Next]_vars
               PROVE  Wall!Next \/ UNCHANGED Wall!vars
    OBVIOUS
  <2>1. CASE UNCHANGED vars
    BY <2>1, WallForm DEF vars, HungContests, Hung, Shown, Admissions, Admission, Admitted,
       Carried
  <2> QED
    BY <2>1, OthersLose, Opens, Admits, Makes, KeysStay, Hangs, Locks, CrashLoses, Zenon
    DEF Next, Step
<1> QED
  BY <1>1, <1>2, TypeCorrect, UploadsCorrect, EntriesWhole, NamedCorrect, PTL
  DEF Spec, GallerySpec, Wall!Spec
=============================================================================

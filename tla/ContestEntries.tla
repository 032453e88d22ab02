--------------------------- MODULE ContestEntries ---------------------------
(***************************************************************************)
(* SRV_DB::createContest(), updateImage() and insertImage(), and the       *)
(* functions that show contests while those run: the tables contest and    *)
(* images, one autocommit statement per step, and LAST_INSERT_ID() of each *)
(* worker's own session.  A statement may fail without effect or after the *)
(* server applied it.  getUserID() reads rows that nobody changes; in what *)
(* changes the tables its failure is a fault of the statement after it.    *)
(* Scores are left to module Voting.                                       *)
(***************************************************************************)
EXTENDS Integers, Sequences, FiniteSets

CONSTANTS
  Users,        \* ids of the accounts that requests act for; what is asked
                \* for a name without an account changes nothing
  Workers,      \* the HTTP threads; a poller is one that only lists contests
  MaxRequests,  \* bound: requests that insert a contest or a pair of images
  MaxFaults,    \* bound: failing SQL statements and crashes
  AnyContestId  \* TRUE: requests may name a contest that does not exist

None == 0      \* an empty column; also the permission "friends of user1"
Public == -1   \* the permission "everybody"
Locked == -2   \* the permission "nobody any more"
Refused == -3  \* stands for every permission out of range and unknown name
Unread == -4   \* the text "NULL" shown in place of a picture

ASSUME EntriesAssumption ==
  /\ Users \cap {None, Public, Locked, Refused, Unread} = {}
  /\ MaxRequests \in Nat
  /\ MaxFaults \in Nat
  /\ AnyContestId \in BOOLEAN

Slots == {1, 2}
BadSlot == 3   \* stands for every imgslot other than 1 and 2

VARIABLES
  contest,   \* table contest: row c is contest[c]
  images,    \* table images: row i is images[i]
  lastId,    \* LAST_INSERT_ID() of each worker's session
  work,      \* what each worker is executing
  faults     \* faults so far

vars == <<contest, images, lastId, work, faults>>

\* Row of images: who owns it, and the upload it belongs to, named by the id
\* of the full-size image of that upload.
NewImage(u, of) == [owner |-> u, of |-> of]

NewContestMinusOne(u, p) ==           \* mutant: an empty image column is -1
  [user |-> [s \in Slots |-> IF s = 1 THEN u ELSE None],
   image |-> [s \in Slots |-> -1],
   thumb |-> [s \in Slots |-> -1],
   perm |-> p]

\* The row createContest() inserts; the columns it does not name are empty,
\* and getInt() reads an empty column as 0.
NewContest(u, p) ==
  [user |-> [s \in Slots |-> IF s = 1 THEN u ELSE None],
   image |-> [s \in Slots |-> None],
   thumb |-> [s \in Slots |-> None],
   perm |-> p]

\* What an answer shows of an entry: the user named and whose picture it is.
\* Blank is nothing yet.
View(u, o) == [user |-> u, owner |-> o]
Blank == View(None, None)

Idle(reply) ==
  [pc |-> "idle", user |-> None, contest |-> 0, slot |-> 0, perm |-> None,
   image |-> 0, thumb |-> 0, reply |-> reply, rows |-> {}, shown |-> Blank]

-----------------------------------------------------------------------------
Exists(c) == c \in 1 .. Len(contest)

Fault == faults < MaxFaults /\ faults' = faults + 1
Goto(w, label) == work' = [work EXCEPT ![w].pc = label]
Answer(w, reply) == work' = [work EXCEPT ![w] = Idle(reply)]

AllowedAnyone(row, u, s) == row.perm # Locked      \* mutant: no check of users

\* updateImage()'s test on the row it has read.  The last disjunct can never
\* decide: a slot that is free was already let through by the first.
Allowed(row, u, s) ==
  /\ row.perm # Locked
  /\ \/ s \in Slots /\ row.user[s] \in {None, u}
     \/ row.perm \in {None, Public}
     \/ s \in Slots /\ row.user[s] = None /\ row.perm = u

LatestImage(w) == Len(images)          \* mutant: SELECT MAX(id) FROM images

LatestContest(w) == Len(contest)       \* mutant: the same for contest

\* SELECT LAST_INSERT_ID(): what this session inserted last.
ImageKey(w) == lastId[w]
ContestKey(w) == lastId[w]

EnteredRowNoUser(row, s, u, i, t) ==   \* mutant: userS is not written again
  [row EXCEPT !.user[s] = IF @ = None THEN u ELSE @, !.image[s] = i, !.thumb[s] = t]

\* UPDATE contest SET imageS, userS, thumbS: one statement, three columns.
EnteredRow(row, s, u, i, t) ==
  [row EXCEPT !.user[s] = u, !.image[s] = i, !.thumb[s] = t]
Entered(c, s, u, i, t) ==
  IF Exists(c)
  THEN [contest EXCEPT ![c] = EnteredRow(contest[c], s, u, i, t)]
  ELSE contest

\* The entries that a SELECT finds in slots ss of the contests cs: the user of
\* a slot with the id of the image or thumbnail.  Empty columns show nothing.
Taken(cs, ss) ==
  {e \in (cs \cap DOMAIN contest) \X ss : contest[e[1]].image[e[2]] # None}
Pictures(cs, ss) ==
  {[user |-> contest[e[1]].user[e[2]], image |-> contest[e[1]].image[e[2]]] :
     e \in Taken(cs, ss)}
Thumbs(cs) ==
  {[user |-> contest[e[1]].user[e[2]], image |-> contest[e[1]].thumb[e[2]]] :
     e \in Taken(cs, Slots)}

\* The row of images that getImage() finds; None is the empty text.
PictureOf(i) == IF i \in 1 .. Len(images) THEN images[i].owner ELSE None

\* The bound leaves room for one more request, with those counted that are
\* under way and may still insert rows.
Creating == {w \in Workers : work[w].pc = "insert"}
Uploading == {w \in Workers : work[w].pc \in
                {"check", "image", "imageid", "thumb", "thumbid", "update"}}
Room ==
  LET contests == Len(contest) + Cardinality(Creating)
      pictures == Len(images) + 2 * Cardinality(Uploading)
  IN  2 * contests + pictures + 2 <= 2 * MaxRequests

-----------------------------------------------------------------------------
\* createContest() is entered with a permission that is Public, None or the
\* id of the invited user, or is refused.  The connection's session is new.
CreateContest(w, u, p) ==
  /\ work[w].pc = "idle"
  /\ p = Refused \/ Room
  /\ work' = [work EXCEPT ![w] =
       IF p = Refused THEN Idle("1013")
       ELSE [Idle("none") EXCEPT !.pc = "insert", !.user = u, !.perm = p]]
  /\ lastId' = [lastId EXCEPT ![w] = 0]
  /\ UNCHANGED <<contest, images, faults>>

InsertContest(w) ==
  LET inserted == Append(contest, NewContest(work[w].user, work[w].perm))
  IN  /\ work[w].pc = "insert"
      /\ \/ /\ contest' = inserted
            /\ lastId' = [lastId EXCEPT ![w] = Len(inserted)]
            /\ Goto(w, "key")
            /\ UNCHANGED faults
         \/ /\ Fault
            /\ \/ Answer(w, "1013") /\ UNCHANGED contest
               \/ Answer(w, "1003") /\ contest' \in {contest, inserted}
            /\ UNCHANGED lastId
      /\ UNCHANGED images

\* The key answered is that of work[w].contest.
ReadContestKey(w) ==
  /\ work[w].pc = "key"
  /\ \/ /\ work' = [work EXCEPT ![w].pc = "idle", ![w].reply = "key",
                                ![w].contest = ContestKey(w)]
        /\ UNCHANGED faults
     \/ Fault /\ Answer(w, "1003")
  /\ UNCHANGED <<contest, images, lastId>>

\* updateImage() is entered.
UpdateImage(w, u, c, s) ==
  /\ work[w].pc = "idle"
  /\ AnyContestId \/ Exists(c)
  /\ Room
  /\ work' = [work EXCEPT ![w] = [Idle("none") EXCEPT !.pc = "check",
                !.user = u, !.contest = c, !.slot = s]]
  /\ lastId' = [lastId EXCEPT ![w] = 0]
  /\ UNCHANGED <<contest, images, faults>>

\* The SELECT and the test.  For a contest that does not exist the locals
\* were never assigned: reading them may refuse the request or let it pass.
CheckSlot(w) ==
  LET c == work[w].contest
  IN  /\ work[w].pc = "check"
      /\ \/ /\ Exists(c) => Allowed(contest[c], work[w].user, work[w].slot)
            /\ Goto(w, "image")
            /\ UNCHANGED faults
         \/ /\ Exists(c) => ~Allowed(contest[c], work[w].user, work[w].slot)
            /\ Answer(w, "1000")
            /\ UNCHANGED faults
         \/ Fault /\ \E reply \in {"1002", "1012"} : Answer(w, reply)
      /\ UNCHANGED <<contest, images, lastId>>

\* insertImage(), called for the image and then for its thumbnail.
InsertImage(w) ==
  LET id == Len(images) + 1
      of == IF work[w].pc = "image" THEN id ELSE work[w].image
      inserted == Append(images, NewImage(work[w].user, of))
  IN  /\ \/ /\ work[w].pc = "image" /\ Goto(w, "imageid")
            /\ UNCHANGED faults /\ images' = inserted
            /\ lastId' = [lastId EXCEPT ![w] = id]
         \/ /\ work[w].pc = "thumb" /\ Goto(w, "thumbid")
            /\ UNCHANGED faults /\ images' = inserted
            /\ lastId' = [lastId EXCEPT ![w] = id]
         \/ /\ work[w].pc \in {"image", "thumb"}
            /\ Fault /\ Answer(w, "999")
            /\ images' \in {images, inserted} /\ UNCHANGED lastId
      /\ UNCHANGED contest

ReadImageId(w) ==
  /\ \/ /\ work[w].pc = "imageid"
        /\ work' = [work EXCEPT ![w].pc = "thumb", ![w].image = ImageKey(w)]
        /\ UNCHANGED faults
     \/ /\ work[w].pc = "thumbid"
        /\ work' = [work EXCEPT ![w].pc = "update", ![w].thumb = ImageKey(w)]
        /\ UNCHANGED faults
     \/ /\ work[w].pc \in {"imageid", "thumbid"}
        /\ Fault /\ Answer(w, "999")
  /\ UNCHANGED <<contest, images, lastId>>

\* The UPDATE; how many rows it matched is not looked at.  A slot that is
\* neither 1 nor 2 is refused only here, after both images were inserted.
UpdateEntry(w) ==
  LET r == work[w]
      entered == Entered(r.contest, r.slot, r.user, r.image, r.thumb)
  IN  /\ r.pc = "update"
      /\ \/ /\ r.slot \notin Slots
            /\ Answer(w, "1013")
            /\ UNCHANGED <<contest, faults>>
         \/ /\ r.slot \in Slots
            /\ contest' = entered
            /\ Answer(w, "1011")
            /\ UNCHANGED faults
         \/ /\ r.slot \in Slots
            /\ contest' \in {contest, entered}
            /\ Answer(w, "1012")
            /\ Fault
      /\ UNCHANGED <<images, lastId>>

\* A function that shows contests: its SELECT on a new session takes the
\* rows, the images and names are looked up later, a statement each.
Select(w, slot, rows) ==
  /\ work[w].pc = "idle"
  /\ work' = [work EXCEPT ![w] =
       [Idle("none") EXCEPT !.pc = "look", !.slot = slot, !.rows = rows]]
  /\ lastId' = [lastId EXCEPT ![w] = 0]
  /\ UNCHANGED <<contest, images, faults>>

\* The SELECT fails, or getUserContests() is not told an id by getUserID(),
\* whether that failed or found nobody.
ReadFails(w) ==
  /\ work[w].pc = "idle"
  /\ \/ Fault /\ \E reply \in {"1002", "1003"} : Answer(w, reply)
     \/ Answer(w, "1013") /\ UNCHANGED faults
  /\ lastId' = [lastId EXCEPT ![w] = 0]
  /\ UNCHANGED <<contest, images>>

GetContest(w, c) == Select(w, 0, Pictures({c}, Slots))

\* LIMIT takes any part of the user's contests.
GetUserContests(w, u) ==
  \E part \in SUBSET {c \in DOMAIN contest : u \in {contest[c].user[1],
                          contest[c].user[2], contest[c].perm}} :
    Select(w, 0, Thumbs(part))

\* getRandomContests(); getTopContests() tests two maxima that are the same
\* for every row: all contests pass or none.
GetContestList(w) ==
  \E all \in {{}, DOMAIN contest} : Select(w, 0, Thumbs(all))

\* publicGetImage(): the image of one slot.  Contest 0 and another slot are
\* refused before the database is asked.
PublicGetImage(w, c, s) == Select(w, s, Pictures({c}, {s}))

Show(w, row, view) ==
  work' = [work EXCEPT ![w].shown = view, ![w].rows = @ \ {row}]

\* getImage() and getUsername() of an entry.  A failed statement shows "NULL"
\* or no name; in publicGetImage(), which names no user, it is the answer.
ShowEntry(w) ==
  /\ work[w].pc = "look"
  /\ \E row \in work[w].rows :
       \/ /\ Show(w, row, View(row.user, PictureOf(row.image)))
          /\ UNCHANGED faults
       \/ /\ work[w].slot = 0 /\ Fault
          /\ \/ Show(w, row, View(row.user, Unread))
             \/ Show(w, row, View(None, PictureOf(row.image)))
       \/ work[w].slot # 0 /\ Fault /\ Answer(w, "1003")
  /\ UNCHANGED <<contest, images, lastId>>

\* All rows are shown: the text is returned.
EndView(w) ==
  /\ work[w].pc = "look" /\ work[w].rows = {}
  /\ Answer(w, "view")
  /\ UNCHANGED <<contest, images, lastId, faults>>

\* Not in this repository: somebody sets a contest's permission to Locked.
Lock(c) ==
  /\ Exists(c)
  /\ contest' = [contest EXCEPT ![c].perm = Locked]
  /\ UNCHANGED <<images, lastId, work, faults>>

\* The process dies and is started again; the tables survive.
Crash ==
  /\ Fault
  /\ work' = [w \in Workers |-> Idle("none")]
  /\ lastId' = [w \in Workers |-> 0]
  /\ UNCHANGED <<contest, images>>

-----------------------------------------------------------------------------
Init ==
  /\ contest = << >>
  /\ images = << >>
  /\ lastId = [w \in Workers |-> 0]
  /\ work = [w \in Workers |-> Idle("none")]
  /\ faults = 0

Step(w) ==
  \/ InsertContest(w)
  \/ ReadContestKey(w)
  \/ CheckSlot(w)
  \/ InsertImage(w)
  \/ ReadImageId(w)
  \/ UpdateEntry(w)

Read(w) ==
  \/ \E c \in 1 .. MaxRequests : GetContest(w, c)
  \/ \E u \in Users : GetUserContests(w, u)
  \/ GetContestList(w)
  \/ \E c \in 1 .. MaxRequests, s \in Slots : PublicGetImage(w, c, s)
  \/ ReadFails(w)
  \/ ShowEntry(w)
  \/ EndView(w)

Next ==
  \/ \E w \in Workers, u \in Users, p \in Users \cup {None, Public, Refused} :
       CreateContest(w, u, p)
  \/ \E w \in Workers, u \in Users, c \in 1 .. MaxRequests,
        s \in Slots \cup {BadSlot} : UpdateImage(w, u, c, s)
  \/ \E w \in Workers : Step(w) \/ Read(w)
  \/ \E c \in 1 .. MaxRequests : Lock(c)
  \/ Crash

Spec == Init /\ [][Next]_vars

-----------------------------------------------------------------------------
Labels == {"idle", "insert", "key", "check", "image", "imageid", "thumb",
           "thumbid", "update", "look"}
Replies == {"none", "key", "view", "999", "1000", "1002", "1003", "1011", "1012",
            "1013"}

ContestRow == [user : [Slots -> Users \cup {None}],
               image : [Slots -> Nat],
               thumb : [Slots -> Nat],
               perm : Users \cup {None, Public, Locked}]
ImageRow == [owner : Users, of : Nat]
EntryType == [user : Users \cup {None}, image : Nat]
WorkType == [pc : Labels, user : Users \cup {None}, contest : Nat,
             slot : Slots \cup {0, BadSlot}, perm : Users \cup {None, Public},
             image : Nat, thumb : Nat, reply : Replies,
             rows : SUBSET EntryType,
             shown : [user : Users \cup {None}, owner : Users \cup {None, Unread}]]

WorkOK ==
  /\ work \in [Workers -> WorkType]
  /\ \A w \in Workers : work[w].pc \notin {"idle", "look"} => work[w].user \in Users

\* Every table, session and worker keeps its type; a worker past the entry of
\* an operation acts for a real user.
TypeOK ==
  /\ contest \in Seq(ContestRow)
  /\ images \in Seq(ImageRow)
  /\ lastId \in [Workers -> Nat]
  /\ WorkOK
  /\ faults \in 0 .. MaxFaults

\* i and t are an image and its thumbnail, uploaded together by u.
Upload(u, i, t) ==
  /\ i \in 1 .. Len(images) /\ t \in 1 .. Len(images) /\ i # t
  /\ images[i] = NewImage(u, i)
  /\ images[t] = NewImage(u, i)

\* However uploads race, fail or are cut off, what a contest shows in a slot
\* is one upload of the user of that slot: never one user's name with another
\* user's picture, nor a picture with the thumbnail of another
\* (updateImage(), srv_db.cpp:607-659, insertImage() 480-523).
EntryWhole ==
  \A c \in 1 .. Len(contest), s \in Slots :
    contest[c].image[s] # None =>
      Upload(contest[c].user[s], contest[c].image[s], contest[c].thumb[s])

\* Whoever reads a contest while uploads replace its pictures is shown, next
\* to a name, that user's picture: the row may be old by the time getImage()
\* looks the image up (srv_db.cpp:467-471, 689-693, 748), but what it names
\* is still there.  Only a failed statement leaves a name or picture out.
ViewWhole ==
  \A w \in Workers :
    LET view == work[w].shown
    IN  view # Blank => \/ view.owner \in {view.user, Unread}
                        \/ view.user = None /\ view.owner \in Users

\* The key createContest() answers is the key of the contest this request
\* made, although other sessions insert between its INSERT and its SELECT
\* LAST_INSERT_ID() (srv_db.cpp:393-399): no two requests get one key, and a
\* contest with an invited user is the requester's.
KeyIsOwn ==
  \A w \in Workers : work[w].pc = "idle" /\ work[w].reply = "key" =>
    /\ Exists(work[w].contest)
    /\ contest[work[w].contest].perm \in Users =>
         contest[work[w].contest].user[1] = work[w].user
    /\ \A x \in Workers \ {w} : work[x].pc = "idle" /\ work[x].reply = "key" =>
         work[x].contest # work[w].contest

\* In a contest made for an invited user the creator's slot is never taken
\* over, even by an upload that passed the test before another one finished,
\* as long as requests name contests that exist: the test of updateImage()
\* (srv_db.cpp:580-607) on locals it never assigned would let anyone pass.
CreatorKeepsSlot ==
  [][\A c \in 1 .. Len(contest) : contest[c].perm \in Users =>
       contest'[c].user[1] = contest[c].user[1]]_vars

\* In such a contest the second slot, once taken, stays its user's.  It holds
\* while requests are served one at a time; two at once break it, because the
\* test reads the row before the uploads and the UPDATE does not repeat it.
SecondSlotKept ==
  [][\A c \in 1 .. Len(contest) :
       contest[c].perm \in Users /\ contest[c].user[2] # None =>
         contest'[c].user[2] = contest[c].user[2]]_vars

-----------------------------------------------------------------------------
(* createContest() and updateImage() as the gallery of module Gallery.     *)

NoPicture == NewImage(None, 0)

\* What slot s of a row shows: nothing while its image column is empty, else
\* the rows of images that its two columns name.
Shown(row, s, i) == IF row.image[s] = None THEN NoPicture ELSE images[i]
Hung(row) ==
  [perm |-> row.perm,
   place |-> [s \in Slots |->
                [user |-> row.user[s], image |-> Shown(row, s, row.image[s]),
                 thumb |-> Shown(row, s, row.thumb[s])]]]
HungContests == [c \in DOMAIN contest |-> Hung(contest[c])]

\* A worker is admitted from the test of updateImage() to its answer, with
\* the full-size image in its session, then in the request.
Admitted(w) ==
  work[w].slot \in Slots /\
  work[w].pc \in {"image", "imageid", "thumb", "thumbid", "update"}
Carried(w) ==
  CASE work[w].pc = "image"   -> NoPicture
    [] work[w].pc = "imageid" -> NewImage(work[w].user, lastId[w])
    [] OTHER                  -> NewImage(work[w].user, work[w].image)
Admission(w) ==
  IF Admitted(w)
  THEN [user |-> work[w].user, contest |-> work[w].contest,
        place |-> work[w].slot, picture |-> Carried(w)]
  ELSE [user |-> None, contest |-> 0, place |-> 0, picture |-> NoPicture]

\* createContest() and updateImage() implement the gallery of module Gallery:
\* an UPDATE hangs the picture made since the test of its place, with its own
\* thumbnail; what was tested then still decides, though the row has changed
\* (srv_db.cpp:580-607); and a request that fails leaves at most a picture
\* that nobody shows (srv_db.cpp:525-659, 340-411).
Wall == INSTANCE Gallery WITH
          Visitors <- Workers,
          Numbers <- 1 .. MaxRequests,
          contests <- HungContests,
          admitted <- [w \in Workers |-> Admission(w)],
          pictures <- Len(images)
GallerySpec == Wall!Spec
=============================================================================

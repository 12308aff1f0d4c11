------------------------------ MODULE LogsProofs ------------------------------
(***************************************************************************)
(* Proofs about Logs for any Jobs and whatever their names share, any      *)
(* bounds of the files and of the tails; and about PanelFrame, where the   *)
(* panel of the logs lies.                                                 *)
(***************************************************************************)
EXTENDS Logs, TLAPS

-----------------------------------------------------------------------------
(* The inductive invariant                                                 *)

Lines  == Jobs \X Nat
Files  == [of : Jobs, at : Nat, lines : Seq(Lines)]
Snaps  == [lines : Seq(Lines), total : Nat, file : BOOLEAN]
Polls  == [gen : Nat, job : Jobs \cup {"none"}, kind : {"tail", "list"}, done : BOOLEAN, ok : BOOLEAN,
           snap : Snaps]
Panels == [job : Jobs \cup {"none"}, paused : BOOLEAN, known : BOOLEAN, gen : Nat,
           timer : BOOLEAN, seen : Snaps, clear : Snaps, clears : Nat, shown : Seq(Lines),
           connected : BOOLEAN]

TypedFiles == dir \in SUBSET Files /\ size \in [Jobs -> Nat] /\ last \in [Jobs -> Nat]
TypedPanel == panel \in Panels /\ reqs \in SUBSET Polls
TypedPage  == {"job", "files", "file", "view", "content"} \subseteq DOMAIN page
              /\ page = [k \in DOMAIN page |-> page[k]]

\* Files hold lines of their Job, of the numbers up to the last one written.
Own(d)     == \A f \in d : \A i \in DOMAIN f.lines :
                f.lines[i][1] = f.of /\ f.lines[i][2] \in 1..last[f.of]
Single(d)  == \A f, g \in d : f.of = g.of /\ f.at = 0 /\ g.at = 0 => f = g
Counted    == \A j \in Jobs : size[j] > 0 => last[j] > 0
FilesFit   == TypedFiles /\ Own(dir) /\ Single(dir) /\ Counted

(* A snapshot has lines of the panel's Job; what follows it beyond as many  *)
(* lines as it counts is newer, and all is when there are fewer: the file   *)
(* is another one then.                                                     *)
Number(l) == l[2]
Follows(lines, total, b) ==
  b.file => \A i \in DOMAIN lines :
    (total >= b.total => total - Len(lines) + i > b.total)
       => \A k \in DOMAIN b.lines : Number(b.lines[k]) < Number(lines[i])

OwnSnap(s) == /\ Len(s.lines) <= s.total
              /\ \A i \in DOMAIN s.lines :
                   s.lines[i][1] = panel.job /\ Number(s.lines[i]) \in 1..last[panel.job]

Current(r) == r.gen = panel.gen
Heard(r)   == r.done /\ r.ok /\ r.kind = "tail" /\ Current(r)
Newest(d, j) == TheFile(Active(d, j)).lines
Now        == Newest(dir, panel.job)

\* One request of the current run at a time, or the timer.
OneAtATime ==
  /\ \A r \in reqs : r.gen <= panel.gen /\ r.job = panel.job
  /\ \A r, q \in reqs : Current(r) /\ Current(q) => r = q
  /\ panel.timer => \A r \in reqs : ~Current(r)

\* What the panel has heard, its Clear and an answer on its way are in order.
Past(b)  == OwnSnap(b) /\ Follows(Now, Len(Now), b)
InOrder ==
  /\ Past(panel.seen) /\ Past(panel.clear)
  /\ \A r \in reqs : Heard(r) => /\ Past(r.snap)
                                 /\ Follows(r.snap.lines, r.snap.total, panel.seen)
                                 /\ Follows(r.snap.lines, r.snap.total, panel.clear)

Hidden == cleared = IF panel.clear.file THEN ToSet(panel.clear.lines) ELSE {}

PanelFits == TypedPanel /\ OneAtATime /\ InOrder /\ Hidden /\ ClearedStayHidden
             /\ \A i \in DOMAIN panel.shown : panel.shown[i][1] = panel.job

\* The page reads files of its list; what it shows it has read of one of them.
ReadsOwn(r) == r.job = page.job /\ r.file \in page.files
ShownOfOne  ==
  page.content # << >> => \E key \in page.files :
    /\ key.of = page.job \/ (key.at = 0 /\ Stem[key.of] = page.job)
    /\ \A i \in DOMAIN page.content : page.content[i][1] = key.of
PageFits ==
  /\ TypedPage
  /\ page.file \in page.files \cup {Key(NoFile)}
  /\ \A r \in reads : ReadsOwn(r)
  /\ ShownOfOne

IInv == FilesFit /\ PanelFits /\ PageFits

-----------------------------------------------------------------------------
(* The operators                                                           *)

\* The last lines of a sequence are lines of it, in their places.
LEMMA LastOfFits ==
  ASSUME NEW s \in Seq(Lines), NEW n \in Nat
  PROVE  /\ LastOf(s, n) \in Seq(Lines) /\ Len(LastOf(s, n)) <= Len(s)
         /\ \A i \in DOMAIN LastOf(s, n) :
              /\ Len(s) - Len(LastOf(s, n)) + i \in DOMAIN s
              /\ LastOf(s, n)[i] = s[Len(s) - Len(LastOf(s, n)) + i]
  <1>1. PICK m \in Nat : m = IF Len(s) > n THEN Len(s) - n + 1 ELSE 1
    OBVIOUS
  <1>2. LastOf(s, n) = SubSeq(s, m, Len(s)) /\ m \in 1..Len(s) + 1
    BY <1>1 DEF LastOf
  <1>3. QED
    BY <1>2

\* What the panel shows of a snapshot is of it, and beyond what was cleared.
LEMMA VisibleFits ==
  ASSUME ConstantsFit, NEW s \in Snaps, NEW c \in Snaps, Len(s.lines) <= s.total
  PROVE  /\ VisibleTail(s, c) \in Seq(Lines)
         /\ \A i \in DOMAIN VisibleTail(s, c) : \E k \in DOMAIN s.lines :
              /\ VisibleTail(s, c)[i] = s.lines[k]
              /\ c.file /\ s.total >= c.total => s.total - Len(s.lines) + k > c.total
  <1>1. s.lines \in Seq(Lines) /\ s.total \in Nat /\ c.total \in Nat /\ PanelLines \in Nat
    BY DEF Snaps, ConstantsFit
  <1>2. PICK first \in Nat : first = s.total - Len(s.lines)
    BY <1>1
  <1>3. PICK from \in Nat : from = IF c.total > first THEN c.total - first ELSE 0
    BY <1>1, <1>2
  <1>4. PICK l : l = IF c.file /\ s.total >= c.total THEN SubSeq(s.lines, from + 1, Len(s.lines))
                     ELSE s.lines
    OBVIOUS
  <1>5. VisibleTail(s, c) = LastOf(l, PanelLines)
    BY <1>2, <1>3, <1>4 DEF VisibleTail
  <1>6. CASE c.file /\ s.total >= c.total
    <2>1. from <= Len(s.lines)
      BY <1>1, <1>2, <1>3, <1>6
    <2>2. l = SubSeq(s.lines, from + 1, Len(s.lines))
      BY <1>4, <1>6
    <2>3. l \in Seq(Lines) /\ \A i \in DOMAIN l : from + i \in DOMAIN s.lines /\ l[i] = s.lines[from + i]
      BY <1>1, <2>1, <2>2
    <2>4. ASSUME NEW i \in DOMAIN l PROVE s.total - Len(s.lines) + (from + i) > c.total
      BY <1>1, <1>2, <1>3, <2>3, <2>4
    <2>5. QED
      BY <1>1, <1>5, <2>3, <2>4, LastOfFits
  <1>7. CASE ~(c.file /\ s.total >= c.total)
    BY <1>1, <1>4, <1>5, <1>7, LastOfFits
  <1>8. QED
    BY <1>6, <1>7

\* What is read of a file are lines of it.
LEMMA ReadAsFits ==
  ASSUME ConstantsFit, NEW f, f.lines \in Seq(Lines), NEW kind
  PROVE  \A i \in DOMAIN ReadAs(kind, f) : \E k \in DOMAIN f.lines : ReadAs(kind, f)[i] = f.lines[k]
  <1>1. TailLines \in Nat
    BY DEF ConstantsFit
  <1>2. CASE kind = "tail"
    BY <1>1, <1>2, LastOfFits DEF ReadAs
  <1>3. CASE kind = "content"
    <2>1. PICK n \in Nat : n = (IF Len(f.lines) < TailLines THEN Len(f.lines) ELSE TailLines)
                           /\ n <= Len(f.lines)
      BY <1>1
    <2>2. ReadAs(kind, f) = SubSeq(f.lines, 1, n)
      BY <1>3, <2>1 DEF ReadAs
    <2>3. QED
      BY <2>1, <2>2
  <1>4. CASE kind # "tail" /\ kind # "content"
    BY <1>4 DEF ReadAs
  <1>5. QED
    BY <1>2, <1>3, <1>4

\* The one active file of a Job, if there is any.
LEMMA TheActive ==
  ASSUME NEW d \in SUBSET Files, Single(d), NEW j
  PROVE  /\ Active(d, j) = {} => TheFile(Active(d, j)) = NoFile
         /\ \A f \in Active(d, j) : TheFile(Active(d, j)) = f
         /\ TheFile(Active(d, j)).lines \in Seq(Lines)
  <1>1. Active(d, j) = {} => TheFile(Active(d, j)) = NoFile
    BY DEF TheFile
  <1>2. \A f \in Active(d, j) : TheFile(Active(d, j)) = f
    BY DEF TheFile, Active, Single
  <1>3. NoFile.lines = << >> /\ << >> \in Seq(Lines)
    BY DEF NoFile
  <1>4. CASE Active(d, j) = {}
    <2>1. TheFile(Active(d, j)) = NoFile
      BY <1>1, <1>4
    <2>2. QED
      BY <1>2, <1>3, <2>1, <1>4
  <1>5. ASSUME NEW f \in Active(d, j) PROVE f.lines \in Seq(Lines)
    BY DEF Active, Files
  <1>6. QED
    BY <1>1, <1>2, <1>4, <1>5

-----------------------------------------------------------------------------
(* The files                                                               *)

\* A turn-over makes no file active, whatever it renames and purges.
LEMMA Turned ==
  ASSUME FilesFit, NEW j \in Jobs, last[j] > 0, NEW ok \in BOOLEAN, NEW d, d = Rotated(dir, j, ok)
  PROVE  /\ d \in SUBSET Files /\ Own(d) /\ Single(d)
         /\ \A k : Active(d, k) \subseteq Active(dir, k)
  <1>1. PICK e : e = IF ok THEN (dir \ Active(dir, j)) \cup {[f EXCEPT !.at = last[j]] : f \in Active(dir, j)}
                     ELSE dir
    OBVIOUS
  <1>2. d \subseteq e
    BY <1>1 DEF Rotated, Purged
  <1>3. dir \in SUBSET Files /\ last[j] \in Nat
    BY DEF FilesFit, TypedFiles
  <1>4. \A f \in Files : LET g == [f EXCEPT !.at = last[j]]
                         IN g \in Files /\ g.of = f.of /\ g.lines = f.lines /\ g.at = last[j]
    BY <1>3 DEF Files
  <1>5. ASSUME NEW g \in e
        PROVE  g \in Files /\ (g \in dir \/ (g.at # 0 /\ \E f \in dir : f.of = g.of /\ f.lines = g.lines))
    <2>1. CASE g \in dir
      BY <1>3, <2>1
    <2>2. CASE g \notin dir
      <3>1. PICK f \in Active(dir, j) : g = [f EXCEPT !.at = last[j]]
        BY <1>1, <2>2
      <3>2. f \in dir /\ f \in Files
        BY <1>3 DEF Active
      <3>3. QED
        BY <1>4, <3>1, <3>2
    <2>3. QED
      BY <2>1, <2>2
  <1>6. Own(d)
    BY <1>2, <1>5 DEF FilesFit, Own
  <1>7. Single(d) /\ \A k : Active(d, k) \subseteq Active(dir, k)
    BY <1>2, <1>5 DEF FilesFit, Single, Active
  <1>8. QED
    BY <1>2, <1>5, <1>6, <1>7

\* The files a line leaves, d being those that a turn-over left.
Grown(d, j) ==
  /\ Single(d) /\ \A k : Active(d, k) \subseteq Active(dir, k)
  /\ dir' = d \/ \E new \in Files :
        /\ dir' = (d \ Active(d, j)) \cup {new} /\ new.of = j /\ new.at = 0
        /\ new.lines = Append(TheFile(Active(d, j)).lines, <<j, last[j] + 1>>)

\* What a line that is written does to the files ...
LEMMA WriteFiles ==
  ASSUME FilesFit, NEW j \in Jobs, NEW moved \in BOOLEAN, NEW ok \in BOOLEAN, Write(j, moved, ok)
  PROVE  /\ FilesFit' /\ last' = [last EXCEPT ![j] = @ + 1]
         /\ \E d \in SUBSET Files : Grown(d, j)
  <1>1. PICK turns \in BOOLEAN : turns <=> size[j] > 0 /\ size[j] + 1 > MaxLines
    OBVIOUS
  <1>2. PICK d : d = IF turns THEN Rotated(dir, j, moved) ELSE dir
    OBVIOUS
  <1>3. PICK n : n = IF turns THEN 0 ELSE size[j]
    OBVIOUS
  <1>4. PICK f : f = TheFile(Active(d, j))
    OBVIOUS
  <1>5. PICK line : line = <<j, last[j] + 1>>
    OBVIOUS
  <1>6. last[j] \in Nat /\ size[j] \in Nat /\ n \in Nat
    BY <1>3 DEF FilesFit, TypedFiles
  <1>7. /\ last' = [last EXCEPT ![j] = @ + 1]
        /\ IF ok THEN /\ dir' = (d \ Active(d, j)) \cup {[of |-> j, at |-> 0, lines |-> Append(f.lines, line)]}
                      /\ size' = [size EXCEPT ![j] = n + 1]
                 ELSE dir' = d /\ size' = [size EXCEPT ![j] = 0]
    BY <1>1, <1>2, <1>3, <1>4, <1>5 DEF Write
  <1>8. /\ d \in SUBSET Files /\ Own(d) /\ Single(d)
        /\ \A k : Active(d, k) \subseteq Active(dir, k)
    <2>1. CASE turns
      <3>1. last[j] > 0
        BY <1>1, <2>1 DEF FilesFit, Counted
      <3>2. QED
        BY <1>2, <2>1, <3>1, Turned
    <2>2. CASE ~turns
      BY <1>2, <2>2 DEF FilesFit, TypedFiles
    <2>3. QED
      BY <2>1, <2>2
  <1>9. /\ last' \in [Jobs -> Nat] /\ last'[j] = last[j] + 1 /\ size' \in [Jobs -> Nat]
        /\ \A k \in Jobs : last[k] <= last'[k] /\ last'[k] \in Nat /\ last[k] \in Nat
        /\ \A k \in Jobs \ {j} : size'[k] = size[k]
    BY <1>6, <1>7 DEF FilesFit, TypedFiles
  <1>10. Counted'
    BY <1>6, <1>9 DEF FilesFit, Counted
  <1>11. \A g \in d : \A i \in DOMAIN g.lines :
            g.lines[i][1] = g.of /\ g.lines[i][2] \in 1..last'[g.of]
    <2> SUFFICES ASSUME NEW g \in d, NEW i \in DOMAIN g.lines
                 PROVE  g.lines[i][1] = g.of /\ g.lines[i][2] \in 1..last'[g.of]
      OBVIOUS
    <2>1. g.of \in Jobs /\ g.lines[i][1] = g.of /\ g.lines[i][2] \in 1..last[g.of]
      BY <1>8 DEF Own, Files
    <2>2. QED
      BY <1>9, <2>1
  <1>12. CASE ~ok
    <2>1. dir' = d
      BY <1>7, <1>12
    <2>2. TypedFiles' /\ Own(dir)' /\ Single(dir)'
      BY <1>8, <1>9, <1>11, <2>1 DEF TypedFiles, Own, Single
    <2>3. QED
      BY <1>7, <1>8, <1>10, <2>1, <2>2 DEF FilesFit, Grown
  <1>13. CASE ok
    <2>1. PICK new : new = [of |-> j, at |-> 0, lines |-> Append(f.lines, line)]
      OBVIOUS
    <2>2. dir' = (d \ Active(d, j)) \cup {new}
      BY <1>7, <1>13, <2>1
    <2>3. f.lines \in Seq(Lines) /\ line \in Lines
      BY <1>4, <1>5, <1>6, <1>8, TheActive DEF Lines
    <2>4. Append(f.lines, line) \in Seq(Lines)
      BY <2>3
    <2>5. new \in Files /\ new.of = j /\ new.at = 0 /\ new.lines = Append(f.lines, line)
      BY <2>1, <2>4 DEF Files
    <2>6. Single(dir')
      BY <1>8, <2>2, <2>5 DEF Single, Active
    <2>7. \A i \in DOMAIN f.lines : f.lines[i][1] = j /\ f.lines[i][2] \in 1..last'[j]
      <3>1. CASE Active(d, j) = {}
        <4>1. f = NoFile
          BY <1>4, <1>8, <3>1, TheActive
        <4>2. f.lines = << >>
          BY <4>1 DEF NoFile
        <4>3. QED
          BY <4>2
      <3>2. ASSUME NEW g \in Active(d, j)
            PROVE  \A i \in DOMAIN f.lines : f.lines[i][1] = j /\ f.lines[i][2] \in 1..last'[j]
        <4>1. g \in d /\ g.of = j /\ f = g
          BY <1>4, <1>8, TheActive DEF Active
        <4>2. QED
          BY <1>11, <4>1
      <3>3. QED
        BY <3>1, <3>2
    <2>8. \A i \in DOMAIN new.lines : new.lines[i][1] = j /\ new.lines[i][2] \in 1..last'[j]
      <3> SUFFICES ASSUME NEW i \in DOMAIN new.lines
                   PROVE  new.lines[i][1] = j /\ new.lines[i][2] \in 1..last'[j]
        OBVIOUS
      <3>1. CASE i \in DOMAIN f.lines
        BY <2>3, <2>5, <2>7, <3>1
      <3>2. CASE i \notin DOMAIN f.lines
        <4>1. new.lines[i] = line
          BY <2>3, <2>5, <3>2
        <4>2. QED
          BY <1>5, <1>6, <1>9, <4>1
      <3>3. QED
        BY <3>1, <3>2
    <2>9. Own(dir)'
      BY <1>11, <2>2, <2>5, <2>8 DEF Own
    <2>10. TypedFiles'
      BY <1>8, <1>9, <2>2, <2>5 DEF TypedFiles
    <2>11. FilesFit'
      BY <1>10, <2>6, <2>9, <2>10 DEF FilesFit, Single
    <2>12. Grown(d, j)
      BY <1>4, <1>5, <1>8, <2>2, <2>5 DEF Grown
    <2>13. QED
      BY <1>7, <1>8, <2>11, <2>12
  <1>14. QED
    BY <1>12, <1>13

\* ... and to the one the panel reads: it is gone, the same, a line longer or anew.
LEMMA WriteNow ==
  ASSUME FilesFit, NEW j \in Jobs, NEW moved \in BOOLEAN, NEW ok \in BOOLEAN, Write(j, moved, ok),
         NEW k, NEW now, now = Newest(dir, k), NEW then, then = Newest(dir', k)
  PROVE  /\ now \in Seq(Lines) /\ then \in Seq(Lines)
         /\ \/ then = << >> \/ then = now
            \/ /\ k = j
               /\ then = Append(now, <<j, last[j] + 1>>) \/ then = <<<<j, last[j] + 1>>>>
  <1>1. PICK d \in SUBSET Files :
              /\ Single(d) /\ \A i : Active(d, i) \subseteq Active(dir, i)
              /\ dir' = d \/ \E new \in Files :
                    /\ dir' = (d \ Active(d, j)) \cup {new} /\ new.of = j /\ new.at = 0
                    /\ new.lines = Append(TheFile(Active(d, j)).lines, <<j, last[j] + 1>>)
    <2>1. PICK d \in SUBSET Files : Grown(d, j)
      BY WriteFiles
    <2>2. QED
      BY <2>1 DEF Grown
  <1>2. dir \in SUBSET Files /\ Single(dir) /\ dir' \in SUBSET Files /\ Single(dir')
    BY WriteFiles DEF FilesFit, TypedFiles, Single
  <1>3. now \in Seq(Lines) /\ then \in Seq(Lines)
    BY <1>2, TheActive DEF Newest
  <1>4. PICK left : left = Newest(d, k)
    OBVIOUS
  <1>5. left = << >> \/ left = now
    <2>1. CASE Active(d, k) = {}
      <3>1. TheFile(Active(d, k)) = NoFile
        BY <1>1, <2>1, TheActive
      <3>2. QED
        BY <1>4, <3>1 DEF Newest, NoFile
    <2>2. ASSUME NEW f \in Active(d, k) PROVE left = now
      <3>1. f \in Active(dir, k)
        BY <1>1
      <3>2. TheFile(Active(d, k)) = f /\ TheFile(Active(dir, k)) = f
        BY <1>1, <1>2, <3>1, TheActive
      <3>3. QED
        BY <1>4, <3>2 DEF Newest
    <2>3. QED
      BY <2>1, <2>2
  <1>6. CASE dir' = d
    BY <1>3, <1>4, <1>5, <1>6 DEF Newest
  <1>7. ASSUME NEW new \in Files, dir' = (d \ Active(d, j)) \cup {new}, new.of = j, new.at = 0,
               new.lines = Append(TheFile(Active(d, j)).lines, <<j, last[j] + 1>>)
        PROVE  \/ then = << >> \/ then = now
               \/ /\ k = j
                  /\ then = Append(now, <<j, last[j] + 1>>) \/ then = <<<<j, last[j] + 1>>>>
    <2>1. CASE k = j
      <3>1. new \in Active(dir', k)
        BY <1>7, <2>1 DEF Active
      <3>2. TheFile(Active(dir', k)) = new
        BY <1>2, <3>1, TheActive
      <3>3. then = Append(left, <<j, last[j] + 1>>)
        BY <1>4, <1>7, <2>1, <3>2 DEF Newest
      <3>4. PICK line : line = <<j, last[j] + 1>>
        OBVIOUS
      <3>5. Append(<< >>, line) = <<line>>
        OBVIOUS
      <3>6. then = Append(left, line)
        BY <3>3, <3>4
      <3>7. then = Append(now, line) \/ then = <<line>>
        BY <1>5, <3>5, <3>6
      <3>8. QED
        BY <2>1, <3>4, <3>7
    <2>2. CASE k # j
      <3>1. Active(dir', k) = Active(d, k)
        BY <1>7, <2>2 DEF Active
      <3>2. QED
        BY <1>4, <1>5, <3>1 DEF Newest
    <2>3. QED
      BY <2>1, <2>2
  <1>8. QED
    BY <1>1, <1>3, <1>6, <1>7

\* Whatever follows a snapshot still does when the file grows or is another one.
LEMMA FollowsGrows ==
  ASSUME NEW now \in Seq(Lines), NEW then \in Seq(Lines), NEW b \in Snaps, NEW line \in Lines,
         Follows(now, Len(now), b),
         \A i \in DOMAIN b.lines : Number(b.lines[i]) \in Nat /\ Number(b.lines[i]) < Number(line),
         then = << >> \/ then = now \/ then = Append(now, line) \/ then = <<line>>
  PROVE  Follows(then, Len(then), b)
  <1>1. b.total \in Nat
    BY DEF Snaps
  <1> SUFFICES ASSUME b.file, NEW i \in DOMAIN then, Len(then) >= b.total => Len(then) - Len(then) + i > b.total,
                      NEW k \in DOMAIN b.lines
               PROVE  Number(b.lines[k]) < Number(then[i])
    BY DEF Follows
  <1>2. CASE then = << >>
    BY <1>2
  <1>3. CASE then = now
    BY <1>3 DEF Follows
  <1>4. CASE then = Append(now, line)
    <2>1. CASE i = Len(now) + 1
      BY <1>4, <2>1
    <2>2. CASE i # Len(now) + 1
      <3>1. i \in DOMAIN now /\ then[i] = now[i] /\ Len(then) = Len(now) + 1 /\ i <= Len(now) /\ i \in Nat
        BY <1>4, <2>2
      <3>2. Len(now) >= b.total => Len(now) - Len(now) + i > b.total
        BY <1>1, <3>1
      <3>3. QED
        BY <3>1, <3>2 DEF Follows
    <2>3. QED
      BY <2>1, <2>2
  <1>5. CASE then = <<line>>
    BY <1>5
  <1>6. QED
    BY <1>2, <1>3, <1>4, <1>5

-----------------------------------------------------------------------------
(* The steps                                                               *)

\* Writing leaves the panel's snapshots older than what the file has anew.
LEMMA WriteStep ==
  ASSUME IInv, NEW j \in Jobs, NEW moved \in BOOLEAN, NEW ok \in BOOLEAN, Write(j, moved, ok)
  PROVE  IInv'
  <1>1. FilesFit' /\ last' = [last EXCEPT ![j] = @ + 1] /\ UNCHANGED <<live, paged>>
    BY WriteFiles DEF IInv, Write
  <1>2. UNCHANGED <<panel, reqs, cleared, page, reads>>
    BY <1>1 DEF live, paged
  <1>3. PageFits'
    BY <1>2 DEF IInv, PageFits, TypedPage, ReadsOwn, ShownOfOne
  <1>4. last \in [Jobs -> Nat] /\ last' \in [Jobs -> Nat] /\ \A k \in Jobs : last[k] <= last'[k]
    BY <1>1 DEF IInv, FilesFit, TypedFiles
  <1>5. PICK now : now = Now
    OBVIOUS
  <1>6. PICK then : then = Now'
    OBVIOUS
  <1>7. PICK line : line = <<j, last[j] + 1>>
    OBVIOUS
  <1>8. /\ now \in Seq(Lines) /\ then \in Seq(Lines) /\ line \in Lines /\ Number(line) = last[j] + 1
        /\ \/ then = << >> \/ then = now
           \/ panel.job = j /\ (then = Append(now, line) \/ then = <<line>>)
    <2>1. now = Newest(dir, panel.job) /\ then = Newest(dir', panel.job)
      BY <1>2, <1>5, <1>6 DEF Now
    <2>2. line \in Lines /\ Number(line) = last[j] + 1
      BY <1>4, <1>7 DEF Lines, Number
    <2>3. FilesFit
      BY DEF IInv
    <2>4. /\ now \in Seq(Lines) /\ then \in Seq(Lines)
          /\ \/ then = << >> \/ then = now
             \/ /\ panel.job = j
                /\ then = Append(now, <<j, last[j] + 1>>) \/ then = <<<<j, last[j] + 1>>>>
      BY <2>1, <2>3, WriteNow
    <2>5. QED
      BY <1>7, <2>2, <2>4
  <1>9. ASSUME NEW s \in Snaps, OwnSnap(s) PROVE OwnSnap(s)'
    <2> SUFFICES ASSUME NEW i \in DOMAIN s.lines
                 PROVE  s.lines[i][1] = panel.job /\ Number(s.lines[i]) \in 1..last'[panel.job]
      BY <1>2, <1>9 DEF OwnSnap
    <2>1. s.lines[i][1] = panel.job /\ Number(s.lines[i]) \in 1..last[panel.job]
      BY <1>9 DEF OwnSnap
    <2>2. s.lines[i] \in Lines /\ s.lines[i][1] \in Jobs
      BY DEF Snaps, Lines
    <2>3. QED
      BY <1>4, <2>1, <2>2
  <1>10. ASSUME NEW s \in Snaps, Past(s) PROVE Past(s)'
    <2>1. OwnSnap(s)'
      BY <1>9, <1>10 DEF Past
    <2>2. Follows(now, Len(now), s)
      BY <1>5, <1>10 DEF Past
    <2>3. Follows(then, Len(then), s)
      <3>1. CASE panel.job = j
        <4>1. \A i \in DOMAIN s.lines : Number(s.lines[i]) \in Nat /\ Number(s.lines[i]) < Number(line)
          BY <1>4, <1>8, <1>10, <3>1 DEF Past, OwnSnap
        <4>2. QED
          BY <1>8, <2>2, <4>1, FollowsGrows
      <3>2. CASE panel.job # j
        <4>1. then = << >> \/ then = now
          BY <1>8, <3>2
        <4>2. QED
          BY <2>2, <4>1 DEF Follows
      <3>3. QED
        BY <3>1, <3>2
    <2>4. QED
      BY <1>6, <2>1, <2>3 DEF Past
  <1>11. InOrder'
    <2>1. panel.seen \in Snaps /\ panel.clear \in Snaps /\ \A r \in reqs : r.snap \in Snaps
      BY DEF IInv, PanelFits, TypedPanel, Panels, Polls
    <2>2. Past(panel.seen) /\ Past(panel.clear)
      BY DEF IInv, PanelFits, InOrder
    <2>3. Past(panel.seen)' /\ Past(panel.clear)'
      BY <1>2, <1>10, <2>1, <2>2
    <2>4. ASSUME NEW r \in reqs', Heard(r)'
          PROVE  /\ Past(r.snap)' /\ Follows(r.snap.lines, r.snap.total, panel.seen)'
                 /\ Follows(r.snap.lines, r.snap.total, panel.clear)'
      <3>1. r \in reqs /\ Heard(r)
        BY <1>2, <2>4 DEF Heard, Current
      <3>2. /\ Past(r.snap) /\ Follows(r.snap.lines, r.snap.total, panel.seen)
            /\ Follows(r.snap.lines, r.snap.total, panel.clear)
        BY <3>1 DEF IInv, PanelFits, InOrder
      <3>3. QED
        BY <1>2, <1>10, <2>1, <3>1, <3>2 DEF Follows
    <2>5. QED
      BY <2>3, <2>4 DEF InOrder
  <1>12. PanelFits'
    BY <1>2, <1>11 DEF IInv, PanelFits, TypedPanel, OneAtATime, Current, Hidden, ClearedStayHidden
  <1>13. QED
    BY <1>1, <1>3, <1>12 DEF IInv

\* The snapshots stay in order when those that are heard are.
LEMMA SnapsStay ==
  ASSUME InOrder, UNCHANGED <<dir, last>>, panel'.job = panel.job,
         panel'.seen \in {panel.seen, panel.clear}, panel'.clear \in {panel.seen, panel.clear},
         \A r \in reqs' : Heard(r)' => /\ Past(r.snap)
                                       /\ Follows(r.snap.lines, r.snap.total, panel.seen)
                                       /\ Follows(r.snap.lines, r.snap.total, panel.clear)
  PROVE  InOrder'
  <1>1. ASSUME NEW b PROVE Past(b)' <=> Past(b)
    BY DEF Past, OwnSnap, Follows, Now, Newest, Active
  <1>2. Past(panel.seen)' /\ Past(panel.clear)'
    <2>1. Past(panel.seen) /\ Past(panel.clear)
      BY DEF InOrder
    <2>2. PICK b, c : b = panel'.seen /\ c = panel'.clear
      OBVIOUS
    <2>3. Past(b)' /\ Past(c)'
      BY <1>1, <2>1, <2>2
    <2>4. QED
      BY <2>2, <2>3 DEF Past, OwnSnap, Follows
  <1>3. ASSUME NEW r \in reqs', Heard(r)'
        PROVE  /\ Past(r.snap)' /\ Follows(r.snap.lines, r.snap.total, panel.seen)'
               /\ Follows(r.snap.lines, r.snap.total, panel.clear)'
    <2>1. /\ Past(r.snap) /\ Follows(r.snap.lines, r.snap.total, panel.seen)
          /\ Follows(r.snap.lines, r.snap.total, panel.clear)
      BY <1>3
    <2>2. Past(r.snap)'
      BY <1>1, <2>1
    <2>3. PICK b, c : b = panel'.seen /\ c = panel'.clear
      OBVIOUS
    <2>4. Follows(r.snap.lines, r.snap.total, b) /\ Follows(r.snap.lines, r.snap.total, c)
      BY <2>1, <2>3
    <2>5. QED
      BY <2>2, <2>3, <2>4 DEF Follows
  <1>4. QED
    BY <1>2, <1>3 DEF InOrder

\* What leaves the files and the panel as they are keeps what the panel has.
LEMMA PanelStays ==
  ASSUME PanelFits, UNCHANGED <<dir, last, panel, reqs, cleared>>
  PROVE  PanelFits'
  <1>1. \A r \in reqs' : Heard(r)' => r \in reqs /\ Heard(r)
    BY DEF Heard, Current
  <1>2. InOrder'
    BY <1>1, SnapsStay DEF PanelFits, InOrder
  <1>3. QED
    BY <1>2 DEF PanelFits, TypedPanel, OneAtATime, Current, Hidden, ClearedStayHidden

\* A collector that starts anew counts the lines that are there.
LEMMA RestartStep ==
  ASSUME IInv, NEW j \in Jobs, Restart(j)
  PROVE  IInv'
  <1>1. /\ size' = [size EXCEPT ![j] = Len(TheFile(Active(dir, j)).lines)]
        /\ UNCHANGED <<dir, last, panel, reqs, cleared, page, reads>>
    BY DEF Restart, live, paged
  <1>2. PanelFits'
    BY <1>1, PanelStays DEF IInv
  <1>3. PageFits'
    BY <1>1 DEF IInv, PageFits, TypedPage, ReadsOwn, ShownOfOne
  <1>4. dir \in SUBSET Files /\ Single(dir) /\ size \in [Jobs -> Nat] /\ last \in [Jobs -> Nat]
    BY DEF IInv, FilesFit, TypedFiles
  <1>5. TheFile(Active(dir, j)).lines \in Seq(Lines)
    BY <1>4, TheActive
  <1>6. Len(TheFile(Active(dir, j)).lines) > 0 => last[j] > 0
    <2>1. CASE Active(dir, j) = {}
      <3>1. TheFile(Active(dir, j)) = NoFile
        BY <1>4, <2>1, TheActive
      <3>2. QED
        BY <3>1 DEF NoFile
    <2>2. ASSUME NEW f \in Active(dir, j), Len(TheFile(Active(dir, j)).lines) > 0 PROVE last[j] > 0
      <3>1. TheFile(Active(dir, j)) = f /\ f \in dir /\ f.of = j
        BY <1>4, TheActive DEF Active
      <3>2. 1 \in DOMAIN f.lines
        BY <1>5, <2>2, <3>1
      <3>3. f.lines[1][2] \in 1..last[j]
        BY <3>1, <3>2 DEF IInv, FilesFit, Own
      <3>4. QED
        BY <1>4, <3>3
    <2>3. QED
      BY <2>1, <2>2
  <1>7. size' \in [Jobs -> Nat] /\ Counted'
    BY <1>1, <1>4, <1>5, <1>6 DEF IInv, FilesFit, Counted
  <1>8. FilesFit'
    BY <1>1, <1>7 DEF IInv, FilesFit, TypedFiles, Own, Single
  <1>9. QED
    BY <1>2, <1>3, <1>8 DEF IInv

\* What is read of the active file is the file the panel follows.
LEMMA ReadActive ==
  ASSUME FilesFit, NEW j, NEW f, f = ReadFile([of |-> j, at |-> 0], j)
  PROVE  /\ f.lines \in Seq(Lines)
         /\ f # NoFile => f \in dir /\ f.of = j /\ f.lines = Newest(dir, j)
  <1>1. dir \in SUBSET Files /\ Single(dir)
    BY DEF FilesFit, TypedFiles
  <1>2. {g \in dir : Key(g) = [of |-> j, at |-> 0] /\ BelongsTo(g, j)} = Active(dir, j)
    <2>1. \A g \in dir : Key(g) = [of |-> j, at |-> 0] <=> g.of = j /\ g.at = 0
      BY DEF Key
    <2>2. \A g \in dir : g.of = j /\ g.at = 0 => BelongsTo(g, j)
      BY DEF BelongsTo, Active
    <2>3. QED
      BY <2>1, <2>2 DEF Active
  <1>3. NoFile.lines = << >> /\ << >> \in Seq(Lines)
    BY DEF NoFile
  <1>4. f = NoFile \/ f = TheFile(Active(dir, j))
    BY <1>2 DEF ReadFile
  <1>5. TheFile(Active(dir, j)).lines \in Seq(Lines)
    BY <1>1, TheActive
  <1>6. ASSUME f # NoFile PROVE f \in dir /\ f.of = j
    <2>1. Active(dir, j) # {}
      BY <1>1, <1>4, <1>6, TheActive
    <2>2. PICK g \in Active(dir, j) : TRUE
      BY <2>1
    <2>3. TheFile(Active(dir, j)) = g
      BY <1>1, TheActive
    <2>4. QED
      BY <1>4, <1>6, <2>3 DEF Active
  <1>7. QED
    BY <1>3, <1>4, <1>5, <1>6 DEF Newest

\* The snapshot an answer carries follows those that were heard before.
LEMMA ServeStep ==
  ASSUME ConstantsFit, IInv, NEW r \in reqs, NEW ok \in BOOLEAN, Serve(r, ok)
  PROVE  IInv'
  <1>1. UNCHANGED <<dir, size, last, panel, cleared, page, reads>>
    BY DEF Serve, files, paged
  <1>2. FilesFit /\ PanelFits /\ TailLines \in Nat
    BY DEF IInv, ConstantsFit
  <1>3. FilesFit' /\ PageFits'
    BY <1>1 DEF IInv, FilesFit, TypedFiles, Own, Single, Counted, PageFits, TypedPage,
                               ReadsOwn, ShownOfOne
  <1>4. r \in Polls /\ r.job = panel.job /\ r.gen <= panel.gen
    BY <1>2 DEF PanelFits, TypedPanel, OneAtATime
  <1>5. PICK f : f = ReadFile([of |-> r.job, at |-> 0], r.job)
    OBVIOUS
  <1>6. /\ f.lines \in Seq(Lines)
        /\ f # NoFile => f \in dir /\ f.of = panel.job /\ f.lines = Now
    BY <1>2, <1>4, <1>5, ReadActive DEF Now
  <1>7. PICK snap : snap = [lines |-> LastOf(f.lines, TailLines), total |-> Len(f.lines), file |-> TRUE]
    OBVIOUS
  <1>8. snap \in Snaps /\ snap.lines = LastOf(f.lines, TailLines) /\ snap.total = Len(f.lines) /\ snap.file
    <2>1. LastOf(f.lines, TailLines) \in Seq(Lines)
      BY <1>2, <1>6, LastOfFits
    <2>2. Len(f.lines) \in Nat
      BY <1>6
    <2>3. QED
      BY <1>7, <2>1, <2>2 DEF Snaps
  <1>9. PICK there \in BOOLEAN : there = (Active(dir, r.job) # {})
    OBVIOUS
  <1>10. PICK q : q = IF r.kind = "list" THEN [r EXCEPT !.done = TRUE, !.ok = ok, !.snap.file = there]
                      ELSE [r EXCEPT !.done = TRUE, !.ok = ok /\ f # NoFile, !.snap = snap]
    OBVIOUS
  <1>11. reqs' = (reqs \ {r}) \cup {q}
    BY <1>5, <1>7, <1>9, <1>10 DEF Serve, ReadAs
  <1>12. /\ q \in Polls /\ q.gen = r.gen /\ q.job = r.job /\ q.kind = r.kind
         /\ q.ok /\ q.kind = "tail" => f # NoFile /\ q.snap = snap
    <2>1. CASE r.kind = "list"
      <3>1. r.snap \in Snaps /\ [r.snap EXCEPT !.file = there] \in Snaps
        BY <1>4 DEF Polls, Snaps
      <3>2. q = [r EXCEPT !.done = TRUE, !.ok = ok, !.snap = [r.snap EXCEPT !.file = there]]
        BY <1>4, <1>10, <2>1 DEF Polls
      <3>3. QED
        BY <1>4, <2>1, <3>1, <3>2 DEF Polls
    <2>2. CASE r.kind # "list"
      <3>1. PICK found \in BOOLEAN : found <=> ok /\ f # NoFile
        OBVIOUS
      <3>2. q = [r EXCEPT !.done = TRUE, !.ok = found, !.snap = snap]
        BY <1>10, <2>2, <3>1
      <3>3. q \in Polls /\ q.gen = r.gen /\ q.job = r.job /\ q.kind = r.kind /\ q.ok = found /\ q.snap = snap
        BY <1>4, <1>8, <2>2, <3>2 DEF Polls
      <3>4. QED
        BY <3>1, <3>3
    <2>3. QED
      BY <2>1, <2>2
  <1>13. TypedPanel'
    BY <1>1, <1>2, <1>11, <1>12 DEF PanelFits, TypedPanel
  <1>14. OneAtATime'
    BY <1>1, <1>2, <1>4, <1>11, <1>12 DEF PanelFits, OneAtATime, Current
  <1>15. ASSUME f # NoFile, NEW b \in Snaps, Past(b)
         PROVE  Follows(snap.lines, snap.total, b)
    <2>1. b.total \in Nat
      BY DEF Snaps
    <2> SUFFICES ASSUME b.file, NEW i \in DOMAIN snap.lines,
                        snap.total >= b.total => snap.total - Len(snap.lines) + i > b.total,
                        NEW k \in DOMAIN b.lines
                 PROVE  Number(b.lines[k]) < Number(snap.lines[i])
      BY DEF Follows
    <2>2. PICK m : m = snap.total - Len(snap.lines) + i
      OBVIOUS
    <2>3. m \in DOMAIN f.lines /\ snap.lines[i] = f.lines[m] /\ m \in Nat
      <3>1. m = Len(f.lines) - Len(LastOf(f.lines, TailLines)) + i /\ i \in DOMAIN LastOf(f.lines, TailLines)
        BY <1>8, <2>2
      <3>2. m \in DOMAIN f.lines /\ LastOf(f.lines, TailLines)[i] = f.lines[m]
        BY <1>2, <1>6, <3>1, LastOfFits
      <3>3. QED
        BY <1>6, <1>8, <3>2
    <2>4. Len(f.lines) >= b.total => Len(f.lines) - Len(f.lines) + m > b.total
      <3>1. Len(f.lines) \in Nat /\ snap.total = Len(f.lines)
        BY <1>6, <1>8
      <3>2. snap.total >= b.total => m > b.total
        BY <2>2
      <3>3. QED
        BY <2>1, <2>3, <3>1, <3>2
    <2>5. f.lines = Now
      BY <1>6, <1>15
    <2>6. Follows(f.lines, Len(f.lines), b)
      BY <1>15, <2>5 DEF Past
    <2>7. QED
      BY <2>3, <2>4, <2>6 DEF Follows
  <1>16. f # NoFile => Past(snap)
    <2> SUFFICES ASSUME f # NoFile PROVE Past(snap)
      OBVIOUS
    <2>1. f \in dir /\ f.of = panel.job /\ f.lines = Now
      BY <1>6
    <2>2. Len(snap.lines) <= snap.total
      BY <1>2, <1>6, <1>8, LastOfFits
    <2>3. ASSUME NEW i \in DOMAIN snap.lines
          PROVE  snap.lines[i][1] = panel.job /\ Number(snap.lines[i]) \in 1..last[panel.job]
      <3>1. PICK m \in DOMAIN f.lines : snap.lines[i] = f.lines[m]
        BY <1>2, <1>6, <1>8, LastOfFits
      <3>2. QED
        BY <1>2, <2>1, <3>1 DEF FilesFit, Own, Number
    <2>4. Follows(Now, Len(Now), snap)
      <3> SUFFICES ASSUME NEW i \in DOMAIN Now,
                          Len(Now) >= snap.total => Len(Now) - Len(Now) + i > snap.total
                   PROVE  FALSE
        BY DEF Follows
      <3>1. i \in 1..Len(f.lines) /\ Len(Now) = Len(f.lines) /\ Len(f.lines) \in Nat
        BY <1>6, <2>1
      <3>2. QED
        BY <1>8, <3>1
    <2>5. QED
      BY <2>2, <2>3, <2>4 DEF Past, OwnSnap
  <1>17. InOrder'
    <2>1. panel.seen \in Snaps /\ panel.clear \in Snaps
      BY <1>2 DEF PanelFits, TypedPanel, Panels
    <2>2. InOrder /\ Past(panel.seen) /\ Past(panel.clear)
      BY <1>2 DEF PanelFits, InOrder
    <2>3. ASSUME NEW p \in reqs', Heard(p)
          PROVE  /\ Past(p.snap) /\ Follows(p.snap.lines, p.snap.total, panel.seen)
                 /\ Follows(p.snap.lines, p.snap.total, panel.clear)
      <3>1. CASE p \in reqs
        BY <1>2, <2>3, <3>1 DEF PanelFits, InOrder
      <3>2. CASE p = q
        <4>1. f # NoFile /\ p.snap = snap
          BY <1>12, <2>3, <3>2 DEF Heard
        <4>2. QED
          BY <1>15, <1>16, <2>1, <2>2, <4>1
      <3>3. QED
        BY <1>11, <3>1, <3>2
    <2>4. QED
      BY <1>1, <2>2, <2>3, SnapsStay DEF Heard, Current
  <1>18. PanelFits'
    BY <1>1, <1>2, <1>13, <1>14, <1>17 DEF PanelFits, Hidden, ClearedStayHidden
  <1>19. QED
    BY <1>3, <1>18 DEF IInv

\* A poll of a panel that is open is one of the current run.
LEMMA PollFits ==
  ASSUME NEW p \in Panels
  PROVE  Poll(p) \in Polls /\ Poll(p).gen = p.gen /\ Poll(p).job = p.job /\ Poll(p).done = FALSE
  <1>1. NoTail \in Snaps
    BY DEF NoTail, Snaps
  <1>2. p.gen \in Nat /\ p.job \in Jobs \cup {"none"}
    BY DEF Panels
  <1>3. QED
    BY <1>1, <1>2 DEF Poll, Polls

\* A closed panel, and one that was just opened, has seen nothing.
LEMMA NothingSeen ==
  /\ Closed \in Panels /\ Closed.job = "none" /\ Closed.timer = FALSE /\ Closed.seen = NoTail
  /\ Closed.clear = NoTail /\ Closed.shown = << >>
  /\ NoTail \in Snaps /\ NoTail.file = FALSE /\ NoTail.lines = << >> /\ NoTail.total = 0
  <1>1. NoTail \in Snaps /\ NoTail.file = FALSE /\ NoTail.lines = << >> /\ NoTail.total = 0
    BY DEF NoTail, Snaps
  <1>2. QED
    BY <1>1 DEF Closed, Panels

\* Opening and closing the panel forget the snapshots and the requests.
LEMMA Forgotten ==
  ASSUME IInv, UNCHANGED <<dir, last>>, panel' \in Panels, panel'.seen = NoTail, panel'.clear = NoTail,
         panel'.shown = << >>, panel'.timer = FALSE, cleared' = {},
         reqs' \in {{}, {Poll(panel')}}
  PROVE  PanelFits'
  <1>1. \A r \in reqs' : r = Poll(panel') /\ r \in Polls /\ r.gen = panel'.gen /\ r.job = panel'.job /\ r.done = FALSE
    BY PollFits
  <1>2. TypedPanel'
    BY <1>1 DEF TypedPanel
  <1>3. OneAtATime'
    <2>1. panel'.gen \in Nat
      BY DEF Panels
    <2>2. QED
      BY <1>1, <2>1 DEF OneAtATime, Current
  <1>4. InOrder'
    BY <1>1, NothingSeen DEF InOrder, Past, OwnSnap, Follows, Heard
  <1>5. Hidden' /\ ClearedStayHidden' /\ \A i \in DOMAIN panel'.shown : panel'.shown[i][1] = panel'.job
    BY NothingSeen DEF Hidden, ClearedStayHidden
  <1>6. QED
    BY <1>2, <1>3, <1>4, <1>5 DEF PanelFits

\* The panel is opened for a Job ...
LEMMA OpenPanelStep ==
  ASSUME IInv, NEW j \in Jobs, OpenPanel(j)
  PROVE  IInv'
  <1>1. /\ panel' = Started([Closed EXCEPT !.job = j, !.gen = panel.gen])
        /\ reqs' = {Poll(panel')} /\ cleared' = {} /\ page' = NoPage /\ reads' = {}
        /\ UNCHANGED <<dir, size, last>>
    BY DEF OpenPanel, files
  <1>2. panel.gen \in Nat
    BY DEF IInv, PanelFits, TypedPanel, Panels
  <1>3. /\ panel' \in Panels /\ panel'.job = j /\ panel'.seen = NoTail /\ panel'.clear = NoTail
        /\ panel'.shown = << >> /\ panel'.timer = FALSE
    <2>1. PICK p : p = [Closed EXCEPT !.job = j, !.gen = panel.gen]
      OBVIOUS
    <2>2. /\ p \in Panels /\ p.job = j /\ p.seen = NoTail /\ p.clear = NoTail
          /\ p.shown = << >> /\ p.gen = panel.gen
      BY <1>2, <2>1, NothingSeen DEF Panels
    <2>3. panel' = [p EXCEPT !.gen = @ + 1, !.timer = FALSE]
      BY <1>1, <2>1 DEF Started
    <2>4. p \in Panels /\ p.gen + 1 \in Nat
      BY <1>2, <2>2
    <2>5. panel' \in Panels /\ panel'.job = p.job /\ panel'.seen = p.seen /\ panel'.clear = p.clear
      BY <2>3, <2>4 DEF Panels
    <2>6. panel'.shown = p.shown /\ panel'.timer = FALSE
      BY <2>3, <2>4 DEF Panels
    <2>7. QED
      BY <2>2, <2>5, <2>6
  <1>4. DOMAIN NoPage = {"job", "files", "file", "view", "content", "summary"} /\ NoPage.content = << >>
        /\ NoPage = [k \in DOMAIN NoPage |-> NoPage[k]] /\ NoPage.file = Key(NoFile)
    BY DEF NoPage
  <1>5. PanelFits'
    BY <1>1, <1>3, Forgotten
  <1>6. PageFits'
    BY <1>1, <1>4 DEF PageFits, TypedPage, ReadsOwn, ShownOfOne
  <1>7. FilesFit'
    BY <1>1 DEF IInv, FilesFit, TypedFiles, Own, Single, Counted
  <1>8. QED
    BY <1>5, <1>6, <1>7 DEF IInv

\* ... and closed.
LEMMA ClosePanelStep ==
  ASSUME IInv, ClosePanel
  PROVE  IInv'
  <1>1. /\ panel' = [Closed EXCEPT !.gen = panel.gen + 1] /\ reqs' = {} /\ cleared' = {}
        /\ UNCHANGED <<dir, size, last, page, reads>>
    BY DEF ClosePanel, files, paged
  <1>2. panel.gen \in Nat
    BY DEF IInv, PanelFits, TypedPanel, Panels
  <1>3. /\ panel' \in Panels /\ panel'.seen = NoTail /\ panel'.clear = NoTail
        /\ panel'.shown = << >> /\ panel'.timer = FALSE
    BY <1>1, <1>2, NothingSeen DEF Panels
  <1>4. PanelFits'
    BY <1>1, <1>3, Forgotten
  <1>5. QED
    BY <1>1, <1>4 DEF IInv, FilesFit, TypedFiles, Own, Single, Counted, PageFits, TypedPage,
                               ReadsOwn, ShownOfOne

\* Steps of an open panel that show nothing else than it has.
LEMMA PanelMoves ==
  ASSUME IInv, UNCHANGED <<dir, size, last, page, reads>>, panel' \in Panels,
         panel'.job = panel.job, panel'.seen = panel.seen,
         \/ panel'.clear = panel.clear /\ cleared' = cleared /\ panel'.shown = panel.shown
         \/ /\ panel'.clear = panel.seen /\ panel'.shown = << >>
            /\ cleared' = IF panel.seen.file THEN ToSet(panel.seen.lines) ELSE {},
         OneAtATime', reqs' \in SUBSET Polls,
         \A r \in reqs' : Heard(r)' => r \in reqs /\ Heard(r)
  PROVE  IInv'
  <1>1. InOrder'
    BY SnapsStay DEF IInv, PanelFits, InOrder
  <1>2. TypedPanel'
    BY DEF TypedPanel
  <1>3. Hidden'
    BY DEF IInv, PanelFits, Hidden
  <1>4. ClearedStayHidden' /\ \A i \in DOMAIN panel'.shown : panel'.shown[i][1] = panel'.job
    BY DEF IInv, PanelFits, ClearedStayHidden
  <1>5. PanelFits'
    BY <1>1, <1>2, <1>3, <1>4 DEF PanelFits
  <1>6. QED
    BY <1>5 DEF IInv, FilesFit, TypedFiles, Own, Single, Counted, PageFits, TypedPage,
                               ReadsOwn, ShownOfOne

\* What is aborted is of an older run, though it was answered ...
LEMMA PauseStep ==
  ASSUME IInv, Pause
  PROVE  IInv'
  <1>1. /\ panel' = [Started(panel) EXCEPT !.paused = TRUE] /\ reqs' = {r \in reqs : r.done}
        /\ UNCHANGED <<dir, size, last, cleared, page, reads>>
    BY DEF Pause, files, paged
  <1>2. panel \in Panels /\ panel.gen \in Nat /\ reqs \in SUBSET Polls
        /\ \A r \in reqs : r.gen <= panel.gen /\ r.job = panel.job /\ r.gen \in Nat
    BY DEF IInv, PanelFits, TypedPanel, OneAtATime, Panels, Polls
  <1>3. /\ panel' \in Panels /\ panel'.job = panel.job /\ panel'.seen = panel.seen
        /\ panel'.clear = panel.clear /\ panel'.shown = panel.shown /\ panel'.gen = panel.gen + 1
        /\ panel'.timer = FALSE
    <2>1. PICK p : p = Started(panel)
      OBVIOUS
    <2>2. /\ p \in Panels /\ p.job = panel.job /\ p.seen = panel.seen /\ p.clear = panel.clear
          /\ p.shown = panel.shown /\ p.gen = panel.gen + 1 /\ p.timer = FALSE
      <3>1. p = [panel EXCEPT !.gen = @ + 1, !.timer = FALSE] /\ panel.gen + 1 \in Nat
        BY <1>2, <2>1 DEF Started
      <3>2. p \in Panels /\ p.job = panel.job /\ p.seen = panel.seen /\ p.clear = panel.clear
        BY <1>2, <3>1 DEF Panels
      <3>3. p.shown = panel.shown /\ p.gen = panel.gen + 1 /\ p.timer = FALSE
        BY <1>2, <3>1 DEF Panels
      <3>4. QED
        BY <3>2, <3>3
    <2>3. panel' = [p EXCEPT !.paused = TRUE]
      BY <1>1, <2>1
    <2>4. QED
      BY <2>2, <2>3 DEF Panels
  <1>4. \A r \in reqs' : r \in reqs /\ r.gen < panel'.gen
    BY <1>1, <1>2, <1>3
  <1>5. OneAtATime'
    BY <1>2, <1>3, <1>4 DEF OneAtATime, Current
  <1>6. QED
    BY <1>1, <1>2, <1>3, <1>4, <1>5, PanelMoves DEF Heard, Current

\* ... and a new run asks anew.
LEMMA ResumeStep ==
  ASSUME IInv, Resume
  PROVE  IInv'
  <1>1. /\ panel' = [Started(panel) EXCEPT !.paused = FALSE] /\ reqs' = reqs \cup {Poll(panel')}
        /\ UNCHANGED <<dir, size, last, cleared, page, reads>>
    BY DEF Resume, files, paged
  <1>2. panel \in Panels /\ panel.gen \in Nat /\ reqs \in SUBSET Polls
        /\ \A r \in reqs : r.gen <= panel.gen /\ r.job = panel.job /\ r.gen \in Nat
    BY DEF IInv, PanelFits, TypedPanel, OneAtATime, Panels, Polls
  <1>3. /\ panel' \in Panels /\ panel'.job = panel.job /\ panel'.seen = panel.seen
        /\ panel'.clear = panel.clear /\ panel'.shown = panel.shown /\ panel'.gen = panel.gen + 1
        /\ panel'.timer = FALSE
    <2>1. PICK p : p = Started(panel)
      OBVIOUS
    <2>2. /\ p \in Panels /\ p.job = panel.job /\ p.seen = panel.seen /\ p.clear = panel.clear
          /\ p.shown = panel.shown /\ p.gen = panel.gen + 1 /\ p.timer = FALSE
      <3>1. p = [panel EXCEPT !.gen = @ + 1, !.timer = FALSE] /\ panel.gen + 1 \in Nat
        BY <1>2, <2>1 DEF Started
      <3>2. p \in Panels /\ p.job = panel.job /\ p.seen = panel.seen /\ p.clear = panel.clear
        BY <1>2, <3>1 DEF Panels
      <3>3. p.shown = panel.shown /\ p.gen = panel.gen + 1 /\ p.timer = FALSE
        BY <1>2, <3>1 DEF Panels
      <3>4. QED
        BY <3>2, <3>3
    <2>3. panel' = [p EXCEPT !.paused = FALSE]
      BY <1>1, <2>1
    <2>4. QED
      BY <2>2, <2>3 DEF Panels
  <1>4. PICK q : q = Poll(panel')
    OBVIOUS
  <1>5. q \in Polls /\ q.gen = panel'.gen /\ q.job = panel'.job /\ q.done = FALSE
    BY <1>3, <1>4, PollFits
  <1>6. \A r \in reqs' : r = q \/ (r \in reqs /\ r.gen < panel'.gen)
    BY <1>1, <1>2, <1>3, <1>4
  <1>7. OneAtATime'
    BY <1>2, <1>3, <1>5, <1>6 DEF OneAtATime, Current
  <1>8. \A r \in reqs' : Heard(r)' => r \in reqs /\ Heard(r)
    BY <1>2, <1>5, <1>6 DEF Heard, Current
  <1>9. reqs' \in SUBSET Polls
    BY <1>2, <1>5, <1>6
  <1>10. QED
    BY <1>1, <1>3, <1>7, <1>8, <1>9, PanelMoves

\* The timer that fires is the only one to ask.
LEMMA TickStep ==
  ASSUME IInv, Tick
  PROVE  IInv'
  <1>1. /\ panel' = [panel EXCEPT !.timer = FALSE] /\ reqs' = reqs \cup {Poll(panel')} /\ panel.timer
        /\ UNCHANGED <<dir, size, last, cleared, page, reads>>
    BY DEF Tick, files, paged
  <1>2. panel \in Panels /\ reqs \in SUBSET Polls /\ panel.gen \in Nat
        /\ \A r \in reqs : r.gen <= panel.gen /\ r.job = panel.job /\ r.gen # panel.gen
    BY <1>1 DEF IInv, PanelFits, TypedPanel, OneAtATime, Current, Panels
  <1>3. /\ panel' \in Panels /\ panel'.job = panel.job /\ panel'.seen = panel.seen
        /\ panel'.clear = panel.clear /\ panel'.shown = panel.shown /\ panel'.gen = panel.gen
        /\ panel'.timer = FALSE
    BY <1>1, <1>2 DEF Panels
  <1>4. PICK q : q = Poll(panel')
    OBVIOUS
  <1>5. q \in Polls /\ q.gen = panel'.gen /\ q.job = panel'.job /\ q.done = FALSE
    BY <1>3, <1>4, PollFits
  <1>6. \A r \in reqs' : r = q \/ (r \in reqs /\ r.gen # panel'.gen)
    BY <1>1, <1>2, <1>3, <1>4
  <1>7. OneAtATime'
    BY <1>2, <1>3, <1>5, <1>6 DEF OneAtATime, Current
  <1>8. \A r \in reqs' : Heard(r)' => r \in reqs /\ Heard(r)
    BY <1>5, <1>6 DEF Heard, Current
  <1>9. reqs' \in SUBSET Polls
    BY <1>2, <1>5, <1>6
  <1>10. QED
    BY <1>1, <1>3, <1>7, <1>8, <1>9, PanelMoves

\* What was seen last is hidden from now on.
LEMMA ClearStep ==
  ASSUME IInv, Clear
  PROVE  IInv'
  <1>1. /\ panel' = [panel EXCEPT !.clear = panel.seen, !.clears = @ + 1, !.shown = << >>]
        /\ cleared' = IF panel.seen.file THEN ToSet(panel.seen.lines) ELSE {}
        /\ UNCHANGED <<dir, size, last, reqs, page, reads>>
    BY DEF Clear, files, paged
  <1>2. panel \in Panels
    BY DEF IInv, PanelFits, TypedPanel
  <1>3. /\ panel' \in Panels /\ panel'.job = panel.job /\ panel'.seen = panel.seen
        /\ panel'.clear = panel.seen /\ panel'.shown = << >> /\ panel'.gen = panel.gen
        /\ panel'.timer = panel.timer
    <2>1. panel.seen \in Snaps /\ panel.clears + 1 \in Nat /\ << >> \in Seq(Lines)
      BY <1>2 DEF Panels
    <2>2. QED
      BY <1>1, <1>2, <2>1 DEF Panels
  <1>4. OneAtATime'
    BY <1>1, <1>3 DEF IInv, PanelFits, OneAtATime, Current
  <1>5. \A r \in reqs' : Heard(r)' => r \in reqs /\ Heard(r)
    BY <1>1, <1>3 DEF Heard, Current
  <1>6. reqs' \in SUBSET Polls
    BY <1>1 DEF IInv, PanelFits, TypedPanel
  <1>7. QED
    BY <1>1, <1>3, <1>4, <1>5, <1>6, PanelMoves

\* An answer to an older run is dropped.
LEMMA IgnoredStep ==
  ASSUME IInv, NEW r \in reqs, Ignored(r)
  PROVE  IInv'
  <1>1. reqs' = reqs \ {r} /\ UNCHANGED <<dir, size, last, panel, cleared, page, reads>>
    BY DEF Ignored, files, paged
  <1>2. panel' \in Panels /\ reqs' \in SUBSET Polls
    BY <1>1 DEF IInv, PanelFits, TypedPanel
  <1>3. OneAtATime'
    BY <1>1 DEF IInv, PanelFits, OneAtATime, Current
  <1>4. QED
    BY <1>1, <1>2, <1>3, PanelMoves DEF Heard, Current

\* An answer that is heard: what it shows of its snapshot was not cleared.
LEMMA FoundStep ==
  ASSUME ConstantsFit, IInv, NEW r \in reqs, Answered(r), r.ok, r.kind # "list"
  PROVE  IInv'
  <1>1. /\ r.done /\ CanApply(r)
        /\ panel' = [panel EXCEPT !.connected = TRUE, !.seen = r.snap, !.timer = TRUE,
                                  !.shown = VisibleTail(r.snap, panel.clear)]
        /\ reqs' = reqs \ {r} /\ UNCHANGED <<dir, size, last, cleared, page, reads>>
    BY DEF Answered, files, paged
  <1>2. panel \in Panels /\ reqs \in SUBSET Polls /\ r \in Polls /\ r.snap \in Snaps /\ panel.clear \in Snaps
    BY DEF IInv, PanelFits, TypedPanel, Panels, Polls
  <1>3. /\ \A q \in reqs : q.gen <= panel.gen /\ q.job = panel.job
        /\ \A q \in reqs' : q \in reqs /\ q.gen # panel.gen
    BY <1>1 DEF IInv, PanelFits, OneAtATime, Current, CanApply
  <1>4. /\ Past(r.snap) /\ Past(panel.clear) /\ Follows(r.snap.lines, r.snap.total, panel.seen)
        /\ Follows(r.snap.lines, r.snap.total, panel.clear)
    BY <1>1, <1>2 DEF IInv, PanelFits, InOrder, Heard, Current, CanApply, Polls
  <1>5. /\ Len(r.snap.lines) <= r.snap.total
        /\ \A i \in DOMAIN r.snap.lines : r.snap.lines[i][1] = panel.job
    BY <1>4 DEF Past, OwnSnap
  <1>6. PICK shown : shown = VisibleTail(r.snap, panel.clear)
    OBVIOUS
  <1>7. /\ shown \in Seq(Lines)
        /\ \A i \in DOMAIN shown : \E k \in DOMAIN r.snap.lines :
             /\ shown[i] = r.snap.lines[k]
             /\ panel.clear.file /\ r.snap.total >= panel.clear.total
                  => r.snap.total - Len(r.snap.lines) + k > panel.clear.total
    <2>1. /\ VisibleTail(r.snap, panel.clear) \in Seq(Lines)
          /\ \A i \in DOMAIN VisibleTail(r.snap, panel.clear) : \E k \in DOMAIN r.snap.lines :
               /\ VisibleTail(r.snap, panel.clear)[i] = r.snap.lines[k]
               /\ panel.clear.file /\ r.snap.total >= panel.clear.total
                    => r.snap.total - Len(r.snap.lines) + k > panel.clear.total
      BY <1>2, <1>5, VisibleFits
    <2>2. QED
      BY <1>6, <2>1
  <1>8. /\ panel' \in Panels /\ panel'.job = panel.job /\ panel'.seen = r.snap /\ panel'.clear = panel.clear
        /\ panel'.shown = shown /\ panel'.gen = panel.gen /\ panel'.timer = TRUE
    BY <1>1, <1>2, <1>6, <1>7 DEF Panels
  <1>9. ASSUME NEW i \in DOMAIN shown
        PROVE  shown[i] \notin cleared /\ shown[i][1] = panel.job
    <2>1. PICK k \in DOMAIN r.snap.lines :
             /\ shown[i] = r.snap.lines[k]
             /\ panel.clear.file /\ r.snap.total >= panel.clear.total
                  => r.snap.total - Len(r.snap.lines) + k > panel.clear.total
      BY <1>7
    <2>2. CASE panel.clear.file
      <3>1. \A m \in DOMAIN panel.clear.lines : Number(panel.clear.lines[m]) < Number(shown[i])
        BY <1>4, <2>1, <2>2 DEF Follows
      <3>2. cleared = {panel.clear.lines[m] : m \in DOMAIN panel.clear.lines}
        BY <2>2 DEF IInv, PanelFits, Hidden, ToSet
      <3>3. shown[i] \in Lines
        BY <1>7
      <3>4. ~(Number(shown[i]) < Number(shown[i]))
        BY <3>3 DEF Number, Lines
      <3>5. QED
        BY <1>5, <2>1, <3>1, <3>2, <3>4
    <2>3. CASE ~panel.clear.file
      BY <1>5, <2>1, <2>3 DEF IInv, PanelFits, Hidden
    <2>4. QED
      BY <2>2, <2>3
  <1>10. InOrder'
    <2>1. \A q \in reqs' : ~Heard(q)'
      BY <1>3, <1>8 DEF Heard, Current
    <2>2. Past(panel.seen)' /\ Past(panel.clear)'
      <3>1. PICK b, c : b = panel'.seen /\ c = panel'.clear
        OBVIOUS
      <3>2. Past(b)' /\ Past(c)'
        <4>1. Past(b) /\ Past(c)
          BY <1>4, <1>8, <3>1
        <4>2. ASSUME NEW a PROVE Past(a)' <=> Past(a)
          BY <1>1, <1>8 DEF Past, OwnSnap, Follows, Now, Newest, Active
        <4>3. QED
          BY <4>1, <4>2
      <3>3. QED
        BY <3>1, <3>2 DEF Past, OwnSnap, Follows
    <2>3. QED
      BY <2>1, <2>2 DEF InOrder
  <1>11. OneAtATime'
    BY <1>3, <1>8 DEF OneAtATime, Current
  <1>12. PanelFits'
    BY <1>1, <1>2, <1>8, <1>9, <1>10, <1>11 DEF IInv, PanelFits, TypedPanel, Hidden, ClearedStayHidden
  <1>13. QED
    BY <1>1, <1>12 DEF IInv, FilesFit, TypedFiles, Own, Single, Counted, PageFits, TypedPage,
                               ReadsOwn, ShownOfOne

\* An answer that is heard, a failure and a list among them.
LEMMA AnsweredStep ==
  ASSUME ConstantsFit, IInv, NEW r \in reqs, Answered(r)
  PROVE  IInv'
  <1>1. CASE r.ok /\ r.kind # "list"
    BY <1>1, FoundStep
  <1>2. CASE ~r.ok \/ r.kind = "list"
    <2>1. /\ r.done /\ CanApply(r)
          /\ panel' = IF ~r.ok THEN [panel EXCEPT !.known = FALSE, !.connected = FALSE, !.timer = TRUE]
                      ELSE IF r.snap.file THEN [panel EXCEPT !.known = TRUE]
                      ELSE [panel EXCEPT !.connected = TRUE, !.timer = TRUE]
          /\ reqs' = (reqs \ {r}) \cup IF r.ok /\ r.snap.file THEN {Poll(panel')} ELSE {}
          /\ UNCHANGED <<dir, size, last, cleared, page, reads>>
      BY <1>2 DEF Answered, Listed, files, paged
    <2>2. panel \in Panels /\ reqs \in SUBSET Polls
      BY DEF IInv, PanelFits, TypedPanel
    <2>3. /\ \A q \in reqs : q.gen <= panel.gen /\ q.job = panel.job
          /\ \A q \in reqs \ {r} : q.gen # panel.gen
          /\ panel.timer = FALSE
      BY <2>1, <2>2 DEF IInv, PanelFits, OneAtATime, Current, CanApply, Panels
    <2>4. /\ panel' \in Panels /\ panel'.job = panel.job /\ panel'.seen = panel.seen
          /\ panel'.clear = panel.clear /\ panel'.shown = panel.shown /\ panel'.gen = panel.gen
      BY <2>1, <2>2 DEF Panels
    <2>5. r.ok /\ r.snap.file => panel'.timer = FALSE
      BY <2>1, <2>2, <2>3 DEF Panels
    <2>6. PICK q : q = Poll(panel')
      OBVIOUS
    <2>7. q \in Polls /\ q.gen = panel'.gen /\ q.job = panel'.job /\ q.done = FALSE
      BY <2>4, <2>6, PollFits
    <2>8. \A p \in reqs' : (p = q /\ r.ok /\ r.snap.file) \/ (p \in reqs /\ p.gen # panel'.gen)
      BY <2>1, <2>3, <2>4, <2>6
    <2>9. panel.gen \in Nat
      BY <2>2 DEF Panels
    <2>10. OneAtATime'
      BY <2>3, <2>4, <2>5, <2>7, <2>8, <2>9 DEF OneAtATime, Current
    <2>11. \A p \in reqs' : Heard(p)' => p \in reqs /\ Heard(p)
      BY <2>7, <2>8 DEF Heard, Current
    <2>12. reqs' \in SUBSET Polls
      BY <2>2, <2>7, <2>8
    <2>13. QED
      BY <2>1, <2>4, <2>10, <2>11, <2>12, PanelMoves
  <1>3. QED
    BY <1>1, <1>2

\* What is read for a Job is a file with the name asked for, of the Job or
\* the active one of a Job whose name has a date after it; its lines are the
\* file's.
LEMMA ReadOne ==
  ASSUME ConstantsFit, FilesFit, NEW j, NEW key, NEW f, f = ReadFile(key, j), f # NoFile
  PROVE  /\ Key(f) = key /\ f.lines \in Seq(Lines)
         /\ key.of = j \/ (key.at = 0 /\ Stem[key.of] = j)
         /\ \A i \in DOMAIN f.lines : f.lines[i][1] = key.of
  <1>1. PICK S : S = {g \in dir : Key(g) = key /\ BelongsTo(g, j)}
    OBVIOUS
  <1>2. f = TheFile(S)
    BY <1>1 DEF ReadFile
  <1>3. f \in S
    BY <1>2 DEF TheFile
  <1>4. f \in Files /\ Key(f) = key /\ BelongsTo(f, j) /\ Own({f})
    BY <1>1, <1>3 DEF FilesFit, TypedFiles, Own
  <1>5. key.of = f.of /\ key.at = f.at
    BY <1>4 DEF Key
  <1>6. f.of = j \/ (f.at = 0 /\ Stem[f.of] = j)
    BY <1>4 DEF BelongsTo, StemOf, Active
  <1>7. QED
    BY <1>4, <1>5, <1>6 DEF Files, Own

\* The Logs page: it reads and shows files of its list.
LEMMA PageSteps ==
  ASSUME ConstantsFit, IInv,
         \/ \E j \in Jobs : OpenPage(j)
         \/ OpenAll
         \/ \E k \in page.files : SelectFile(k)
         \/ \E v \in {"content", "contentAll", "tail"} : ChangeView(v)
         \/ \E r \in reads : HearRead(r)
  PROVE  IInv'
  <1>1. UNCHANGED <<dir, size, last, panel, reqs, cleared>>
    BY DEF OpenPage, OpenAll, SelectFile, ChangeView, HearRead, files, live
  <1>2. FilesFit' /\ PanelFits'
    BY <1>1, PanelStays DEF IInv, FilesFit, TypedFiles, Own, Single, Counted
  <1>3. DOMAIN NoPage = {"job", "files", "file", "view", "content", "summary"} /\ NoPage.content = << >>
        /\ NoPage = [k \in DOMAIN NoPage |-> NoPage[k]] /\ NoPage.file = Key(NoFile)
    BY DEF NoPage
  <1>4. PageFits
    BY DEF IInv
  <1>5. ASSUME NEW j \in Jobs, OpenPage(j) PROVE PageFits'
    <2>1. CASE page' = [NoPage EXCEPT !.job = j] /\ reads' = {}
      <3>1. TypedPage' /\ page'.content = << >> /\ page'.file = Key(NoFile)
        BY <1>3, <2>1 DEF TypedPage
      <3>2. QED
        BY <2>1, <3>1 DEF PageFits, ShownOfOne
    <2>2. ASSUME NEW f \in FilesOf(j),
                 page' = [NoPage EXCEPT !.job = j, !.files = {Key(g) : g \in FilesOf(j)}, !.file = Key(f)],
                 reads' = {Read(Key(f), "content")}
          PROVE  PageFits'
      <3>1. PICK fs : fs = {Key(g) : g \in FilesOf(j)}
        OBVIOUS
      <3>2. Key(f) \in fs
        BY <3>1
      <3>3. page' = [NoPage EXCEPT !.job = j, !.files = fs, !.file = Key(f)]
        BY <2>2, <3>1
      <3>4. TypedPage' /\ page'.content = << >> /\ page'.job = j /\ page'.files = fs /\ page'.file = Key(f)
        BY <1>3, <3>3 DEF TypedPage
      <3>5. \A r \in reads' : ReadsOwn(r)'
        BY <2>2, <3>2, <3>4 DEF Read, ReadsOwn
      <3>6. QED
        BY <3>2, <3>4, <3>5 DEF PageFits, ShownOfOne
    <2>3. QED
      BY <1>5, <2>1, <2>2 DEF OpenPage
  <1>6. CASE OpenAll
    <2>1. PICK fs : page' = [NoPage EXCEPT !.summary = fs] /\ reads' = {}
      BY <1>6 DEF OpenAll
    <2>2. TypedPage' /\ page'.content = << >> /\ page'.file = Key(NoFile)
      BY <1>3, <2>1 DEF TypedPage
    <2>3. PageFits'
      BY <2>1, <2>2 DEF PageFits, ShownOfOne
    <2>4. QED
      BY <1>2, <2>3 DEF IInv
  <1>7. ASSUME NEW k \in page.files, SelectFile(k) PROVE PageFits'
    <2>1. page' = [page EXCEPT !.file = k, !.view = "content", !.content = << >>]
          /\ reads' = reads \cup {Read(k, "content")}
      BY <1>7 DEF SelectFile
    <2>2. TypedPage' /\ page'.content = << >> /\ page'.job = page.job
          /\ page'.files = page.files /\ page'.file = k
      BY <1>4, <2>1 DEF PageFits, TypedPage
    <2>3. \A r \in reads' : ReadsOwn(r)'
      BY <1>4, <1>7, <2>1, <2>2 DEF PageFits, Read, ReadsOwn
    <2>4. QED
      BY <1>7, <2>2, <2>3 DEF PageFits, ShownOfOne
  <1>8. ASSUME NEW v, ChangeView(v) PROVE PageFits'
    <2>1. page' = [page EXCEPT !.view = v] /\ reads' = reads \cup {Read(page.file, v)}
          /\ page.file # Key(NoFile)
      BY <1>8 DEF ChangeView
    <2>2. TypedPage' /\ page'.content = page.content /\ page'.job = page.job
          /\ page'.files = page.files /\ page'.file = page.file
      BY <1>4, <2>1 DEF PageFits, TypedPage
    <2>3. page.file \in page.files
      BY <1>4, <2>1 DEF PageFits
    <2>4. \A r \in reads' : ReadsOwn(r)'
      BY <1>4, <2>1, <2>2, <2>3 DEF PageFits, Read, ReadsOwn
    <2>5. QED
      BY <1>4, <2>2, <2>3, <2>4 DEF PageFits, ShownOfOne
  <1>9. ASSUME NEW r \in reads, HearRead(r) PROVE PageFits'
    <2>1. PICK f : f = ReadFile(r.file, r.job)
      OBVIOUS
    <2>2. reads' = reads \ {r} /\ page' = IF f = NoFile THEN page ELSE [page EXCEPT !.content = ReadAs(r.kind, f)]
      BY <1>9, <2>1 DEF HearRead
    <2>3. r.job = page.job /\ r.file \in page.files
      BY <1>4 DEF PageFits, ReadsOwn
    <2>4. CASE f = NoFile
      BY <1>4, <2>2, <2>4 DEF PageFits, TypedPage, ReadsOwn, ShownOfOne
    <2>5. CASE f # NoFile
      <3>1. /\ f.lines \in Seq(Lines) /\ \A i \in DOMAIN f.lines : f.lines[i][1] = r.file.of
            /\ r.file.of = page.job \/ (r.file.at = 0 /\ Stem[r.file.of] = page.job)
        BY <2>1, <2>3, <2>5, ReadOne DEF IInv
      <3>2. PICK text : text = ReadAs(r.kind, f)
        OBVIOUS
      <3>3. \A i \in DOMAIN text : text[i][1] = r.file.of
        BY <3>1, <3>2, ReadAsFits
      <3>4. TypedPage' /\ page'.content = text /\ page'.job = page.job
            /\ page'.files = page.files /\ page'.file = page.file
        BY <1>4, <2>2, <2>5, <3>2 DEF PageFits, TypedPage
      <3>5. \A q \in reads' : ReadsOwn(q)'
        BY <1>4, <2>2, <3>4 DEF PageFits, ReadsOwn
      <3>6. ShownOfOne'
        BY <2>3, <3>1, <3>3, <3>4 DEF ShownOfOne
      <3>7. QED
        BY <1>4, <3>4, <3>5, <3>6 DEF PageFits
    <2>6. QED
      BY <2>4, <2>5
  <1>10. QED
    BY <1>2, <1>5, <1>6, <1>7, <1>8, <1>9 DEF IInv

\* Nothing was written and nothing seen.
LEMMA InvInit ==
  ASSUME Init
  PROVE  IInv
  <1>1. FilesFit
    BY DEF Init, FilesFit, TypedFiles, Own, Single, Counted
  <1>2. TypedPanel /\ OneAtATime
    BY NothingSeen DEF Init, TypedPanel, OneAtATime
  <1>3. InOrder
    BY NothingSeen DEF Init, InOrder, Past, OwnSnap, Follows
  <1>4. Hidden /\ ClearedStayHidden /\ \A i \in DOMAIN panel.shown : panel.shown[i][1] = panel.job
    BY NothingSeen DEF Init, Hidden, ClearedStayHidden
  <1>5. DOMAIN NoPage = {"job", "files", "file", "view", "content", "summary"} /\ NoPage.content = << >>
        /\ NoPage = [k \in DOMAIN NoPage |-> NoPage[k]] /\ NoPage.file = Key(NoFile)
    BY DEF NoPage
  <1>6. PageFits
    BY <1>5 DEF Init, PageFits, TypedPage, ShownOfOne
  <1>7. QED
    BY <1>1, <1>2, <1>3, <1>4, <1>6 DEF IInv, PanelFits

\* Every step keeps the snapshots in order.
LEMMA InvStep ==
  ASSUME ConstantsFit, IInv, [Next]_vars
  PROVE  IInv'
  <1>1. CASE UNCHANGED vars
    <2>1. UNCHANGED <<dir, size, last, panel, reqs, cleared, page, reads>>
      BY <1>1 DEF vars
    <2>2. QED
      BY <2>1, PanelStays DEF IInv, FilesFit, TypedFiles, Own, Single, Counted, PageFits, TypedPage,
                               ReadsOwn, ShownOfOne
  <1>2. CASE \E j \in Jobs, moved, ok \in BOOLEAN : Write(j, moved, ok)
    BY <1>2, WriteStep
  <1>3. CASE \E j \in Jobs : Restart(j)
    BY <1>3, RestartStep
  <1>4. CASE \E j \in Jobs : OpenPanel(j)
    BY <1>4, OpenPanelStep
  <1>5. CASE ClosePanel
    BY <1>5, ClosePanelStep
  <1>6. CASE Pause
    BY <1>6, PauseStep
  <1>7. CASE Resume
    BY <1>7, ResumeStep
  <1>8. CASE Clear
    BY <1>8, ClearStep
  <1>9. CASE Tick
    BY <1>9, TickStep
  <1>10. CASE \E r \in reqs : Ignored(r)
    BY <1>10, IgnoredStep
  <1>11. CASE \E r \in reqs : Answered(r)
    BY <1>11, AnsweredStep
  <1>12. CASE \E r \in reqs, ok \in BOOLEAN : Serve(r, ok)
    BY <1>12, ServeStep
  <1>13. QED
    BY <1>1, <1>2, <1>3, <1>4, <1>5, <1>6, <1>7, <1>8, <1>9, <1>10, <1>11, <1>12, PageSteps DEF Next

(* The panel of a Job shows lines of that Job only.  Its page shows lines of *)
(* one file of its list, which is the Job's own or the active file of a Job  *)
(* whose name is that of its Job and a date, however files are turned over,  *)
(* purged, lost and written anew; and on the panel no line that was cleared  *)
(* comes back, whatever answer is late and whatever file the name stands for *)
(* by then.                                                                  *)
THEOREM LinesAreOfTheList == ConstantsFit /\ Spec => [](ClearedStayHidden /\ LinesFromItsFiles)
  <1>1. ConstantsFit /\ Init => IInv /\ ConstantsFit
    BY InvInit
  <1>2. IInv /\ ConstantsFit /\ [Next]_vars => IInv' /\ ConstantsFit'
    BY InvStep DEF ConstantsFit
  <1>3. IInv => ClearedStayHidden /\ LinesFromItsFiles
    BY DEF IInv, PanelFits, PageFits, ShownOfOne, LinesFromItsFiles
  <1>4. QED
    BY <1>1, <1>2, <1>3, PTL DEF Spec
-----------------------------------------------------------------------------
(* Where the panel lies, PanelFrame: for viewports of any extent, any margin *)
(* and least extents, and a mouse that may be anywhere, it is never out of   *)
(* reach.                                                                    *)

CONSTANTS Views, Margin, SafeMin, PanelMin, Default, Mouse
VARIABLES view, open, extent, pos, grip
PF == INSTANCE PanelFrame WITH size <- extent
-----------------------------------------------------------------------------
(* The inductive invariant                                                 *)

\* An extent that a panel may have in the viewport.
Fits(s) == /\ s \in Int /\ s <= PF!Available(view)
           /\ s >= PF!Least(SafeMin, PF!Available(view))

\* What is held is the header or the edge, or nothing.
FrameTyped ==
  /\ view \in Views /\ open \in BOOLEAN /\ extent \in Int /\ pos \in Int
  /\ \/ grip = PF!Loose
     \/ \E o \in Int : grip = [k |-> "header", off |-> o]
     \/ \E m, s, p \in Int : grip = [k |-> "edge", from |-> m, size |-> s, pos |-> p]

\* An open panel lies inside the margins.
Inside ==
  open => Fits(extent) /\ pos >= PF!MarginOf(view) /\ pos + extent <= view - PF!MarginOf(view)

\* What is held is open, and a held edge started from a panel that lay inside the
\* margins and has not moved.
Held ==
  /\ grip # PF!Loose => open
  /\ grip.k = "edge" => /\ grip.pos = pos /\ Fits(grip.size)
                        /\ pos + grip.size <= view - PF!MarginOf(view)

FrameInv == FrameTyped /\ Inside /\ Held

-----------------------------------------------------------------------------
(* The operators                                                           *)

\* What the viewport leaves to a panel between its margins, when it is large
\* enough for them at all.
LEMMA Margins ==
  ASSUME PF!ConstantsFit, NEW w \in Nat
  PROVE  /\ PF!MarginOf(w) \in Nat /\ PF!Available(w) \in Nat
         /\ PF!Available(w) = w - 2 * PF!MarginOf(w)
  <1>1. Margin \in Nat /\ SafeMin \in Nat /\ w - SafeMin \in Int
    BY DEF PF!ConstantsFit
  <1>2. PICK h : h = (w - SafeMin) \div 2
    OBVIOUS
  <1>3. h \in Int /\ 2 * h <= w - SafeMin
    BY <1>1, <1>2
  <1>4. /\ PF!MarginOf(w) \in Nat
        /\ 2 * PF!MarginOf(w) <= w
    BY <1>1, <1>2, <1>3 DEF PF!MarginOf, PF!Least, PF!Most
  <1>5. QED
    BY <1>4 DEF PF!Available, PF!Most

\* A clamped panel lies inside the margins, and is as wide as it has to be.
LEMMA Clamped ==
  ASSUME PF!ConstantsFit, NEW w \in Nat, NEW s \in Int, NEW p \in Int
  PROVE  /\ PF!ClampSize(s, w) \in Int /\ PF!ClampSize(s, w) <= PF!Available(w)
         /\ PF!ClampSize(s, w) >= PF!Least(SafeMin, PF!Available(w))
         /\ PF!ClampPosition(p, s, w) \in Int /\ PF!ClampPosition(p, s, w) >= PF!MarginOf(w)
         /\ s <= PF!Available(w) => PF!ClampPosition(p, s, w) + s <= w - PF!MarginOf(w)
  <1>1. PICK a \in Nat, m \in Nat : a = PF!Available(w) /\ m = PF!MarginOf(w) /\ a = w - 2 * m
    BY Margins
  <1>2. SafeMin \in Nat /\ PanelMin \in Nat /\ SafeMin <= PanelMin
    BY DEF PF!ConstantsFit
  <1>3. /\ PF!ClampSize(s, w) \in Int /\ PF!ClampSize(s, w) <= a
        /\ PF!ClampSize(s, w) >= PF!Least(SafeMin, a)
    BY <1>1, <1>2 DEF PF!ClampSize, PF!MinExtent, PF!Least, PF!Most
  <1>4. /\ PF!ClampPosition(p, s, w) \in Int /\ PF!ClampPosition(p, s, w) >= m
        /\ s <= a => PF!ClampPosition(p, s, w) + s <= w - m
    BY <1>1 DEF PF!ClampPosition, PF!Least, PF!Most
  <1>5. QED
    BY <1>1, <1>3, <1>4

-----------------------------------------------------------------------------
(* The steps                                                               *)

\* The panel lies inside from the start.
LEMMA FrameInit ==
  ASSUME PF!ConstantsFit, PF!Init
  PROVE  FrameInv
  <1>1. view \in Nat /\ Default \in Int
    <2>1. Default \in Nat
      BY DEF PF!ConstantsFit
    <2>2. Default \in Int
      BY <2>1
    <2>3. view \in Views /\ Views \subseteq Nat
      BY Zenon DEF PF!ConstantsFit, PF!Init
    <2>4. QED
      BY <2>2, <2>3
  <1>2. extent \in Int
    BY <1>1, Clamped DEF PF!Init
  <1>3. pos \in Int
    <2>1. view \in Int
      BY <1>1
    <2>2. PF!ClampPosition(view, extent, view) \in Int
      BY <1>1, <1>2, <2>1, Clamped
    <2>3. QED
      BY <2>2 DEF PF!Init
  <1>4. QED
    BY <1>2, <1>3 DEF PF!Init, FrameInv, FrameTyped, Inside, Held, PF!Loose

\* Every step keeps it inside.
LEMMA FrameStep ==
  ASSUME PF!ConstantsFit, FrameInv, [PF!Next]_PF!vars
  PROVE  FrameInv'
  <1>1. /\ view \in Nat /\ open \in BOOLEAN /\ extent \in Int /\ pos \in Int
        /\ PF!MarginOf(view) \in Nat /\ PF!Available(view) \in Nat
        /\ PF!Available(view) = view - 2 * PF!MarginOf(view)
        /\ SafeMin \in Nat /\ PanelMin \in Nat /\ SafeMin <= PanelMin
    BY Margins DEF PF!ConstantsFit, FrameInv, FrameTyped
  <1>2. CASE PF!Open
    <2>1. grip = PF!Loose
      BY <1>2 DEF PF!Open, FrameInv, Held
    <2>2. extent' \in Int /\ extent' <= PF!Available(view) /\ extent' >= PF!Least(SafeMin, PF!Available(view))
      BY <1>1, <1>2, Clamped DEF PF!Open
    <2>3. pos' \in Int /\ pos' >= PF!MarginOf(view) /\ pos' + extent' <= view - PF!MarginOf(view)
      <3>1. view \in Int
        BY <1>1
      <3>2. /\ PF!ClampPosition(view, extent', view) \in Int
            /\ PF!ClampPosition(view, extent', view) >= PF!MarginOf(view)
            /\ PF!ClampPosition(view, extent', view) + extent' <= view - PF!MarginOf(view)
        BY <1>1, <2>2, <3>1, Clamped
      <3>3. QED
        BY <1>2, <3>2 DEF PF!Open
    <2>4. QED
      BY <1>2, <2>1, <2>2, <2>3 DEF PF!Open, FrameInv, FrameTyped, Inside, Held, Fits, PF!Loose
  <1>3. CASE PF!Close
    BY <1>3 DEF PF!Close, FrameInv, FrameTyped, Inside, Held, PF!Loose
  <1>4. CASE PF!Release
    BY <1>4 DEF PF!Release, FrameInv, FrameTyped, Inside, Held, Fits, PF!Loose
  <1>5. ASSUME NEW w \in Views, PF!ResizeView(w) PROVE FrameInv'
    <2>1. w \in Nat /\ view' = w /\ grip' = grip /\ open' = open /\ grip.k # "edge"
      BY <1>5 DEF PF!ResizeView, PF!ConstantsFit
    <2>2. CASE open
      <3>1. extent' \in Int /\ extent' <= PF!Available(w) /\ extent' >= PF!Least(SafeMin, PF!Available(w))
        BY <1>1, <1>5, <2>1, <2>2, Clamped DEF PF!ResizeView
      <3>2. pos' = PF!ClampPosition(pos, extent', w)
        BY <1>5, <2>2 DEF PF!ResizeView
      <3>3. /\ PF!ClampPosition(pos, extent', w) \in Int /\ PF!ClampPosition(pos, extent', w) >= PF!MarginOf(w)
            /\ extent' <= PF!Available(w) => PF!ClampPosition(pos, extent', w) + extent' <= w - PF!MarginOf(w)
        BY <1>1, <2>1, <3>1, Clamped
      <3>4. pos' \in Int /\ pos' >= PF!MarginOf(w) /\ pos' + extent' <= w - PF!MarginOf(w)
        BY <3>1, <3>2, <3>3
      <3>5. QED
        BY <2>1, <2>2, <3>1, <3>4 DEF FrameInv, FrameTyped, Inside, Held, Fits
    <2>3. CASE ~open
      BY <1>5, <2>1, <2>3 DEF PF!ResizeView, FrameInv, FrameTyped, Inside, Held
    <2>4. QED
      BY <2>2, <2>3
  <1>6. ASSUME NEW m \in Mouse, PF!GrabHeader(m) PROVE FrameInv'
    <2>1. m - pos \in Int
      BY <1>1 DEF PF!ConstantsFit
    <2>2. grip' = [k |-> "header", off |-> m - pos] /\ grip'.k # "edge" /\ open
      BY <1>6 DEF PF!GrabHeader
    <2>3. QED
      BY <1>6, <2>1, <2>2 DEF PF!GrabHeader, FrameInv, FrameTyped, Inside, Held, Fits
  <1>7. ASSUME NEW m \in Mouse, PF!GrabEdge(m) PROVE FrameInv'
    <2>1. m \in Int
      BY DEF PF!ConstantsFit
    <2>2. /\ grip' = [k |-> "edge", from |-> m, size |-> extent, pos |-> pos] /\ open
          /\ grip'.size = extent /\ grip'.pos = pos
      BY <1>7 DEF PF!GrabEdge
    <2>3. QED
      BY <1>1, <1>7, <2>1, <2>2 DEF PF!GrabEdge, FrameInv, FrameTyped, Inside, Held, Fits
  <1>8. ASSUME NEW m \in Mouse, PF!Drag(m) PROVE FrameInv'
    <2>1. grip.k = "header" /\ grip # PF!Loose /\ m - grip.off \in Int
      BY <1>8 DEF PF!Drag, FrameInv, FrameTyped, PF!Loose, PF!ConstantsFit
    <2>2. open /\ Fits(extent)
      BY <2>1 DEF FrameInv, Held, Inside
    <2>3. pos' \in Int /\ pos' >= PF!MarginOf(view) /\ pos' + extent <= view - PF!MarginOf(view)
      <3>1. pos' = PF!ClampPosition(m - grip.off, extent, view)
        BY <1>8 DEF PF!Drag
      <3>2. extent \in Int /\ extent <= PF!Available(view)
        BY <2>2 DEF Fits
      <3>3. /\ PF!ClampPosition(m - grip.off, extent, view) \in Int
            /\ PF!ClampPosition(m - grip.off, extent, view) >= PF!MarginOf(view)
            /\ extent <= PF!Available(view)
                 => PF!ClampPosition(m - grip.off, extent, view) + extent <= view - PF!MarginOf(view)
        BY <1>1, <2>1, <3>2, Clamped
      <3>4. QED
        BY <3>1, <3>2, <3>3
    <2>4. QED
      BY <1>8, <2>1, <2>2, <2>3 DEF PF!Drag, FrameInv, FrameTyped, Inside, Held, Fits
  <1>9. ASSUME NEW m \in Mouse, PF!Stretch(m) PROVE FrameInv'
    <2>1. /\ grip.k = "edge" /\ grip # PF!Loose /\ grip.pos = pos /\ Fits(grip.size)
          /\ pos + grip.size <= view - PF!MarginOf(view)
          /\ grip.from \in Int /\ grip.size \in Int /\ m \in Int
      BY <1>9 DEF PF!Stretch, FrameInv, FrameTyped, Held, Fits, PF!Loose, PF!ConstantsFit
    <2>2. open /\ pos >= PF!MarginOf(view)
      BY <2>1 DEF FrameInv, Held, Inside
    <2>3. PICK room \in Nat : /\ room = PF!Most(0, view - pos - PF!MarginOf(view))
                              /\ room = view - pos - PF!MarginOf(view) /\ room <= PF!Available(view)
                              /\ room >= PF!Least(SafeMin, PF!Available(view))
      BY <1>1, <2>1, <2>2 DEF Fits, PF!Most, PF!Least
    <2>4. extent' = PF!Least(PF!Most(PF!MinExtent(room), grip.size + m - grip.from), room)
      BY <1>9, <2>1, <2>3 DEF PF!Stretch
    <2>5. PICK x \in Int : x = grip.size + m - grip.from
      BY <2>1
    <2>6. extent' \in Int /\ extent' <= room /\ extent' >= PF!Least(SafeMin, PF!Available(view))
      BY <1>1, <2>3, <2>4, <2>5 DEF PF!MinExtent, PF!Least, PF!Most
    <2>7. UNCHANGED <<view, open, pos, grip>>
      BY <1>9 DEF PF!Stretch
    <2>8. Inside'
      BY <1>1, <2>2, <2>3, <2>6, <2>7 DEF Inside, Fits
    <2>9. QED
      BY <2>1, <2>2, <2>6, <2>7, <2>8 DEF FrameInv, FrameTyped, Held, Fits
  <1>10. CASE UNCHANGED PF!vars
    BY <1>10 DEF PF!vars, FrameInv, FrameTyped, Inside, Held, Fits
  <1>11. QED
    BY <1>2, <1>3, <1>4, <1>5, <1>6, <1>7, <1>8, <1>9, <1>10 DEF PF!Next

(***************************************************************************)
(* However the Live Logs panel is dragged and stretched and the viewport   *)
(* resized, while it is open it lies inside the margins and its Close      *)
(* button can be pressed, as far as the viewport has that room             *)
(* (LiveLogs.jsx).                                                         *)
(***************************************************************************)
THEOREM NeverOutOfReach == PF!ConstantsFit /\ PF!Spec => []PF!PanelReachable
  <1>1. PF!ConstantsFit /\ PF!Init => FrameInv /\ PF!ConstantsFit
    BY FrameInit
  <1>2. FrameInv /\ PF!ConstantsFit /\ [PF!Next]_PF!vars => FrameInv' /\ PF!ConstantsFit'
    BY FrameStep
  <1>3. FrameInv => PF!PanelReachable
    BY DEF FrameInv, Inside, Fits, PF!PanelReachable
  <1>4. QED
    BY <1>1, <1>2, <1>3, PTL DEF PF!Spec
=============================================================================

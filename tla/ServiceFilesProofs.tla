-------------------------- MODULE ServiceFilesProofs --------------------------
(***************************************************************************)
(* For any number of commands, services, kills and edits, and for every    *)
(* file the edits lead to:                                                 *)
(*                                                                         *)
(*   - a change of enabled.json is one whole command applied to the file   *)
(*     as it then is;                                                      *)
(*   - a rename of .zshrc leaves every word of the user and a file that oo *)
(*     can edit again;                                                     *)
(*   - a second install changes nothing, and a removal gives back the file *)
(*     without the block.                                                  *)
(*                                                                         *)
(* The lock proves the first: between the reading of the file and its      *)
(* replacement nobody else replaces it or writes the journal.  The recheck *)
(* and what is known of the texts prove the others: what a block is made   *)
(* of (Framed), what is around the one that a text has (Blocks), and that  *)
(* two lines that become one lose no word (FlattenJoined).                 *)
(***************************************************************************)
EXTENDS ServiceFiles, SequenceTheorems, WellFoundedInduction, TLAPS

-----------------------------------------------------------------------------
(* Files, and the lines of a block. *)

(* A file that can be there: its last line is not open unless there is one. *)
IsText(t) == t \in Texts /\ (t.open => t.lines # <<>>)

(* Lines that no block can begin or end at. *)
Clean(lines) ==
    \A i \in DOMAIN lines : lines[i] \notin {Start, End} /\ ~Malformed(lines[i])

(* The lines of a block. *)
LEMMA ScriptLines ==
    ASSUME NEW r \in Root
    PROVE  /\ {Start, End, Sep, <<r>>} \subseteq Line
           /\ Start # End /\ Sep \notin {Start, End} /\ <<r>> \notin {Start, End, Sep}
           /\ \A line \in {Start, End, Sep, <<r>>} : ~Malformed(line)
<1> USE FilesAssumption
<1>1. /\ <<"start">> # <<"end">> /\ <<"sep">> # <<"start">> /\ <<"sep">> # <<"end">>
      /\ <<r>> # <<"start">> /\ <<r>> # <<"end">> /\ <<r>> # <<"sep">>
    <2>1. /\ <<"start">>[1] = "start" /\ <<"end">>[1] = "end" /\ <<"sep">>[1] = "sep"
          /\ <<r>>[1] = r
        OBVIOUS
    <2>2. r # "start" /\ r # "end" /\ r # "sep"
        OBVIOUS
    <2> QED BY <2>1, <2>2
<1>2. \A x \in Piece : <<x>> \in Line
    BY DEF Line
<1>3. {"start", "end", "sep", r} \subseteq Piece
    BY DEF Piece
<1>4. \A x : ~Malformed(<<x>>)
    BY DEF Malformed
<1> QED BY <1>1, <1>2, <1>3, <1>4 DEF Start, End, Sep

(* The parts of three sequences, one after the other. *)
LEMMA ThreeParts ==
    ASSUME NEW S, NEW b \in Seq(S), NEW s \in Seq(S), NEW a \in Seq(S)
    PROVE  /\ b \o s \o a \in Seq(S) /\ Len(b \o s \o a) = Len(b) + Len(s) + Len(a)
           /\ \A i \in 1..Len(b) : (b \o s \o a)[i] = b[i]
           /\ \A i \in 1..Len(s) : (b \o s \o a)[Len(b) + i] = s[i]
           /\ \A i \in 1..Len(a) : (b \o s \o a)[Len(b) + Len(s) + i] = a[i]
<1> DEFINE front == b \o s
<1>0. Len(b) \in Nat /\ Len(s) \in Nat /\ Len(a) \in Nat
    OBVIOUS
<1>1. /\ front \in Seq(S) /\ Len(front) = Len(b) + Len(s)
      /\ \A i \in 1..(Len(b) + Len(s)) :
            front[i] = IF i <= Len(b) THEN b[i] ELSE s[i - Len(b)]
    <2>1. /\ b \o s \in Seq(S) /\ Len(b \o s) = Len(b) + Len(s)
          /\ \A i \in 1..(Len(b) + Len(s)) :
                (b \o s)[i] = IF i <= Len(b) THEN b[i] ELSE s[i - Len(b)]
        BY ONLY b \in Seq(S), s \in Seq(S), ConcatProperties
    <2> QED BY <2>1
<1> HIDE DEF front
<1>2. /\ front \o a \in Seq(S) /\ Len(front \o a) = Len(front) + Len(a)
      /\ \A i \in 1..(Len(front) + Len(a)) :
            (front \o a)[i] = IF i <= Len(front) THEN front[i] ELSE a[i - Len(front)]
    <2>1. front \in Seq(S)
        BY <1>1
    <2> QED BY ONLY <2>1, a \in Seq(S), ConcatProperties
<1>3. \A i \in 1..Len(b) : (front \o a)[i] = b[i]
    BY <1>0, <1>1, <1>2
<1>4. \A i \in 1..Len(s) : (front \o a)[Len(b) + i] = s[i]
    <2> SUFFICES ASSUME NEW i \in 1..Len(s) PROVE (front \o a)[Len(b) + i] = s[i]
        OBVIOUS
    <2>1. /\ Len(b) + i \in 1..(Len(b) + Len(s)) /\ Len(b) + i \in 1..(Len(front) + Len(a))
          /\ ~(Len(b) + i <= Len(b)) /\ (Len(b) + i) - Len(b) = i /\ Len(b) + i <= Len(front)
        BY <1>0, <1>1
    <2>2. front[Len(b) + i] = s[i]
        BY <1>1, <2>1
    <2> QED BY <1>2, <2>1, <2>2
<1>5. \A i \in 1..Len(a) : (front \o a)[Len(b) + Len(s) + i] = a[i]
    <2> SUFFICES ASSUME NEW i \in 1..Len(a)
                 PROVE  (front \o a)[Len(b) + Len(s) + i] = a[i]
        OBVIOUS
    <2>1. /\ Len(b) + Len(s) + i \in 1..(Len(front) + Len(a))
          /\ ~(Len(b) + Len(s) + i <= Len(front)) /\ (Len(b) + Len(s) + i) - Len(front) = i
        BY <1>0, <1>1
    <2> QED BY <1>2, <2>1
<1> QED BY <1>1, <1>2, <1>3, <1>4, <1>5 DEF front

LEMMA ScriptIs ==
    ASSUME NEW r \in Root, NEW sep \in BOOLEAN
    PROVE  LET s == autoloadScript(r, sep)
               k == IF sep THEN 4 ELSE 3
           IN  /\ s \in Seq(Line) /\ Len(s) = k
               /\ s[1] = Start /\ s[k] = End /\ s[k - 1] = <<r>> /\ (sep => s[2] = Sep)
<1>1. Start \in Line /\ End \in Line /\ Sep \in Line /\ <<r>> \in Line
    BY ScriptLines
<1> DEFINE mid == IF sep THEN <<Sep>> ELSE <<>>
           s == autoloadScript(r, sep)
<1>2. s = <<Start>> \o mid \o << <<r>>, End>>
    BY DEF autoloadScript
<1>3. \A x, y \in Line : /\ <<x>> \in Seq(Line) /\ Len(<<x>>) = 1 /\ <<x>>[1] = x
                         /\ <<x, y>> \in Seq(Line) /\ Len(<<x, y>>) = 2
                         /\ <<x, y>>[1] = x /\ <<x, y>>[2] = y
    OBVIOUS
<1>4. /\ mid \in Seq(Line) /\ Len(mid) = (IF sep THEN 1 ELSE 0) /\ (sep => mid[1] = Sep)
    BY <1>1, <1>3
<1> HIDE DEF mid, s
<1>5. /\ <<Start>> \in Seq(Line) /\ Len(<<Start>>) = 1 /\ <<Start>>[1] = Start
      /\ << <<r>>, End>> \in Seq(Line) /\ Len(<< <<r>>, End>>) = 2
      /\ << <<r>>, End>>[1] = <<r>> /\ << <<r>>, End>>[2] = End
    BY ONLY <1>1, <1>3
<1> DEFINE x == <<Start>>
           z == << <<r>>, End>>
<1>7. x \in Seq(Line) /\ z \in Seq(Line) /\ s = x \o mid \o z
    BY ONLY <1>2, <1>5
<1>8. Len(x) = 1 /\ x[1] = Start /\ Len(z) = 2 /\ z[1] = <<r>> /\ z[2] = End
    BY ONLY <1>5
<1> HIDE DEF x, z
<1>9. /\ s \in Seq(Line) /\ Len(s) = 1 + Len(mid) + 2
      /\ \A i \in 1..1 : s[i] = x[i]
      /\ \A i \in 1..Len(mid) : s[1 + i] = mid[i]
      /\ \A i \in 1..2 : s[1 + Len(mid) + i] = z[i]
    <2>1. /\ x \o mid \o z \in Seq(Line) /\ Len(x \o mid \o z) = Len(x) + Len(mid) + Len(z)
          /\ \A i \in 1..Len(x) : (x \o mid \o z)[i] = x[i]
          /\ \A i \in 1..Len(mid) : (x \o mid \o z)[Len(x) + i] = mid[i]
          /\ \A i \in 1..Len(z) : (x \o mid \o z)[Len(x) + Len(mid) + i] = z[i]
        <3>1. x \in Seq(Line) /\ mid \in Seq(Line) /\ z \in Seq(Line)
            BY <1>4, <1>7
        <3> QED BY ONLY <3>1, ThreeParts
    <2> QED BY ONLY <1>7, <1>8, <2>1
<1> DEFINE k == IF sep THEN 4 ELSE 3
<1>10. /\ Len(s) = k /\ s[1] = Start /\ s[k] = End /\ s[k - 1] = <<r>>
       /\ (sep => s[2] = Sep)
    <2>1. CASE sep
        <3>1. k = 4 /\ Len(mid) = 1 /\ mid[1] = Sep
            BY ONLY <1>4, <2>1
        <3> HIDE DEF k
        <3>2. Len(s) = 4 /\ s[1] = Start /\ s[2] = Sep /\ s[3] = <<r>> /\ s[4] = End
            BY ONLY <1>8, <1>9, <3>1
        <3> QED BY ONLY <3>1, <3>2
    <2>2. CASE ~sep
        <3>1. k = 3 /\ Len(mid) = 0
            BY ONLY <1>4, <2>2
        <3> HIDE DEF k
        <3>2. Len(s) = 3 /\ s[1] = Start /\ s[2] = <<r>> /\ s[3] = End
            BY ONLY <1>8, <1>9, <3>1
        <3> QED BY ONLY <2>2, <3>1, <3>2
    <2> QED BY ONLY <2>1, <2>2
<1> QED BY ONLY <1>9, <1>10 DEF s

(* A file with one block, from its parts. *)
LEMMA Framed ==
    ASSUME NEW b \in Seq(Line), NEW a \in Seq(Line), Clean(b), Clean(a),
           NEW sep \in BOOLEAN, sep => b # <<>>, NEW r \in Root, NEW open \in BOOLEAN,
           NEW u, u = Text(b \o autoloadScript(r, sep) \o a, open)
    PROVE  /\ u \in Texts /\ u.lines # <<>> /\ u.open = open /\ ~Refused(u) /\ HasBlock(u)
           /\ Before(u) = b /\ After(u) = a /\ (addedSeparator(u) <=> sep)
<1> DEFINE s == autoloadScript(r, sep)
           m == Len(b)
           k == IF sep THEN 4 ELSE 3
           n == Len(a)
           L == u.lines
<1>0. m \in Nat /\ n \in Nat /\ k \in {3, 4} /\ (k = 4 <=> sep)
    OBVIOUS
<1>1. /\ s \in Seq(Line) /\ Len(s) = k
      /\ s[1] = Start /\ s[k] = End /\ s[k - 1] = <<r>> /\ (sep => s[2] = Sep)
    BY ScriptIs
<1>2. u = [lines |-> b \o s \o a, open |-> open] /\ L = b \o s \o a /\ u.open = open
    BY DEF Text
<1> HIDE DEF s
<1>3. /\ L \in Seq(Line) /\ Len(L) = m + k + n
      /\ \A i \in 1..m : L[i] = b[i]
      /\ \A i \in 1..k : L[m + i] = s[i]
      /\ \A i \in 1..n : L[m + k + i] = a[i]
    <2>1. /\ b \o s \o a \in Seq(Line) /\ Len(b \o s \o a) = Len(b) + Len(s) + Len(a)
          /\ \A i \in 1..Len(b) : (b \o s \o a)[i] = b[i]
          /\ \A i \in 1..Len(s) : (b \o s \o a)[Len(b) + i] = s[i]
          /\ \A i \in 1..Len(a) : (b \o s \o a)[Len(b) + Len(s) + i] = a[i]
        <3>1. b \in Seq(Line) /\ s \in Seq(Line) /\ a \in Seq(Line)
            BY <1>1
        <3> QED BY ONLY <3>1, ThreeParts, SMTT(30)
    <2> QED BY ONLY <1>1, <1>2, <2>1 DEF m, n
<1> HIDE DEF m, k, n, L
<1>4. /\ DOMAIN L = 1..(m + k + n) /\ DOMAIN b = 1..m /\ DOMAIN a = 1..n
    BY <1>3 DEF m, n
<1>5. \A i \in 1..(m + k + n) : \/ i \in 1..m
                                \/ \E j \in 1..k : i = m + j
                                \/ \E j \in 1..n : i = m + k + j
    <2> SUFFICES ASSUME NEW i \in 1..(m + k + n), i \notin 1..m
                 PROVE  (\E j \in 1..k : i = m + j) \/ (\E j \in 1..n : i = m + k + j)
        OBVIOUS
    <2>1. CASE i <= m + k
        <3>1. i - m \in 1..k /\ i = m + (i - m)
            BY <1>0, <2>1
        <3> QED BY <3>1
    <2>2. CASE i > m + k
        <3>1. i - (m + k) \in 1..n /\ i = m + k + (i - (m + k))
            BY <1>0, <2>2
        <3> QED BY <3>1
    <2> QED BY <1>0, <2>1, <2>2
<1>a. /\ Start # End /\ Start # Sep /\ End # Sep
       /\ <<r>> # Start /\ <<r>> # End /\ <<r>> # Sep
    BY ScriptLines
<1>6. \A j \in 1..k : /\ s[j] \in {Start, End, Sep, <<r>>}
                      /\ (s[j] = Start <=> j = 1)
                      /\ (s[j] = End <=> j = k)
                      /\ (s[j] = Sep <=> sep /\ j = 2)
    <2>1. CASE sep
        <3>1. k = 4
            BY <1>0, <2>1
        <3>2. s[1] = Start /\ s[2] = Sep /\ s[3] = <<r>> /\ s[4] = End
            BY ONLY <1>1, <2>1, <3>1
        <3>3. \A j \in 1..4 : j = 1 \/ j = 2 \/ j = 3 \/ j = 4
            OBVIOUS
        <3>4. \A j \in 1..4 : /\ s[j] \in {Start, End, Sep, <<r>>}
                              /\ s[j] = Start <=> j = 1
                              /\ s[j] = End <=> j = 4
                              /\ s[j] = Sep <=> j = 2
            BY ONLY <3>2, <3>3, <1>a
        <3> QED BY ONLY <2>1, <3>1, <3>4
    <2>2. CASE ~sep
        <3>1. k = 3
            BY <1>0, <2>2
        <3>2. s[1] = Start /\ s[2] = <<r>> /\ s[3] = End
            BY ONLY <1>1, <2>2, <3>1
        <3>3. \A j \in 1..3 : j = 1 \/ j = 2 \/ j = 3
            OBVIOUS
        <3>4. \A j \in 1..3 : /\ s[j] \in {Start, End, Sep, <<r>>}
                              /\ s[j] = Start <=> j = 1
                              /\ s[j] = End <=> j = 3
                              /\ s[j] # Sep
            BY ONLY <3>2, <3>3, <1>a
        <3> QED BY ONLY <2>2, <3>1, <3>4
    <2> QED BY <2>1, <2>2
<1>7. \A i \in 1..(m + k + n) :
         /\ L[i] = Start <=> i = m + 1
         /\ L[i] = End <=> i = m + k
         /\ ~Malformed(L[i])
    <2> SUFFICES ASSUME NEW i \in 1..(m + k + n)
                 PROVE  /\ L[i] = Start <=> i = m + 1
                        /\ L[i] = End <=> i = m + k
                        /\ ~Malformed(L[i])
        OBVIOUS
    <2>1. CASE i \in 1..m
        <3>1. L[i] = b[i] /\ b[i] \notin {Start, End} /\ ~Malformed(b[i])
            BY <1>3, <1>4, <2>1 DEF Clean
        <3> QED BY <1>0, <2>1, <3>1
    <2>2. ASSUME NEW j \in 1..k, i = m + j
          PROVE  /\ L[i] = Start <=> i = m + 1
                 /\ L[i] = End <=> i = m + k
                 /\ ~Malformed(L[i])
        <3>1. L[i] = s[j] /\ (i = m + 1 <=> j = 1) /\ (i = m + k <=> j = k)
            BY <1>0, <1>3, <2>2
        <3>2. ~Malformed(s[j])
            BY <1>6, ScriptLines
        <3> QED BY <1>6, <3>1, <3>2
    <2>3. ASSUME NEW j \in 1..n, i = m + k + j
          PROVE  /\ L[i] = Start <=> i = m + 1
                 /\ L[i] = End <=> i = m + k
                 /\ ~Malformed(L[i])
        <3>1. L[i] = a[j] /\ a[j] \notin {Start, End} /\ ~Malformed(a[j])
            BY <1>3, <1>4, <2>3 DEF Clean
        <3> QED BY <1>0, <2>3, <3>1
    <2> QED BY <1>5, <2>1, <2>2, <2>3
<1>8. At(u, Start) = {m + 1} /\ At(u, End) = {m + k}
    <2>1. At(u, Start) = {i \in 1..(m + k + n) : L[i] = Start}
        BY <1>4 DEF At, L
    <2>2. At(u, End) = {i \in 1..(m + k + n) : L[i] = End}
        BY <1>4 DEF At, L
    <2>3. m + 1 \in 1..(m + k + n) /\ m + k \in 1..(m + k + n)
        BY <1>0
    <2> QED BY <1>7, <2>1, <2>2, <2>3
<1>9. First(u) = m + 1 /\ Final(u) = m + k /\ HasBlock(u)
    BY <1>8 DEF First, Final, HasBlock
<1>10. \A i : i \in At(u, Sep) /\ m + 1 < i /\ i < m + k <=> sep /\ i = m + 2
    <2>1. At(u, Sep) = {i \in 1..(m + k + n) : L[i] = Sep}
        BY <1>4 DEF At, L
    <2>2. ASSUME NEW i \in 1..(m + k + n), m + 1 < i, i < m + k
          PROVE  L[i] = Sep <=> sep /\ i = m + 2
        <3>1. i - m \in 1..k /\ i = m + (i - m) /\ (i - m = 2 <=> i = m + 2)
            BY <1>0, <2>2
        <3>2. L[i] = s[i - m]
            BY <1>3, <3>1
        <3> QED BY <1>6, <3>1, <3>2
    <2>3. sep => m + 2 \in 1..(m + k + n) /\ m + 1 < m + 2 /\ m + 2 < m + k
        BY <1>0
    <2> QED BY <2>1, <2>2, <2>3
<1>11. addedSeparator(u) <=> sep
    BY <1>9, <1>10 DEF addedSeparator
<1>12. ~Refused(u)
    <2> DEFINE seps == {i \in At(u, Sep) : \E x \in At(u, Start), y \in At(u, End) :
                                               x < i /\ i < y}
    <2>1. seps = {i \in At(u, Sep) : m + 1 < i /\ i < m + k}
        BY <1>8
    <2>2. \A i \in seps : sep /\ i = m + 2
        BY <1>10, <2>1
    <2>3. \A i \in DOMAIN u.lines : ~Malformed(u.lines[i])
        BY <1>4, <1>7 DEF L
    <2>4. sep => m + 1 # 1
        BY <1>0 DEF m
    <2> HIDE DEF seps
    <2>5. m + k > m + 1
        BY <1>0
    <2>6. Refused(u) <=>
              \/ \E i \in DOMAIN u.lines : Malformed(u.lines[i])
              \/ \E i, j \in At(u, Start) : i # j
              \/ \E i, j \in At(u, End) : i # j
              \/ (At(u, Start) = {}) # (At(u, End) = {})
              \/ \E x \in At(u, Start), y \in At(u, End) : y < x
              \/ \E i, j \in seps : i # j
              \/ \E i \in seps, x \in At(u, Start) : x = 1
        BY DEF Refused, seps
    <2>7. ~((At(u, Start) = {}) # (At(u, End) = {}))
        BY <1>8
    <2>8. ~(m + k < m + 1)
        BY <1>0
    <2> QED BY <1>8, <2>2, <2>3, <2>4, <2>6, <2>7, <2>8
<1>13. Before(u) = b
    <2>1. Before(u) = SubSeq(L, 1, m)
        BY <1>0, <1>9 DEF Before, L
    <2>2. /\ SubSeq(L, 1, m) \in Seq(Line) /\ Len(SubSeq(L, 1, m)) = m
          /\ \A i \in 1..m : SubSeq(L, 1, m)[i] = L[i]
        <3>1. \A i \in 1..m : L[i] \in Line
            BY <1>0, <1>3, <1>4
        <3>2. /\ SubSeq(L, 1, m) \in Seq(Line)
              /\ Len(SubSeq(L, 1, m)) = IF 1 <= m THEN m - 1 + 1 ELSE 0
              /\ \A i \in 1..(m - 1 + 1) : SubSeq(L, 1, m)[i] = L[1 + i - 1]
            BY <1>0, <3>1, SubSeqProperties
        <3> QED BY <1>0, <3>2
    <2> QED BY <1>3, <2>1, <2>2, SeqEqual DEF m
<1>14. After(u) = a
    <2>1. After(u) = SubSeq(L, m + k + 1, m + k + n)
        BY <1>3, <1>9 DEF After, L
    <2>2. /\ SubSeq(L, m + k + 1, m + k + n) \in Seq(Line)
          /\ Len(SubSeq(L, m + k + 1, m + k + n)) = n
          /\ \A i \in 1..n : SubSeq(L, m + k + 1, m + k + n)[i] = L[m + k + i]
        <3> DEFINE lo == m + k + 1
                   hi == m + k + n
        <3>0. lo \in Int /\ hi \in Int /\ hi - lo + 1 = n
            BY <1>0
        <3>1. \A i \in lo..hi : L[i] \in Line
            BY <1>0, <1>3, <1>4
        <3>3. (IF lo <= hi THEN hi - lo + 1 ELSE 0) = n /\ \A i \in 1..n : lo + i - 1 = m + k + i
            BY <1>0
        <3> HIDE DEF lo, hi
        <3>2. /\ SubSeq(L, lo, hi) \in Seq(Line)
              /\ Len(SubSeq(L, lo, hi)) = IF lo <= hi THEN hi - lo + 1 ELSE 0
              /\ \A i \in 1..(hi - lo + 1) : SubSeq(L, lo, hi)[i] = L[lo + i - 1]
            BY <3>0, <3>1, SubSeqProperties
        <3> QED BY <3>0, <3>2, <3>3 DEF lo, hi
    <2> QED BY <1>3, <2>1, <2>2, SeqEqual DEF n
<1>15. u \in Texts /\ L # <<>>
    <2>1. u.lines \in Seq(Line) /\ u = [lines |-> u.lines, open |-> open]
        BY <1>2, <1>3 DEF L
    <2>2. Len(L) # 0
        BY <1>0, <1>3
    <2> QED BY <2>1, <2>2 DEF Texts
<1> QED BY <1>2, <1>9, <1>11, <1>12, <1>13, <1>14, <1>15 DEF L
-----------------------------------------------------------------------------
(* What is written in a sequence of lines. *)

(* A set of numbers has a least member. *)
LEMMA Least ==
    ASSUME NEW T \in SUBSET Nat, T # {}
    PROVE  \E x \in T : \A y \in T : x <= y
<1> DEFINE less == {xy \in Nat \X Nat : xy[1] < xy[2]}
<1>1. IsWellFoundedOn(less, Nat)
    BY NatLessThanWellFounded, Zenon DEF OpToRel
<1>2. PICK x \in T : \A y \in T : <<y, x>> \notin less
    BY <1>1, WFMin
<1>3. \A y \in T : ~ (y < x)
    BY <1>2
<1> QED BY <1>3

(* Induction over the numbers, for a set of them. *)
LEMMA Counting ==
    ASSUME NEW T, 0 \in T, \A n \in Nat : n \in T => n + 1 \in T
    PROVE  Nat \subseteq T
<1> SUFFICES ASSUME Nat \ T # {} PROVE FALSE
    OBVIOUS
<1>1. PICK x \in Nat \ T : \A y \in Nat \ T : x <= y
    BY Least
<1>2. x # 0 /\ x - 1 \in Nat
    BY <1>1
<1> QED BY <1>1, <1>2

(* What the first lines, one more at a time, are together. *)
Sums(lines, f) ==
    \A i \in 1..Len(lines) : f[i] = IF i = 1 THEN lines[1] ELSE f[i - 1] \o lines[i]

(* The recursion of FlattenSeq ends. *)
LEMMA FlattenIsRecursive ==
    ASSUME NEW S, NEW lines \in Seq(S), lines # <<>>
    PROVE  \E f : Sums(lines, f) /\ FlattenSeq(lines) = f[Len(lines)]
<1> DEFINE N == Len(lines)
           Is(f, n) == f = [i \in 1..n |-> IF i = 1 THEN lines[i] ELSE f[i - 1] \o lines[i]]
           T == {n \in Nat : \E f : Is(f, n)}
           sum == CHOOSE f : Is(f, N)
<1>0. N \in Nat /\ N # 0
    OBVIOUS
<1> HIDE DEF N
<1>1. 0 \in T
    <2> DEFINE f == [i \in 1..0 |-> lines[1]]
    <2>1. Is(f, 0)
        OBVIOUS
    <2> HIDE DEF f, Is
    <2>2. \E g : Is(g, 0)
        BY <2>1
    <2> QED BY <2>2
<1>2. ASSUME NEW n \in Nat, n \in T PROVE n + 1 \in T
    <2>1. PICK f : Is(f, n)
        BY <1>2
    <2> DEFINE g == [i \in 1..(n + 1) |->
                        IF i = n + 1 THEN IF i = 1 THEN lines[i] ELSE f[n] \o lines[n + 1]
                        ELSE f[i]]
    <2>2. ASSUME NEW i \in 1..(n + 1)
          PROVE  g[i] = IF i = 1 THEN lines[i] ELSE g[i - 1] \o lines[i]
        <3>1. CASE i = n + 1 /\ i # 1
            <4>1. i - 1 = n /\ n \in 1..(n + 1) /\ n # n + 1 /\ n + 1 # 1
                BY <3>1
            <4>2. g[n] = f[n]
                BY <4>1
            <4>3. g[n + 1] = f[n] \o lines[n + 1]
                <5>1. n + 1 \in 1..(n + 1)
                    OBVIOUS
                <5> QED BY ONLY <4>1, <5>1
            <4> HIDE DEF g
            <4> QED BY <3>1, <4>1, <4>2, <4>3
        <3>2. CASE i # n + 1
            <4>1. i \in 1..n /\ g[i] = f[i]
                BY <3>2
            <4>2. i # 1 => i - 1 \in 1..(n + 1) /\ i - 1 # n + 1
                BY <4>1
            <4>3. i # 1 => g[i - 1] = f[i - 1]
                BY <4>2
            <4>4. f[i] = IF i = 1 THEN lines[i] ELSE f[i - 1] \o lines[i]
                BY <2>1, <4>1
            <4> HIDE DEF g
            <4> QED BY <4>1, <4>3, <4>4
        <3>3. CASE i = n + 1 /\ i = 1
            BY <3>3
        <3> QED BY <3>1, <3>2, <3>3
    <2>3. g = [i \in 1..(n + 1) |-> g[i]]
        OBVIOUS
    <2>4. Is(g, n + 1)
        <3> HIDE DEF g
        <3> QED BY <2>2, <2>3
    <2> HIDE DEF g, Is
    <2>5. \E h : Is(h, n + 1)
        BY <2>4
    <2> QED BY <2>5
<1>3. \E f : Is(f, N)
    <2>1. N \in T
        <3> HIDE DEF T
        <3> QED BY <1>0, <1>1, <1>2, Counting
    <2> QED BY <2>1
<1>4. Is(sum, N)
    <2> HIDE DEF Is
    <2> QED BY <1>3
<1>5. FlattenSeq(lines) = sum[N]
    BY <1>0 DEF FlattenSeq, N
<1> HIDE DEF sum
<1>6. Sums(lines, sum)
    BY <1>0, <1>4 DEF Sums, N
<1> QED BY <1>5, <1>6 DEF N

(* And there is one such sum. *)
LEMMA FlattenIsUnique ==
    ASSUME NEW S, NEW lines \in Seq(S), lines # <<>>, NEW f, Sums(lines, f)
    PROVE  FlattenSeq(lines) = f[Len(lines)]
<1>1. PICK g : Sums(lines, g) /\ FlattenSeq(lines) = g[Len(lines)]
    BY FlattenIsRecursive
<1> DEFINE T == {n \in Nat : n \in 1..Len(lines) => f[n] = g[n]}
<1>2. 0 \in T
    OBVIOUS
<1>3. ASSUME NEW n \in Nat, n \in T PROVE n + 1 \in T
    <2> SUFFICES ASSUME n + 1 \in 1..Len(lines) PROVE f[n + 1] = g[n + 1]
        OBVIOUS
    <2>1. (n + 1) - 1 = n /\ (n + 1 # 1 => f[n] = g[n])
        BY <1>3
    <2> QED BY <1>1, <2>1 DEF Sums
<1>4. Len(lines) \in Nat /\ Len(lines) # 0
    OBVIOUS
<1>5. Len(lines) \in T
    <2> HIDE DEF T
    <2> QED BY <1>2, <1>3, <1>4, Counting
<1> QED BY <1>1, <1>4, <1>5

(* The sums of lines are sequences of what the lines are written in. *)
LEMMA SumsAreSequences ==
    ASSUME NEW S, NEW lines \in Seq(Seq(S)), NEW f, Sums(lines, f)
    PROVE  \A i \in 1..Len(lines) : f[i] \in Seq(S)
<1> DEFINE T == {n \in Nat : n \in 1..Len(lines) => f[n] \in Seq(S)}
<1>1. 0 \in T
    OBVIOUS
<1>2. ASSUME NEW n \in Nat, n \in T PROVE n + 1 \in T
    <2> SUFFICES ASSUME n + 1 \in 1..Len(lines) PROVE f[n + 1] \in Seq(S)
        OBVIOUS
    <2>1. (n + 1) - 1 = n /\ (n + 1 # 1 => f[n] \in Seq(S)) /\ lines[n + 1] \in Seq(S)
        BY <1>2
    <2>2. f[n + 1] = IF n + 1 = 1 THEN lines[1] ELSE f[(n + 1) - 1] \o lines[n + 1]
        BY DEF Sums
    <2>3. CASE n + 1 = 1
        BY <2>1, <2>2, <2>3
    <2>4. CASE n + 1 # 1
        <3>1. f[n + 1] = f[n] \o lines[n + 1]
            BY <2>1, <2>2, <2>4
        <3>2. f[n] \in Seq(S) /\ lines[n + 1] \in Seq(S)
            BY <2>1, <2>4
        <3> QED BY ONLY <3>1, <3>2, ConcatProperties
    <2> QED BY <2>3, <2>4
<1>3. Nat \subseteq T
    <2> HIDE DEF T
    <2> QED BY <1>1, <1>2, Counting
<1> QED BY <1>3

(* The lines of Joined. *)
LEMMA JoinedIs ==
    ASSUME NEW b \in Seq(Line), NEW a \in Seq(Line), b # <<>>, a # <<>>
    PROVE  LET m == Len(b)
               n == Len(a)
           IN  /\ m \in Nat \ {0} /\ n \in Nat \ {0}
               /\ Joined(b, a) \in Seq(Line) /\ Len(Joined(b, a)) = m + n - 1
               /\ \A i \in 1..(m - 1) : Joined(b, a)[i] = b[i]
               /\ Joined(b, a)[m] = b[m] \o a[1]
               /\ \A i \in (m + 1)..(m + n - 1) : Joined(b, a)[i] = a[i - m + 1]
<1> DEFINE m == Len(b)
           n == Len(a)
           x == b[m] \o a[1]
           f == SubSeq(b, 1, m - 1)
           l == Tail(a)
<1>0. m \in Nat \ {0} /\ n \in Nat \ {0}
    OBVIOUS
<1>1. Joined(b, a) = f \o <<x>> \o l
    <2>1. Joined(b, a) = Front(b) \o <<Last(b) \o Head(a)>> \o Tail(a)
        BY DEF Joined
    <2>2. Front(b) = f /\ Last(b) = b[m] /\ Head(a) = a[1]
        BY DEF Front, Last
    <2> QED BY ONLY <2>1, <2>2
<1>2. x \in Line
    <2>1. b[m] \in Line /\ a[1] \in Line
        BY <1>0
    <2>2. b[m] \in Seq(Piece) /\ a[1] \in Seq(Piece) /\ b[m] # <<>>
        BY <2>1 DEF Line
    <2> DEFINE u == b[m]
               v == a[1]
    <2> HIDE DEF u, v
    <2>3. u \in Seq(Piece) /\ v \in Seq(Piece) /\ u # <<>>
        BY <2>2 DEF u, v
    <2>4. u \o v \in Seq(Piece) /\ u \o v # <<>>
        BY ONLY <2>3, ConcatProperties, ConcatEqualIffEmpty
    <2> QED BY <2>4 DEF u, v, Line
<1>3. f \in Seq(Line) /\ Len(f) = m - 1 /\ \A i \in 1..(m - 1) : f[i] = b[i]
    <2>1. \A i \in 1..(m - 1) : b[i] \in Line
        BY <1>0
    <2>2. /\ f \in Seq(Line) /\ Len(f) = IF 1 <= m - 1 THEN (m - 1) - 1 + 1 ELSE 0
          /\ \A i \in 1..((m - 1) - 1 + 1) : f[i] = b[1 + i - 1]
        BY <1>0, <2>1, SubSeqProperties
    <2>3. m - 1 \in Nat /\ (m - 1) - 1 + 1 = m - 1 /\ \A i \in 1..(m - 1) : 1 + i - 1 = i
        BY <1>0
    <2>4. (IF 1 <= m - 1 THEN (m - 1) - 1 + 1 ELSE 0) = m - 1
        <3> HIDE DEF m
        <3> QED BY ONLY <1>0
    <2> HIDE DEF f
    <2> QED BY ONLY <2>2, <2>3, <2>4
<1>4. l \in Seq(Line) /\ Len(l) = n - 1 /\ \A i \in 1..(n - 1) : l[i] = a[i + 1]
    BY HeadTailProperties
<1>5. <<x>> \in Seq(Line) /\ Len(<<x>>) = 1 /\ <<x>>[1] = x
    <2> HIDE DEF x
    <2> QED BY <1>2
<1> DEFINE c == <<x>>
<1>6. c \in Seq(Line) /\ Len(c) = 1 /\ c[1] = x /\ Joined(b, a) = f \o c \o l
    BY <1>1, <1>5
<1> HIDE DEF f, l, c, x
<1>7. /\ f \o c \o l \in Seq(Line) /\ Len(f \o c \o l) = Len(f) + Len(c) + Len(l)
      /\ \A i \in 1..Len(f) : (f \o c \o l)[i] = f[i]
      /\ \A i \in 1..Len(c) : (f \o c \o l)[Len(f) + i] = c[i]
      /\ \A i \in 1..Len(l) : (f \o c \o l)[Len(f) + Len(c) + i] = l[i]
    <2>1. f \in Seq(Line) /\ c \in Seq(Line) /\ l \in Seq(Line)
        BY <1>3, <1>4, <1>6
    <2> QED BY ONLY <2>1, ThreeParts, SMTT(30)
<1> DEFINE J == Joined(b, a)
<1> HIDE DEF J
<1>8. /\ J \in Seq(Line) /\ Len(J) = (m - 1) + 1 + (n - 1)
      /\ \A i \in 1..(m - 1) : J[i] = b[i]
      /\ \A i \in 1..1 : J[(m - 1) + i] = c[i]
      /\ \A i \in 1..(n - 1) : J[(m - 1) + 1 + i] = a[i + 1]
    BY <1>3, <1>4, <1>6, <1>7 DEF J
<1> HIDE DEF m, n
<1>9. Len(J) = m + n - 1 /\ J[m] = x
    BY <1>0, <1>6, <1>8
<1>10. ASSUME NEW i \in (m + 1)..(m + n - 1) PROVE J[i] = a[i - m + 1]
    <2>1. i - m \in 1..(n - 1) /\ (m - 1) + 1 + (i - m) = i
        BY <1>0
    <2> QED BY <1>8, <2>1
<1> QED BY <1>0, <1>8, <1>9, <1>10 DEF m, n, x, J

(* A newline that is taken away takes no word away. *)
LEMMA FlattenJoined ==
    ASSUME NEW b \in Seq(Line), NEW a \in Seq(Line)
    PROVE  FlattenSeq(Joined(b, a)) = FlattenSeq(b \o a)
<1>1. CASE b = <<>> \/ a = <<>>
    BY <1>1 DEF Joined
<1>2. CASE b # <<>> /\ a # <<>>
    <2> DEFINE m == Len(b)
               n == Len(a)
               L == b \o a
               J == Joined(b, a)
    <2>1. /\ m \in Nat \ {0} /\ n \in Nat \ {0}
          /\ J \in Seq(Line) /\ Len(J) = m + n - 1
          /\ \A i \in 1..(m - 1) : J[i] = b[i]
          /\ J[m] = b[m] \o a[1]
          /\ \A i \in (m + 1)..(m + n - 1) : J[i] = a[i - m + 1]
        BY <1>2, JoinedIs
    <2>2. /\ L \in Seq(Line) /\ Len(L) = m + n
          /\ \A i \in 1..(m + n) : L[i] = IF i <= m THEN b[i] ELSE a[i - m]
        BY ConcatProperties
    <2> HIDE DEF L, J
    <2>3. /\ L # <<>> /\ J # <<>> /\ Line \subseteq Seq(Piece)
          /\ L \in Seq(Seq(Piece))
        <3>1. Len(L) # 0 /\ Len(J) # 0
            BY <2>1, <2>2
        <3>2. Line \subseteq Seq(Piece)
            BY DEF Line
        <3>3. Seq(Line) \subseteq Seq(Seq(Piece))
            BY <3>2, SeqMonotonic
        <3> QED BY <2>2, <3>1, <3>2, <3>3
    <2>4. PICK f : Sums(L, f) /\ FlattenSeq(L) = f[m + n]
        BY <2>2, <2>3, FlattenIsRecursive
    <2>5. \A i \in 1..(m + n) : f[i] \in Seq(Piece)
        BY <2>2, <2>3, <2>4, SumsAreSequences
    <2>6. \A i \in 1..(m + n) : f[i] = IF i = 1 THEN L[1] ELSE f[i - 1] \o L[i]
        BY <2>2, <2>4 DEF Sums
    <2> DEFINE g == [i \in 1..(m + n - 1) |-> IF i < m THEN f[i] ELSE f[i + 1]]
    <2>7. ASSUME NEW i \in 1..(m + n - 1)
          PROVE  g[i] = IF i = 1 THEN J[1] ELSE g[i - 1] \o J[i]
        <3>1. CASE i < m
            <4>1. g[i] = f[i] /\ J[i] = b[i] /\ L[i] = b[i] /\ i \in 1..(m + n)
                BY <2>1, <2>2, <3>1
            <4>2. i # 1 => g[i - 1] = f[i - 1]
                BY <2>1, <3>1
            <4> HIDE DEF g, m, n
            <4> QED BY <2>6, <4>1, <4>2
        <3>2. CASE i = m
            <4>1. /\ g[m] = f[m + 1] /\ J[m] = b[m] \o a[1] /\ L[m] = b[m] /\ L[m + 1] = a[1]
                  /\ m \in 1..(m + n) /\ m + 1 \in 1..(m + n) /\ m + 1 # 1 /\ (m + 1) - 1 = m
                BY <2>1, <2>2, <3>2
            <4>2. f[m + 1] = f[m] \o a[1]
                BY <2>6, <4>1
            <4>3. CASE m = 1
                <5>1. f[m] = b[m]
                    BY <2>6, <4>1, <4>3
                <5> HIDE DEF g, m, n
                <5> QED BY <3>2, <4>1, <4>2, <4>3, <5>1
            <4>4. CASE m # 1
                <5>1. g[m - 1] = f[m - 1] /\ m - 1 \in 1..(m + n)
                    <6>1. m - 1 \in 1..(m + n - 1) /\ m - 1 < m /\ m - 1 \in 1..(m + n)
                        <7> HIDE DEF m, n
                        <7> QED BY ONLY <2>1, <4>4
                    <6> HIDE DEF m, n
                    <6> QED BY ONLY <6>1
                <5>2. f[m] = f[m - 1] \o b[m]
                    BY <2>6, <4>1, <4>4
                <5> DEFINE p == f[m - 1]
                           q == b[m]
                           s == a[1]
                <5>3. p \in Seq(Piece) /\ q \in Seq(Piece) /\ s \in Seq(Piece)
                    <6>1. m \in 1..Len(b) /\ 1 \in 1..Len(a)
                        BY <2>1
                    <6>2. q \in Line /\ s \in Line
                        BY <6>1
                    <6> QED BY <2>3, <2>5, <5>1, <6>2
                <5> HIDE DEF p, q, s
                <5>4. (p \o q) \o s = p \o (q \o s)
                    BY ONLY <5>3, ConcatAssociative
                <5>5. f[m] = p \o q /\ f[m + 1] = f[m] \o s /\ g[m - 1] = p /\ J[m] = q \o s
                    BY <4>1, <4>2, <5>1, <5>2 DEF p, q, s
                <5> HIDE DEF g, m, n
                <5> QED BY <3>2, <4>1, <4>4, <5>4, <5>5
            <4> QED BY <4>3, <4>4
        <3>3. CASE i > m
            <4>1. /\ g[i] = f[i + 1] /\ g[i - 1] = f[i] /\ i # 1
                  /\ i + 1 \in 1..(m + n) /\ i + 1 # 1 /\ (i + 1) - 1 = i
                BY <2>1, <3>3
            <4>2. J[i] = a[i - m + 1]
                BY <2>1, <3>3
            <4>3. L[i + 1] = a[(i + 1) - m] /\ (i + 1) - m = i - m + 1
                BY <2>1, <2>2, <3>3, <4>1
            <4> HIDE DEF g, m, n
            <4> QED BY <2>6, <4>1, <4>2, <4>3
        <3> QED BY <2>1, <3>1, <3>2, <3>3
    <2>8. g[m + n - 1] = f[m + n]
        BY <2>1
    <2> HIDE DEF g
    <2>9. Sums(J, g)
        BY <2>1, <2>7 DEF Sums
    <2>10. FlattenSeq(J) = g[m + n - 1]
        BY <2>1, <2>3, <2>9, FlattenIsUnique
    <2> QED BY <2>4, <2>8, <2>10 DEF L, J
<1> QED BY <1>1, <1>2

-----------------------------------------------------------------------------
(* What oo makes of a file that it may edit. *)

(* The lines of a part of a file are lines of the file. *)
LEMMA PartIs ==
    ASSUME NEW lines \in Seq(Line), NEW lo \in Int, NEW hi \in Int,
           1 <= lo, hi <= Len(lines), lo <= hi + 1
    PROVE  /\ SubSeq(lines, lo, hi) \in Seq(Line) /\ Len(SubSeq(lines, lo, hi)) = hi - lo + 1
           /\ \A i \in 1..(hi - lo + 1) : /\ lo + i - 1 \in 1..Len(lines)
                                          /\ SubSeq(lines, lo, hi)[i] = lines[lo + i - 1]
<1>1. \A i \in lo..hi : lines[i] \in Line
    OBVIOUS
<1>2. /\ SubSeq(lines, lo, hi) \in Seq(Line)
      /\ Len(SubSeq(lines, lo, hi)) = IF lo <= hi THEN hi - lo + 1 ELSE 0
      /\ \A i \in 1..(hi - lo + 1) : SubSeq(lines, lo, hi)[i] = lines[lo + i - 1]
    BY <1>1, SubSeqProperties
<1>3. (IF lo <= hi THEN hi - lo + 1 ELSE 0) = hi - lo + 1
    OBVIOUS
<1>4. \A i \in 1..(hi - lo + 1) : lo + i - 1 \in 1..Len(lines)
    OBVIOUS
<1> QED BY ONLY <1>2, <1>3, <1>4

(* The only block of such a file, and what is around it. *)
LEMMA Blocks ==
    ASSUME NEW t \in Texts, ~Refused(t), HasBlock(t)
    PROVE  /\ Before(t) \in Seq(Line) /\ After(t) \in Seq(Line)
           /\ Clean(Before(t)) /\ Clean(After(t))
           /\ addedSeparator(t) => Before(t) # <<>>
<1> DEFINE L == t.lines
<1>0. L \in Seq(Line) /\ Len(L) \in Nat /\ DOMAIN L = 1..Len(L)
    BY DEF Texts
<1>1. /\ \A i \in DOMAIN L : ~Malformed(L[i])
      /\ \A i, j \in At(t, Start) : i = j
      /\ \A i, j \in At(t, End) : i = j
      /\ At(t, Start) # {} /\ At(t, End) # {}
      /\ \A x \in At(t, Start), y \in At(t, End) : ~(y < x)
      /\ \A i \in At(t, Sep), x \in At(t, Start), y \in At(t, End) :
            x < i /\ i < y => x # 1
    <2>1. At(t, End) # {}
        BY DEF Refused, HasBlock
    <2>2. \A i \in At(t, Sep), x \in At(t, Start), y \in At(t, End) : x < i /\ i < y => x # 1
        BY Zenon DEF Refused
    <2> QED BY <2>1, <2>2 DEF Refused, HasBlock
<1>2. PICK x \in At(t, Start) : At(t, Start) = {x}
    BY <1>1
<1>3. PICK y \in At(t, End) : At(t, End) = {y}
    BY <1>1
<1>4. First(t) = x /\ Final(t) = y
    BY <1>2, <1>3 DEF First, Final
<1>5. /\ x \in 1..Len(L) /\ y \in 1..Len(L) /\ L[x] = Start /\ L[y] = End
      /\ \A i \in 1..Len(L) : (L[i] = Start <=> i = x) /\ (L[i] = End <=> i = y)
    BY <1>0, <1>2, <1>3 DEF At
<1>6. Start # End
    <2>1. <<"start">>[1] = "start" /\ <<"end">>[1] = "end"
        OBVIOUS
    <2> QED BY <2>1 DEF Start, End
<1>7. x < y
    BY <1>1, <1>2, <1>3, <1>5, <1>6
<1> HIDE DEF L
<1>8. Before(t) = SubSeq(L, 1, x - 1) /\ After(t) = SubSeq(L, y + 1, Len(L))
    BY <1>4 DEF Before, After, L
<1>9. /\ SubSeq(L, 1, x - 1) \in Seq(Line) /\ Len(SubSeq(L, 1, x - 1)) = x - 1
      /\ \A i \in 1..(x - 1) : SubSeq(L, 1, x - 1)[i] = L[i]
    <2>1. 1 \in Int /\ x - 1 \in Int /\ 1 <= 1 /\ x - 1 <= Len(L) /\ 1 <= x - 1 + 1
        BY <1>0, <1>5
    <2>2. /\ SubSeq(L, 1, x - 1) \in Seq(Line) /\ Len(SubSeq(L, 1, x - 1)) = (x - 1) - 1 + 1
          /\ \A i \in 1..((x - 1) - 1 + 1) : SubSeq(L, 1, x - 1)[i] = L[1 + i - 1]
        BY <1>0, <2>1, PartIs
    <2>3. (x - 1) - 1 + 1 = x - 1 /\ \A i \in 1..(x - 1) : 1 + i - 1 = i
        BY <1>5
    <2> QED BY ONLY <2>2, <2>3
<1>10. /\ SubSeq(L, y + 1, Len(L)) \in Seq(Line) /\ Len(SubSeq(L, y + 1, Len(L))) = Len(L) - y
       /\ \A i \in 1..(Len(L) - y) : SubSeq(L, y + 1, Len(L))[i] = L[y + i]
    <2>1. y + 1 \in Int /\ 1 <= y + 1 /\ Len(L) <= Len(L) /\ y + 1 <= Len(L) + 1
        BY <1>0, <1>5
    <2>2. /\ SubSeq(L, y + 1, Len(L)) \in Seq(Line)
          /\ Len(SubSeq(L, y + 1, Len(L))) = Len(L) - (y + 1) + 1
          /\ \A i \in 1..(Len(L) - (y + 1) + 1) :
                SubSeq(L, y + 1, Len(L))[i] = L[(y + 1) + i - 1]
        BY <1>0, <2>1, PartIs
    <2>3. /\ Len(L) - (y + 1) + 1 = Len(L) - y
          /\ \A i \in 1..(Len(L) - y) : (y + 1) + i - 1 = y + i
        BY <1>0, <1>5
    <2> QED BY ONLY <2>2, <2>3
<1>11. \A i \in 1..Len(L) : i # x /\ i # y => L[i] \notin {Start, End} /\ ~Malformed(L[i])
    BY <1>0, <1>1, <1>5 DEF L
<1>12. Clean(Before(t))
    <2> SUFFICES ASSUME NEW i \in 1..(x - 1)
                 PROVE  L[i] \notin {Start, End} /\ ~Malformed(L[i])
        BY <1>8, <1>9 DEF Clean
    <2>1. i \in 1..Len(L) /\ i # x /\ i # y
        BY <1>0, <1>5, <1>7
    <2> QED BY <1>11, <2>1
<1>13. Clean(After(t))
    <2> SUFFICES ASSUME NEW i \in 1..(Len(L) - y)
                 PROVE  L[y + i] \notin {Start, End} /\ ~Malformed(L[y + i])
        BY <1>8, <1>10 DEF Clean
    <2>1. y + i \in 1..Len(L) /\ y + i # x /\ y + i # y
        BY <1>0, <1>5, <1>7
    <2> QED BY <1>11, <2>1
<1>14. ASSUME addedSeparator(t) PROVE Before(t) # <<>>
    <2>1. PICK i \in At(t, Sep) : x < i /\ i < y
        BY <1>4, <1>14 DEF addedSeparator
    <2>2. x # 1
        BY <1>1, <2>1
    <2>3. Len(Before(t)) # 0
        BY <1>5, <1>8, <1>9, <2>2
    <2> QED BY <2>3
<1> QED BY <1>8, <1>9, <1>10, <1>12, <1>13, <1>14

(* A file without a block has none of its lines. *)
LEMMA NoBlocks ==
    ASSUME NEW t \in Texts, ~Refused(t), ~HasBlock(t)
    PROVE  t.lines \in Seq(Line) /\ Clean(t.lines)
<1>1. At(t, Start) = {} /\ At(t, End) = {}
    BY DEF Refused, HasBlock
<1>2. \A i \in DOMAIN t.lines : ~Malformed(t.lines[i])
    BY DEF Refused
<1> QED BY <1>1, <1>2 DEF At, Clean, Texts

(* Files of clean lines are accepted, and have no block. *)
LEMMA CleanIsAccepted ==
    ASSUME NEW t, Clean(t.lines)
    PROVE  ~Refused(t) /\ ~HasBlock(t)
<1>1. At(t, Start) = {} /\ At(t, End) = {}
    BY DEF At, Clean
<1>2. \A i \in DOMAIN t.lines : ~Malformed(t.lines[i])
    BY DEF Clean
<1> QED BY <1>1, <1>2 DEF Refused, HasBlock

(* What is put together from clean lines is clean. *)
LEMMA CleanBoth ==
    ASSUME NEW b \in Seq(Line), NEW a \in Seq(Line), Clean(b), Clean(a)
    PROVE  b \o a \in Seq(Line) /\ Clean(b \o a)
<1>1. /\ b \o a \in Seq(Line) /\ Len(b \o a) = Len(b) + Len(a)
      /\ \A i \in 1..(Len(b) + Len(a)) :
            (b \o a)[i] = IF i <= Len(b) THEN b[i] ELSE a[i - Len(b)]
    BY ConcatProperties
<1> DEFINE L == b \o a
<1> HIDE DEF L
<1>2. ASSUME NEW i \in 1..(Len(b) + Len(a)) PROVE L[i] \notin {Start, End} /\ ~Malformed(L[i])
    <2>1. CASE i <= Len(b)
        <3>1. i \in DOMAIN b /\ L[i] = b[i]
            BY <1>1, <2>1 DEF L
        <3> QED BY <3>1 DEF Clean
    <2>2. CASE i > Len(b)
        <3>1. i - Len(b) \in DOMAIN a /\ L[i] = a[i - Len(b)]
            BY <1>1, <2>2 DEF L
        <3> QED BY <3>1 DEF Clean
    <2> QED BY <2>1, <2>2
<1>3. DOMAIN L = 1..(Len(b) + Len(a))
    BY <1>1 DEF L
<1> QED BY <1>1, <1>2, <1>3 DEF Clean, L

(* A line that goes on on another one is no marker and not malformed. *)
LEMMA CleanJoined ==
    ASSUME NEW b \in Seq(Line), NEW a \in Seq(Line), Clean(b), Clean(a)
    PROVE  Joined(b, a) \in Seq(Line) /\ Clean(Joined(b, a)) /\ (b # <<>> => Joined(b, a) # <<>>)
<1>1. CASE b = <<>> \/ a = <<>>
    <2>1. Joined(b, a) = b \o a
        BY <1>1 DEF Joined
    <2>2. b # <<>> => b \o a # <<>>
        BY ConcatEqualIffEmpty
    <2> QED BY <2>1, <2>2, CleanBoth
<1>2. CASE b # <<>> /\ a # <<>>
    <2> DEFINE m == Len(b)
               n == Len(a)
               J == Joined(b, a)
               u == b[m]
               v == a[1]
    <2>1. /\ m \in Nat \ {0} /\ n \in Nat \ {0}
          /\ J \in Seq(Line) /\ Len(J) = m + n - 1
          /\ \A i \in 1..(m - 1) : J[i] = b[i]
          /\ J[m] = u \o v
          /\ \A i \in (m + 1)..(m + n - 1) : J[i] = a[i - m + 1]
        BY <1>2, JoinedIs
    <2>2. m \in DOMAIN b /\ u \in Line
        BY <2>1
    <2>3. 1 \in DOMAIN a /\ v \in Line
        BY <2>1
    <2>4. u \notin {Start, End} /\ ~Malformed(u)
        BY <2>2 DEF Clean
    <2> HIDE DEF J, u, v
    <2>5. u \in Seq(Piece) /\ v \in Seq(Piece) /\ Len(u) \in Nat \ {0} /\ Len(v) \in Nat \ {0}
        BY <2>2, <2>3 DEF Line
    <2>6. /\ u \o v \in Seq(Piece) /\ Len(u \o v) = Len(u) + Len(v)
          /\ \A i \in 1..(Len(u) + Len(v)) :
                (u \o v)[i] = IF i <= Len(u) THEN u[i] ELSE v[i - Len(u)]
        BY ONLY <2>5, ConcatProperties
    <2>7. Len(u \o v) # 1 /\ (u \o v)[1] = u[1]
        BY <2>5, <2>6
    <2>8. u[1] \notin {"start", "end"}
        <3>1. CASE Len(u) > 1
            <4>1. Head(u) = u[1]
                OBVIOUS
            <4> QED BY <2>4, <3>1, <4>1 DEF Malformed
        <3>2. CASE Len(u) = 1
            <4>1. u = <<u[1]>>
                BY <2>5, <3>2
            <4> QED BY <2>4, <4>1 DEF Start, End
        <3>3. Len(u) > 1 \/ Len(u) = 1
            <4>1. \A k \in Nat \ {0} : k > 1 \/ k = 1
                OBVIOUS
            <4> QED BY <2>5, <4>1
        <3> QED BY ONLY <3>1, <3>2, <3>3
    <2>9. J[m] \notin {Start, End} /\ ~Malformed(J[m])
        <3>1. Len(Start) = 1 /\ Len(End) = 1
            BY DEF Start, End
        <3>2. Head(u \o v) = (u \o v)[1]
            <4> DEFINE w == u \o v
            <4> HIDE DEF w
            <4>1. Head(w) = w[1]
                OBVIOUS
            <4> QED BY ONLY <4>1 DEF w
        <3> QED BY <2>1, <2>7, <2>8, <3>1, <3>2 DEF Malformed
    <2>10. ASSUME NEW i \in 1..(m + n - 1) PROVE J[i] \notin {Start, End} /\ ~Malformed(J[i])
        <3>1. CASE i < m
            <4>1. J[i] = b[i] /\ i \in DOMAIN b
                BY <2>1, <3>1
            <4> QED BY <4>1 DEF Clean
        <3>2. CASE i = m
            BY <2>9, <3>2
        <3>3. CASE i > m
            <4>1. J[i] = a[i - m + 1]
                BY <2>1, <3>3
            <4>2. i - m + 1 \in 1..n
                <5> HIDE DEF m, n
                <5> QED BY <2>1, <3>3
            <4>3. DOMAIN a = 1..n
                OBVIOUS
            <4> QED BY <4>1, <4>2, <4>3 DEF Clean
        <3> QED BY <2>1, <3>1, <3>2, <3>3
    <2>11. DOMAIN J = 1..(m + n - 1) /\ J # <<>>
        BY <2>1
    <2> QED BY <2>1, <2>10, <2>11 DEF Clean, J
<1> QED BY <1>1, <1>2

(* What install writes: a block between what was before and behind it. *)
LEMMA InstalledIs ==
    ASSUME NEW t, IsText(t), ~Refused(t), NEW r \in Root, NEW u, u = Installed(t, r)
    PROVE  /\ IsText(u) /\ ~Refused(u) /\ HasBlock(u)
           /\ Installed(u, r) = u
           /\ Others(u) = IF HasBlock(t) THEN Before(t) \o After(t) ELSE t.lines
           /\ ~HasBlock(t) =>
                 /\ Before(u) = t.lines /\ After(u) = <<>> /\ (addedSeparator(u) <=> t.open)
                 /\ ~u.open
<1> DEFINE b == IF HasBlock(t) THEN Before(t) ELSE t.lines
           a == IF HasBlock(t) THEN After(t) ELSE <<>>
           sep == IF HasBlock(t) THEN addedSeparator(t) ELSE t.open
           open == IF HasBlock(t) THEN t.open ELSE FALSE
<1>0. t \in Texts /\ t.lines \in Seq(Line) /\ t.open \in BOOLEAN /\ (t.open => t.lines # <<>>)
    BY DEF IsText, Texts
<1>1. /\ b \in Seq(Line) /\ a \in Seq(Line) /\ Clean(b) /\ Clean(a) /\ sep \in BOOLEAN
      /\ (sep => b # <<>>) /\ open \in BOOLEAN
    <2>1. CASE HasBlock(t)
        <3>1. addedSeparator(t) \in BOOLEAN
            BY DEF addedSeparator
        <3> QED BY <1>0, <2>1, <3>1, Blocks
    <2>2. CASE ~HasBlock(t)
        <3>1. Clean(t.lines)
            BY <1>0, <2>2, NoBlocks
        <3>2. Clean(<<>>) /\ <<>> \in Seq(Line)
            BY DEF Clean
        <3> QED BY <1>0, <2>2, <3>1, <3>2
    <2> QED BY <2>1, <2>2
<1>2. autoloadScript(r, sep) \in Seq(Line)
    BY <1>1, ScriptIs
<1>3. u = Text(b \o autoloadScript(r, sep) \o a, open)
    <2>1. CASE HasBlock(t)
        BY <2>1 DEF Installed
    <2>2. CASE ~HasBlock(t)
        <3> DEFINE s == autoloadScript(r, t.open)
        <3>1. u = Text(t.lines \o s, FALSE)
            BY <2>2 DEF Installed
        <3>2. s \in Seq(Line)
            BY <1>2, <2>2
        <3> HIDE DEF s
        <3>3. t.lines \o s \in Seq(Line)
            BY <1>0, <3>2, ConcatProperties
        <3>4. (t.lines \o s) \o <<>> = t.lines \o s
            BY <3>3, ConcatEmptySeq
        <3> QED BY <2>2, <3>1, <3>4 DEF s
    <2> QED BY <2>1, <2>2
<1> HIDE DEF b, a, sep, open
<1>4. /\ u \in Texts /\ u.lines # <<>> /\ u.open = open /\ ~Refused(u) /\ HasBlock(u)
      /\ Before(u) = b /\ After(u) = a /\ (addedSeparator(u) <=> sep)
    BY ONLY <1>1, <1>3, r \in Root, Framed
<1>5. IsText(u)
    BY <1>4 DEF IsText
<1>6. Installed(u, r) = u
    <2>1. addedSeparator(u) = sep
        BY <1>1, <1>4 DEF addedSeparator
    <2> QED BY <1>3, <1>4, <2>1 DEF Installed
<1>7. Others(u) = b \o a
    <2>1. u # Absent
        BY <1>4, FilesAssumption
    <2> QED BY <1>4, <2>1 DEF Others
<1>8. b \o a = IF HasBlock(t) THEN Before(t) \o After(t) ELSE t.lines
    <2>1. t.lines \o <<>> = t.lines
        BY <1>0, ConcatEmptySeq
    <2> QED BY <2>1 DEF b, a
<1>9. ~HasBlock(t) => b = t.lines /\ a = <<>> /\ sep = t.open /\ open = FALSE
    BY DEF b, a, sep, open
<1> QED BY <1>4, <1>5, <1>6, <1>7, <1>8, <1>9

(* What remove writes: a file without a block and with every word. *)
LEMMA RemovedIs ==
    ASSUME NEW t, IsText(t), ~Refused(t)
    PROVE  /\ IsText(Removed(t)) /\ ~Refused(Removed(t)) /\ ~HasBlock(Removed(t))
           /\ FlattenSeq(Others(Removed(t))) = FlattenSeq(Others(t))
<1>0. t \in Texts /\ t # Absent
    BY FilesAssumption DEF IsText
<1>1. CASE ~HasBlock(t)
    BY <1>1 DEF Removed
<1>2. CASE HasBlock(t)
    <2> DEFINE b == Before(t)
               a == After(t)
    <2>1. /\ b \in Seq(Line) /\ a \in Seq(Line) /\ Clean(b) /\ Clean(a)
          /\ addedSeparator(t) => b # <<>>
        BY <1>0, <1>2, Blocks
    <2>2. Others(t) = b \o a
        BY <1>0, <1>2 DEF Others
    <2>3. t.open \in BOOLEAN
        BY <1>0 DEF Texts
    <2> HIDE DEF b, a
    <2>4. ASSUME NEW lines \in Seq(Line), Clean(lines), NEW open \in BOOLEAN,
                 open => lines # <<>>, FlattenSeq(lines) = FlattenSeq(b \o a),
                 Removed(t) = Text(lines, open)
          PROVE  /\ IsText(Removed(t)) /\ ~Refused(Removed(t)) /\ ~HasBlock(Removed(t))
                 /\ FlattenSeq(Others(Removed(t))) = FlattenSeq(Others(t))
        <3> DEFINE u == Removed(t)
        <3>1. u = [lines |-> lines, open |-> open]
            BY <2>4 DEF Text
        <3> HIDE DEF u
        <3>2. u \in Texts /\ u.lines = lines /\ u.open = open
            BY <3>1 DEF Texts
        <3>3. u # Absent
            BY <3>2, FilesAssumption
        <3>4. ~Refused(u) /\ ~HasBlock(u)
            BY <2>4, <3>2, CleanIsAccepted
        <3>5. Others(u) = lines
            BY <3>2, <3>3, <3>4 DEF Others
        <3> QED BY <2>2, <2>4, <3>2, <3>4, <3>5 DEF u, IsText
    <2>5. CASE addedSeparator(t)
        <3>1. Removed(t) = Text(Joined(b, a), a = <<>> \/ t.open)
            BY <1>2, <2>5 DEF Removed, b, a
        <3>2. Joined(b, a) \in Seq(Line) /\ Clean(Joined(b, a)) /\ Joined(b, a) # <<>>
            BY <2>1, <2>5, CleanJoined
        <3>3. FlattenSeq(Joined(b, a)) = FlattenSeq(b \o a)
            BY <2>1, FlattenJoined
        <3>4. (a = <<>> \/ t.open) \in BOOLEAN
            OBVIOUS
        <3> QED BY <2>4, <3>1, <3>2, <3>3, <3>4
    <2>6. CASE ~addedSeparator(t)
        <3>1. Removed(t) = Text(b \o a, a # <<>> /\ t.open)
            BY <1>2, <2>6 DEF Removed, b, a
        <3>2. b \o a \in Seq(Line) /\ Clean(b \o a)
            BY <2>1, CleanBoth
        <3>3. a # <<>> => b \o a # <<>>
            BY <2>1, ConcatEqualIffEmpty
        <3>4. (a # <<>> /\ t.open) \in BOOLEAN
            OBVIOUS
        <3> QED BY <2>4, <3>1, <3>2, <3>3, <3>4
    <2> QED BY <2>5, <2>6
<1> QED BY <1>1, <1>2

(* A change of the file by a command: accepted again, with every word. *)
LEMMA UpdatedIs ==
    ASSUME NEW t, IsText(t), ~Refused(t), NEW mode, NEW r \in Root
    PROVE  /\ IsText(Updated(t, mode, r)) /\ ~Refused(Updated(t, mode, r))
           /\ FlattenSeq(Others(Updated(t, mode, r))) = FlattenSeq(Others(t))
<1>1. CASE mode = "install"
    <2> DEFINE u == Installed(t, r)
    <2>1. u = Updated(t, mode, r)
        BY <1>1 DEF Updated
    <2> HIDE DEF u
    <2>2. /\ IsText(u) /\ ~Refused(u)
          /\ Others(u) = IF HasBlock(t) THEN Before(t) \o After(t) ELSE t.lines
        BY InstalledIs DEF u
    <2>3. t # Absent
        BY FilesAssumption DEF IsText
    <2>4. Others(u) = Others(t)
        BY <2>2, <2>3 DEF Others
    <2> QED BY <2>1, <2>2, <2>4
<1>2. CASE mode # "install"
    BY <1>2, RemovedIs DEF Updated
<1> QED BY <1>1, <1>2

(* A second install changes nothing, and a removal gives the file back. *)
LEMMA ThereAndBack ==
    ASSUME NEW t, IsText(t), ~Refused(t), NEW r \in Root, NEW s \in Root
    PROVE  LET once == Installed(t, r)
           IN  /\ ~Refused(once)
               /\ Installed(once, r) = once
               /\ ~HasBlock(t) => Removed(Installed(once, s)) = t
<1> DEFINE once == Installed(t, r)
           twice == Installed(once, s)
<1>1. /\ IsText(once) /\ ~Refused(once) /\ HasBlock(once) /\ Installed(once, r) = once
      /\ ~HasBlock(t) =>
            Before(once) = t.lines /\ After(once) = <<>> /\ (addedSeparator(once) <=> t.open)
            /\ ~once.open
    BY InstalledIs
<1> HIDE DEF once
<1>2. ASSUME ~HasBlock(t) PROVE Removed(twice) = t
    <2>0. t.lines \in Seq(Line) /\ Clean(t.lines) /\ t.open \in BOOLEAN
          /\ t = [lines |-> t.lines, open |-> t.open] /\ (t.open => t.lines # <<>>)
        <3>1. t \in Texts /\ (t.open => t.lines # <<>>)
            BY DEF IsText
        <3> QED BY <1>2, <3>1, NoBlocks DEF Texts
    <2>1. /\ HasBlock(twice) /\ Before(twice) = t.lines /\ After(twice) = <<>>
          /\ (addedSeparator(twice) <=> t.open)
        <3> DEFINE sep == t.open
                   open == once.open
                   b == t.lines
                   a == <<>>
        <3>1. addedSeparator(once) = sep
            BY <1>1, <1>2, <2>0 DEF addedSeparator
        <3>2. twice = Text(t.lines \o autoloadScript(s, sep) \o <<>>, once.open)
            BY <1>1, <1>2, <3>1 DEF Installed
        <3>3. once.open \in BOOLEAN /\ Clean(<<>>) /\ <<>> \in Seq(Line)
            BY <1>1 DEF Clean, IsText, Texts
        <3>4. twice = Text(b \o autoloadScript(s, sep) \o a, open)
            BY <3>2
        <3>5. /\ b \in Seq(Line) /\ a \in Seq(Line) /\ Clean(b) /\ Clean(a)
              /\ sep \in BOOLEAN /\ (sep => b # <<>>) /\ s \in Root /\ open \in BOOLEAN
            BY <2>0, <3>3
        <3> HIDE DEF twice, sep, open, b, a
        <3>6. /\ HasBlock(twice) /\ Before(twice) = b /\ After(twice) = a
              /\ (addedSeparator(twice) <=> sep)
            BY ONLY <3>4, <3>5, Framed
        <3> QED BY <3>6 DEF sep, b, a
    <2> HIDE DEF twice
    <2>2. t.lines \o <<>> = t.lines
        BY <2>0, ConcatEmptySeq
    <2>3. CASE t.open
        <3>1. Removed(twice) = Text(Joined(t.lines, <<>>), TRUE)
            BY <2>1, <2>3 DEF Removed
        <3>2. Joined(t.lines, <<>>) = t.lines
            BY <2>2 DEF Joined
        <3> QED BY <2>0, <2>3, <3>1, <3>2 DEF Text
    <2>4. CASE ~t.open
        <3>1. Removed(twice) = Text(t.lines \o <<>>, FALSE)
            BY <2>1, <2>4 DEF Removed
        <3> QED BY <2>0, <2>2, <2>4, <3>1 DEF Text
    <2> QED BY <2>3, <2>4
<1> QED BY <1>1, <1>2 DEF once

-----------------------------------------------------------------------------
(* What run is made of. *)
Shaped ==
    /\ run = [p \in Process |-> run[p]]
    /\ \A p \in Process :
          run[p] = [step |-> run[p].step, mode |-> run[p].mode, names |-> run[p].names,
                    todo |-> run[p].todo, existed |-> run[p].existed,
                    original |-> run[p].original, updated |-> run[p].updated]

(* A command that has passed the lock has it. *)
Held == \A p \in Process : run[p].step \notin {"idle", "wait"} => holder = p

(* What a command that changes enabled.json knows of it and of the journal.*)
Current ==
    about = "enabled" =>
        \A p \in Process :
            /\ run[p].step # "idle" => run[p].mode \in {"enable", "disable"}
            /\ run[p].step \notin {"look", "read", "recheck"}
            /\ run[p].step \in {"truncate", "write", "rename"} =>
                  run[p].updated = Changed(p, enabled)
            /\ run[p].step = "rename" => next = run[p].updated


(* A step replaces the record of one command. *)
LEMMA Replaced ==
  ASSUME Shaped, NEW p \in Process, NEW j, run' = [run EXCEPT ![p] = j]
  PROVE  run'[p] = j /\ \A q \in Process \ {p} : run'[q] = run[q]
BY DEF Shaped

(* Only fields of the commands change. *)
LEMMA ShapedKept ==
  ASSUME Shaped, [Next]_vars PROVE Shaped'
<1> USE FilesAssumption
<1>0. Shaped
  OBVIOUS
<1> USE DEF Shaped, Idle, Goto, UserKept, vars
<1>1. ASSUME NEW p \in Process, NEW mode \in {"install", "remove"}, NEW root \in Root,
             Autoload(p, mode, root)
      PROVE  Shaped'
  BY <1>0, <1>1 DEF Autoload, Call
<1>2. ASSUME NEW p \in Process, NEW mode \in {"enable", "disable"}, NEW names \in SUBSET Service,
             SetEnabled(p, mode, names)
      PROVE  Shaped'
  BY <1>0, <1>2 DEF SetEnabled, Call
<1>3. ASSUME NEW p \in Process, Lock(p) PROVE Shaped'
  BY <1>0, <1>3 DEF Lock
<1>4. ASSUME NEW p \in Process, LockTimesOut(p) PROVE Shaped'
  BY <1>0, <1>4 DEF LockTimesOut, Return
<1>5. ASSUME NEW p \in Process, Truncate(p) PROVE Shaped'
  BY <1>0, <1>5 DEF Truncate
<1>6. ASSUME NEW p \in Process, Write(p) PROVE Shaped'
  BY <1>0, <1>6 DEF Write
<1>7. ASSUME NEW p \in Process, Dies(p) PROVE Shaped'
  BY <1>0, <1>7 DEF Dies
<1>8. ASSUME NEW p \in Process, Look(p) PROVE Shaped'
  BY <1>0, <1>8 DEF Look
<1>9. ASSUME NEW p \in Process, ReadReturns(p) PROVE Shaped'
  BY <1>0, <1>9 DEF ReadReturns, Return
<1>10. ASSUME NEW p \in Process, Read(p) PROVE Shaped'
  BY <1>0, <1>10 DEF Read
<1>11. ASSUME NEW p \in Process, Recheck(p) PROVE Shaped'
  BY <1>0, <1>11 DEF Recheck
<1>12. ASSUME NEW p \in Process, RecheckFails(p) PROVE Shaped'
  BY <1>0, <1>12 DEF RecheckFails, Return
<1>13. ASSUME NEW p \in Process, Rename(p) PROVE Shaped'
  BY <1>0, <1>13 DEF Rename
<1>14. ASSUME NEW p \in Process, NEW s \in Service, CheckConfig(p, s) PROVE Shaped'
  BY <1>0, <1>14 DEF CheckConfig
<1>15. ASSUME NEW p \in Process, ConfigFails(p) PROVE Shaped'
  BY <1>0, <1>15 DEF ConfigFails, Return
<1>16. ASSUME NEW p \in Process, Load(p) PROVE Shaped'
  BY <1>0, <1>16 DEF Load
<1>17. ASSUME NEW p \in Process, Replace(p) PROVE Shaped'
  BY <1>0, <1>17 DEF Replace
<1>18. ASSUME NEW p \in Process, Close(p) PROVE Shaped'
  BY <1>0, <1>18 DEF Close, Return
<1>19. ASSUME NEW s \in Service, StartService(s) PROVE Shaped'
  BY <1>0, <1>19 DEF StartService, DaemonKept
<1>20. ASSUME NEW s \in Service, Define(s) PROVE Shaped'
  BY <1>0, <1>20 DEF Define
<1>21. ASSUME NEW w \in Word, Extend(w) PROVE Shaped'
  BY <1>0, <1>21 DEF Extend, MayEdit
<1>22. ASSUME NEW w \in Word, Save(w) PROVE Shaped'
  BY <1>0, <1>22 DEF Save, MayEdit
<1>23. ASSUME NEW w \in Word, Create(w) PROVE Shaped'
  BY <1>0, <1>23 DEF Create, MayEdit
<1>24. CASE Boot
  BY <1>0, <1>24 DEF Boot, DaemonKept
<1>25. CASE Shutdown
  BY <1>0, <1>25 DEF Shutdown, DaemonKept
<1>26. CASE Delete
  BY <1>0, <1>26 DEF Delete, MayEdit
<1>27. CASE UNCHANGED vars
  BY <1>0, <1>27 DEF vars
<1> QED
  BY <1>1, <1>2, <1>3, <1>4, <1>5, <1>6, <1>7, <1>8, <1>9, <1>10, <1>11, <1>12,
     <1>13, <1>14, <1>15, <1>16, <1>17, <1>18, <1>19, <1>20, <1>21, <1>22, <1>23, <1>24,
     <1>25, <1>26, <1>27
     DEF Next, Operation

(* waitLock is the only way past the lock, and every return closes it. *)
LEMMA HeldKept ==
  ASSUME Shaped, Held, [Next]_vars PROVE Held'
<1> USE FilesAssumption
<1>0. Shaped /\ Held
  OBVIOUS
<1> USE DEF Shaped, Held, IsAt, Idle, Goto, Begin, UserKept, vars
<1>1. ASSUME NEW p \in Process, NEW mode \in {"install", "remove"}, NEW root \in Root,
             Autoload(p, mode, root)
      PROVE  Held'
  BY <1>0, <1>1 DEF Autoload, Call
<1>2. ASSUME NEW p \in Process, NEW mode \in {"enable", "disable"}, NEW names \in SUBSET Service,
             SetEnabled(p, mode, names)
      PROVE  Held'
  BY <1>0, <1>2 DEF SetEnabled, Call
<1>3. ASSUME NEW p \in Process, Lock(p) PROVE Held'
  BY <1>0, <1>3 DEF Lock
<1>4. ASSUME NEW p \in Process, LockTimesOut(p) PROVE Held'
  BY <1>0, <1>4 DEF LockTimesOut, Return
<1>5. ASSUME NEW p \in Process, Truncate(p) PROVE Held'
  BY <1>0, <1>5 DEF Truncate
<1>6. ASSUME NEW p \in Process, Write(p) PROVE Held'
  BY <1>0, <1>6 DEF Write
<1>7. ASSUME NEW p \in Process, Dies(p) PROVE Held'
  BY <1>0, <1>7 DEF Dies
<1>8. ASSUME NEW p \in Process, Look(p) PROVE Held'
  BY <1>0, <1>8 DEF Look
<1>9. ASSUME NEW p \in Process, ReadReturns(p) PROVE Held'
  BY <1>0, <1>9 DEF ReadReturns, Return
<1>10. ASSUME NEW p \in Process, Read(p) PROVE Held'
  BY <1>0, <1>10 DEF Read
<1>11. ASSUME NEW p \in Process, Recheck(p) PROVE Held'
  BY <1>0, <1>11 DEF Recheck
<1>12. ASSUME NEW p \in Process, RecheckFails(p) PROVE Held'
  BY <1>0, <1>12 DEF RecheckFails, Return
<1>13. ASSUME NEW p \in Process, Rename(p) PROVE Held'
  BY <1>0, <1>13 DEF Rename
<1>14. ASSUME NEW p \in Process, NEW s \in Service, CheckConfig(p, s) PROVE Held'
  BY <1>0, <1>14 DEF CheckConfig
<1>15. ASSUME NEW p \in Process, ConfigFails(p) PROVE Held'
  BY <1>0, <1>15 DEF ConfigFails, Return
<1>16. ASSUME NEW p \in Process, Load(p) PROVE Held'
  BY <1>0, <1>16 DEF Load
<1>17. ASSUME NEW p \in Process, Replace(p) PROVE Held'
  BY <1>0, <1>17 DEF Replace
<1>18. ASSUME NEW p \in Process, Close(p) PROVE Held'
  BY <1>0, <1>18 DEF Close, Return
<1>19. ASSUME NEW s \in Service, StartService(s) PROVE Held'
  BY <1>0, <1>19 DEF StartService, DaemonKept
<1>20. ASSUME NEW s \in Service, Define(s) PROVE Held'
  BY <1>0, <1>20 DEF Define
<1>21. ASSUME NEW w \in Word, Extend(w) PROVE Held'
  BY <1>0, <1>21 DEF Extend, MayEdit
<1>22. ASSUME NEW w \in Word, Save(w) PROVE Held'
  BY <1>0, <1>22 DEF Save, MayEdit
<1>23. ASSUME NEW w \in Word, Create(w) PROVE Held'
  BY <1>0, <1>23 DEF Create, MayEdit
<1>24. CASE Boot
  BY <1>0, <1>24 DEF Boot, DaemonKept
<1>25. CASE Shutdown
  BY <1>0, <1>25 DEF Shutdown, DaemonKept
<1>26. CASE Delete
  BY <1>0, <1>26 DEF Delete, MayEdit
<1>27. CASE UNCHANGED vars
  BY <1>0, <1>27 DEF vars
<1> QED
  BY <1>1, <1>2, <1>3, <1>4, <1>5, <1>6, <1>7, <1>8, <1>9, <1>10, <1>11, <1>12,
     <1>13, <1>14, <1>15, <1>16, <1>17, <1>18, <1>19, <1>20, <1>21, <1>22, <1>23, <1>24,
     <1>25, <1>26, <1>27
     DEF Next, Operation

(* One command is past the lock: nobody changes what it has read. *)
LEMMA CurrentKept ==
  ASSUME Shaped, Held, Current, [Next]_vars PROVE Current'
<1> USE FilesAssumption
<1>0. Shaped /\ Held /\ Current
  OBVIOUS
<1> USE DEF Shaped, Held, Current, Changed, IsAt, Idle, Goto, Begin, UserKept, vars
<1>1. ASSUME NEW p \in Process, NEW mode \in {"install", "remove"}, NEW root \in Root,
             Autoload(p, mode, root)
      PROVE  Current'
  BY <1>0, <1>1 DEF Autoload, Call
<1>2. ASSUME NEW p \in Process, NEW mode \in {"enable", "disable"}, NEW names \in SUBSET Service,
             SetEnabled(p, mode, names)
      PROVE  Current'
  BY <1>0, <1>2 DEF SetEnabled, Call
<1>3. ASSUME NEW p \in Process, Lock(p) PROVE Current'
  <2>1. /\ run'[p].step = Begin[run[p].mode] /\ run'[p].mode = run[p].mode
        /\ \A q \in Process \ {p} : run'[q] = run[q]
    BY <1>0, <1>3 DEF Lock
  <2>2. about' = about /\ enabled' = enabled /\ next' = next /\ run[p].step = "wait"
    BY <1>3 DEF Lock
  <2>3. about = "enabled" => run[p].mode \in {"enable", "disable"}
    BY ONLY <1>0, <2>2 DEF Current
  <2>4. about = "enabled" => run'[p].step \in {"check", "load"}
    BY ONLY <2>1, <2>3 DEF Begin
  <2> HIDE DEF Begin, Shaped, Held, Goto, UserKept, vars, Idle
  <2> QED
    BY ONLY ZenonT(60), <1>0, <2>1, <2>2, <2>3, <2>4 DEF Current, Changed
<1>4. ASSUME NEW p \in Process, LockTimesOut(p) PROVE Current'
  BY <1>0, <1>4 DEF LockTimesOut, Return
<1>5. ASSUME NEW p \in Process, Truncate(p) PROVE Current'
  <2>1. /\ run'[p].step = "write" /\ run'[p].mode = run[p].mode
        /\ run'[p].names = run[p].names /\ run'[p].updated = run[p].updated
        /\ \A q \in Process \ {p} : run'[q] = run[q]
    BY <1>0, <1>5 DEF Truncate
  <2>2. \A q \in Process \ {p} : run[q].step \in {"idle", "wait"}
    BY <1>0, <1>5 DEF Truncate
  <2> QED
    BY ZenonT(60), <1>0, <2>1, <2>2, <1>5 DEF Truncate
<1>6. ASSUME NEW p \in Process, Write(p) PROVE Current'
  <2>1. /\ run'[p].step = (IF about = "zshrc" THEN "recheck" ELSE "rename")
        /\ run'[p].mode = run[p].mode
        /\ run'[p].names = run[p].names /\ run'[p].updated = run[p].updated
        /\ \A q \in Process \ {p} : run'[q] = run[q]
    BY <1>0, <1>6 DEF Write
  <2>2. \A q \in Process \ {p} : run[q].step \in {"idle", "wait"}
    BY <1>0, <1>6 DEF Write
  <2>3. /\ about' = about /\ enabled' = enabled /\ next' = run[p].updated
        /\ run[p].step = "write"
    BY <1>6 DEF Write
  <2>4. about = "enabled" => run'[p].step = "rename"
    BY ONLY <2>1
  <2> HIDE DEF Begin, Shaped, Held, Goto, UserKept, vars, Idle
  <2> QED
    BY ONLY SMTT(30), <1>0, <2>1, <2>2, <2>3, <2>4 DEF Current, Changed
<1>7. ASSUME NEW p \in Process, Dies(p) PROVE Current'
  BY <1>0, <1>7 DEF Dies
<1>8. ASSUME NEW p \in Process, Look(p) PROVE Current'
  BY <1>0, <1>8 DEF Look
<1>9. ASSUME NEW p \in Process, ReadReturns(p) PROVE Current'
  BY <1>0, <1>9 DEF ReadReturns, Return
<1>10. ASSUME NEW p \in Process, Read(p) PROVE Current'
  BY <1>0, <1>10 DEF Read
<1>11. ASSUME NEW p \in Process, Recheck(p) PROVE Current'
  BY <1>0, <1>11 DEF Recheck
<1>12. ASSUME NEW p \in Process, RecheckFails(p) PROVE Current'
  BY <1>0, <1>12 DEF RecheckFails, Return
<1>13. ASSUME NEW p \in Process, Rename(p) PROVE Current'
  BY <1>0, <1>13 DEF Rename
<1>14. ASSUME NEW p \in Process, NEW s \in Service, CheckConfig(p, s) PROVE Current'
  <2> DEFINE j == [run[p] EXCEPT !.todo = run[p].todo \ {s},
                                 !.step = IF run[p].todo = {s} THEN "load" ELSE "check"]
  <2>1. run' = [run EXCEPT ![p] = j]
    BY <1>14 DEF CheckConfig
  <2>2. j.step \in {"check", "load"} /\ j.mode = run[p].mode
    BY ONLY <1>0 DEF Shaped
  <2> HIDE DEF j
  <2>3. run'[p] = j /\ \A q \in Process \ {p} : run'[q] = run[q]
    BY ONLY <1>0, <2>1, Replaced
  <2>4. /\ run'[p].step \in {"check", "load"} /\ run'[p].mode = run[p].mode
        /\ \A q \in Process \ {p} : run'[q] = run[q]
    BY ONLY <2>2, <2>3
  <2>5. \A q \in Process \ {p} : run[q].step \in {"idle", "wait"}
    BY <1>0, <1>14 DEF CheckConfig
  <2> QED
    BY <1>0, <2>4, <2>5, <1>14 DEF CheckConfig
<1>15. ASSUME NEW p \in Process, ConfigFails(p) PROVE Current'
  BY <1>0, <1>15 DEF ConfigFails, Return
<1>16. ASSUME NEW p \in Process, Load(p) PROVE Current'
  <2> DEFINE j == [run[p] EXCEPT !.updated = Changed(p, enabled), !.step = "truncate"]
  <2>1. run' = [run EXCEPT ![p] = j]
    BY <1>16 DEF Load
  <2>2. /\ j.step = "truncate" /\ j.mode = run[p].mode
        /\ j.names = run[p].names /\ j.updated = Changed(p, enabled)
    BY ONLY <1>0 DEF Shaped
  <2> HIDE DEF j
  <2>3. run'[p] = j /\ \A q \in Process \ {p} : run'[q] = run[q]
    BY ONLY <1>0, <2>1, Replaced
  <2>4. /\ run'[p].step = "truncate" /\ run'[p].mode = run[p].mode
        /\ run'[p].names = run[p].names /\ run'[p].updated = Changed(p, enabled)
        /\ \A q \in Process \ {p} : run'[q] = run[q]
    BY ONLY <2>2, <2>3
  <2>5. \A q \in Process \ {p} : run[q].step \in {"idle", "wait"}
    BY <1>0, <1>16 DEF Load
  <2> QED
    BY ZenonT(60), <1>0, <2>4, <2>5, <1>16 DEF Load
<1>17. ASSUME NEW p \in Process, Replace(p) PROVE Current'
  <2>1. /\ run'[p].step = "close" /\ run'[p].mode = run[p].mode
        /\ \A q \in Process \ {p} : run'[q] = run[q]
    BY <1>0, <1>17 DEF Replace
  <2>2. \A q \in Process \ {p} : run[q].step \in {"idle", "wait"}
    BY <1>0, <1>17 DEF Replace
  <2> QED
    BY <1>0, <2>1, <2>2, <1>17 DEF Replace
<1>18. ASSUME NEW p \in Process, Close(p) PROVE Current'
  BY <1>0, <1>18 DEF Close, Return
<1>19. ASSUME NEW s \in Service, StartService(s) PROVE Current'
  BY <1>0, <1>19 DEF StartService, DaemonKept
<1>20. ASSUME NEW s \in Service, Define(s) PROVE Current'
  BY <1>0, <1>20 DEF Define
<1>21. ASSUME NEW w \in Word, Extend(w) PROVE Current'
  BY <1>0, <1>21 DEF Extend, MayEdit
<1>22. ASSUME NEW w \in Word, Save(w) PROVE Current'
  BY <1>0, <1>22 DEF Save, MayEdit
<1>23. ASSUME NEW w \in Word, Create(w) PROVE Current'
  BY <1>0, <1>23 DEF Create, MayEdit
<1>24. CASE Boot
  BY <1>0, <1>24 DEF Boot, DaemonKept
<1>25. CASE Shutdown
  BY <1>0, <1>25 DEF Shutdown, DaemonKept
<1>26. CASE Delete
  BY <1>0, <1>26 DEF Delete, MayEdit
<1>27. CASE UNCHANGED vars
  BY <1>0, <1>27 DEF vars
<1> QED
  BY <1>1, <1>2, <1>3, <1>4, <1>5, <1>6, <1>7, <1>8, <1>9, <1>10, <1>11, <1>12,
     <1>13, <1>14, <1>15, <1>16, <1>17, <1>18, <1>19, <1>20, <1>21, <1>22, <1>23, <1>24,
     <1>25, <1>26, <1>27
     DEF Next, Operation

-----------------------------------------------------------------------------
(* The files a user comes to have, and what a command makes of one. *)

(* What the user writes, with any editor, is a file. *)
LEMMA FilesOfWords ==
    ASSUME NEW w \in Word
    PROVE  /\ << <<w>> >> \in Seq(Line) /\ <<w>> \in Line /\ << <<w>> >> # <<>>
           /\ \A open \in BOOLEAN : IsText(Text(<< <<w>> >>, open))
<1>1. <<w>> \in Line
    BY DEF Line, Piece
<1> DEFINE l == <<w>>
<1> HIDE DEF l
<1>2. <<l>> \in Seq(Line) /\ <<l>> # <<>>
    BY <1>1 DEF l
<1>3. \A open \in BOOLEAN : IsText(Text(<<l>>, open))
    BY <1>2 DEF IsText, Text, Texts
<1> QED BY <1>1, <1>2, <1>3 DEF l

LEMMA ExtendedIsText ==
    ASSUME NEW t, IsText(t), NEW w \in Word
    PROVE  IsText(Text(IF t.open THEN Joined(t.lines, << <<w>> >>)
                       ELSE Append(t.lines, <<w>>), FALSE))
<1> DEFINE l == <<w>>
           a == <<l>>
<1>1. a \in Seq(Line) /\ a # <<>> /\ l \in Line
    BY FilesOfWords
<1>2. t.lines \in Seq(Line) /\ (t.open => t.lines # <<>>)
    BY DEF IsText, Texts
<1> HIDE DEF l, a
<1>3. t.open => Joined(t.lines, a) \in Seq(Line)
    BY <1>1, <1>2, JoinedIs
<1>4. Append(t.lines, l) \in Seq(Line)
    BY <1>1, <1>2, AppendProperties
<1>5. (IF t.open THEN Joined(t.lines, a) ELSE Append(t.lines, l)) \in Seq(Line)
    BY <1>3, <1>4
<1> QED BY <1>5 DEF IsText, Text, Texts, a, l

LEMMA SavedIsText ==
    ASSUME NEW t, IsText(t), NEW w \in Word, NEW u \in Saved(t, w)
    PROVE  IsText(u)
<1>0. /\ t.lines \in Seq(Line) /\ t.open \in BOOLEAN /\ (t.open => t.lines # <<>>)
    BY DEF IsText, Texts
<1>1. CASE u = Text(<< <<w>> >> \o t.lines, t.open)
    <2> DEFINE f == << <<w>> >>
    <2>1. f \in Seq(Line) /\ f # <<>>
        BY FilesOfWords
    <2> HIDE DEF f
    <2>2. f \o t.lines \in Seq(Line) /\ f \o t.lines # <<>>
        BY <1>0, <2>1, ConcatProperties, ConcatEqualIffEmpty
    <2>3. u = Text(f \o t.lines, t.open)
        BY <1>1 DEF f
    <2> QED BY ONLY <1>0, <2>2, <2>3 DEF IsText, Text, Texts
<1>2. ASSUME NEW i \in DOMAIN t.lines,
             u = Text(RemoveAt(t.lines, i), t.open /\ i # Len(t.lines))
      PROVE  IsText(u)
    <2> DEFINE n == Len(t.lines)
               f == SubSeq(t.lines, 1, i - 1)
               l == SubSeq(t.lines, i + 1, n)
    <2>1. i \in 1..n /\ n \in Nat
        BY <1>0
    <2>2. f \in Seq(Line)
        <3>1. 1 \in Int /\ i - 1 \in Int /\ 1 <= 1 /\ i - 1 <= n /\ 1 <= i - 1 + 1
            BY <2>1
        <3> QED BY <1>0, <3>1, PartIs
    <2>3. l \in Seq(Line) /\ Len(l) = n - (i + 1) + 1
        <3>1. i + 1 \in Int /\ n \in Int /\ 1 <= i + 1 /\ n <= n /\ i + 1 <= n + 1
            BY <2>1
        <3> QED BY <1>0, <3>1, PartIs
    <2> HIDE DEF f, l
    <2>4. RemoveAt(t.lines, i) = f \o l
        BY DEF RemoveAt, f, l, n
    <2>5. f \o l \in Seq(Line) /\ Len(f \o l) = Len(f) + Len(l)
        BY ONLY <2>2, <2>3, ConcatProperties
    <2>6. i # n => f \o l # <<>>
        <3> DEFINE s == f \o l
        <3> HIDE DEF s, n
        <3>1. i # n => Len(s) # 0
            BY <2>1, <2>2, <2>3, <2>5 DEF s
        <3> QED BY <3>1 DEF s
    <2>7. (t.open /\ i # n) \in BOOLEAN
        OBVIOUS
    <2> QED BY <1>2, <2>4, <2>5, <2>6, <2>7 DEF IsText, Text, Texts
<1>3. CASE t.lines # <<>> /\ u = Text(t.lines, ~t.open)
    BY <1>0, <1>3 DEF IsText, Text, Texts
<1> QED BY <1>1, <1>2, <1>3 DEF Saved

(* A command for .zshrc, from the reading to the rename: what it writes is *)
(* what it makes of a file it may edit, and that file is there.            *)
WriteOK(p) ==
    /\ run[p].step # "idle" =>
          run[p].mode \in {"install", "remove"} /\ \E r \in Root : run[p].names = {r}
    /\ run[p].step \notin {"check", "load", "close"}
    /\ run[p].step \in {"truncate", "write", "recheck", "rename"} =>
          /\ IsText(run[p].original) /\ ~Refused(run[p].original)
          /\ \E r \in Root : run[p].updated = Updated(run[p].original, run[p].mode, r)
    /\ run[p].step \in {"recheck", "rename"} => next = run[p].updated
    /\ run[p].step = "rename" =>
          IF run[p].existed THEN zshrc = run[p].original ELSE zshrc = Absent

TextsOK ==
    /\ edits \in Nat
    /\ zshrc = Absent \/ IsText(zshrc)
    /\ about = "zshrc" => \A p \in Process : WriteOK(p)

(* The step of a command, with everything else it knows. *)
LEMMA Going ==
    ASSUME Shaped, NEW p \in Process, NEW step, Goto(p, step)
    PROVE  /\ run'[p].step = step /\ run'[p].mode = run[p].mode
           /\ run'[p].names = run[p].names /\ run'[p].existed = run[p].existed
           /\ run'[p].original = run[p].original /\ run'[p].updated = run[p].updated
           /\ \A q \in Process \ {p} : run'[q] = run[q]
BY DEF Shaped, Goto

(* A command that returns knows nothing. *)
LEMMA Ending ==
    ASSUME Shaped, NEW p \in Process, run' = [run EXCEPT ![p] = Idle]
    PROVE  run'[p].step = "idle" /\ \A q \in Process \ {p} : run'[q] = run[q]
BY DEF Shaped, Idle

LEMMA IdleIsOK ==
    ASSUME NEW p, run'[p].step = "idle"
    PROVE  WriteOK(p)'
BY DEF WriteOK

(* What a command has to fear of the steps of others. *)
LEMMA WriteStays ==
    ASSUME NEW q, WriteOK(q), run'[q] = run[q],
           run[q].step \in {"recheck", "rename"} => next' = next,
           run[q].step = "rename" => zshrc' = zshrc
    PROVE  WriteOK(q)'
BY DEF WriteOK

(* Nothing has been read yet. *)
LEMMA InitTexts == Init => TextsOK
<1> SUFFICES ASSUME Init PROVE TextsOK
    OBVIOUS
<1>1. \A p \in Process : WriteOK(p)
    <2>1. \A p \in Process : run[p].step = "idle"
        BY DEF Init, Idle
    <2> QED BY <2>1 DEF WriteOK
<1>2. zshrc = Absent \/ IsText(zshrc)
    <2>1. IsText(Empty)
        BY DEF IsText, Empty, Text, Texts
    <2>2. \A w \in Word, open \in BOOLEAN : IsText(Text(<< <<w>> >>, open))
        BY FilesOfWords
    <2> QED BY <2>1, <2>2 DEF Init
<1>3. edits \in Nat
    BY DEF Init
<1> QED BY <1>1, <1>2, <1>3 DEF TextsOK

(* The command between its reading and its rename has the lock, and before *)
(* the rename it looks again.                                              *)
LEMMA TextsKept ==
    ASSUME Shaped, Held, TextsOK, [Next]_vars
    PROVE  TextsOK'
<1>0. /\ edits \in Nat /\ (zshrc = Absent \/ IsText(zshrc))
      /\ about = "zshrc" => \A p \in Process : WriteOK(p)
    BY DEF TextsOK
<1>a. ASSUME about' = about, edits' = edits, zshrc' = zshrc,
             about = "zshrc" => \A p \in Process : WriteOK(p)'
      PROVE  TextsOK'
    BY <1>0, <1>a DEF TextsOK, IsText
<1>b. ASSUME NEW p \in Process, UserKept, zshrc' = zshrc, next' = next,
             \A q \in Process \ {p} : run'[q] = run[q],
             about = "zshrc" => WriteOK(p)'
      PROVE  TextsOK'
    <2>1. about = "zshrc" => \A q \in Process \ {p} : WriteOK(q)'
        BY <1>0, <1>b, WriteStays
    <2> QED BY <1>a, <1>b, <2>1 DEF UserKept
<1>c. ASSUME NEW p \in Process, holder = p, UserKept, zshrc' = zshrc,
             \A q \in Process \ {p} : run'[q] = run[q],
             about = "zshrc" => WriteOK(p)'
      PROVE  TextsOK'
    <2>1. \A q \in Process \ {p} : run[q].step \in {"idle", "wait"}
        BY <1>c DEF Held
    <2>2. about = "zshrc" => \A q \in Process \ {p} : WriteOK(q)'
        BY <1>0, <1>c, <2>1, WriteStays
    <2> QED BY <1>a, <1>c, <2>2 DEF UserKept
<1>d. ASSUME NEW p \in Process, UserKept, zshrc' = zshrc, next' = next,
             run' = [run EXCEPT ![p] = Idle]
      PROVE  TextsOK'
    <2>1. run'[p].step = "idle" /\ \A q \in Process \ {p} : run'[q] = run[q]
        BY <1>d, Ending
    <2> QED BY <1>b, <1>d, <2>1, IdleIsOK
<1>e. ASSUME run' = run, next' = next, about' = about, edits' \in Nat,
             \A p \in Process : run[p].step = "rename" => zshrc' = zshrc,
             zshrc' = Absent \/ IsText(zshrc')
      PROVE  TextsOK'
    <2>1. about = "zshrc" => \A q \in Process : WriteOK(q)'
        BY <1>0, <1>e, WriteStays
    <2> QED BY <1>e, <2>1 DEF TextsOK, IsText
<1>f. ASSUME NEW p \in Process, run[p].step \notin {"idle", "wait"} PROVE holder = p
    BY <1>f DEF Held
<1>g. ASSUME MayEdit
      PROVE  /\ run' = run /\ next' = next /\ about' = about /\ edits' \in Nat
             /\ \A p \in Process : run[p].step # "rename"
    BY <1>0, <1>g DEF MayEdit, IsAt
<1>1. ASSUME NEW p \in Process, NEW mode \in {"install", "remove"}, NEW root \in Root,
             Autoload(p, mode, root)
      PROVE  TextsOK'
    <2> DEFINE j == [Idle EXCEPT !.step = "wait", !.mode = mode,
                                 !.names = {root}, !.todo = {root}]
    <2>1. run' = [run EXCEPT ![p] = j] /\ UserKept /\ zshrc' = zshrc /\ next' = next
        BY <1>1 DEF Autoload, Call
    <2>2. j.step = "wait" /\ j.mode = mode /\ j.names = {root}
        BY DEF Idle
    <2> HIDE DEF j
    <2>3. run'[p] = j /\ \A q \in Process \ {p} : run'[q] = run[q]
        BY <2>1, Replaced
    <2>4. WriteOK(p)'
        BY <2>2, <2>3 DEF WriteOK
    <2> QED BY <1>b, <2>1, <2>3, <2>4
<1>2. ASSUME NEW p \in Process, NEW mode \in {"enable", "disable"}, NEW names \in SUBSET Service,
             SetEnabled(p, mode, names)
      PROVE  TextsOK'
    <2>1. about = "enabled" /\ UserKept /\ zshrc' = zshrc
        BY <1>2 DEF SetEnabled, Call
    <2> QED BY <1>a, <2>1 DEF UserKept
<1>3. ASSUME NEW p \in Process, Lock(p) PROVE TextsOK'
    <2>1. /\ Goto(p, Begin[run[p].mode]) /\ UserKept /\ zshrc' = zshrc /\ next' = next
          /\ run[p].step = "wait"
        BY <1>3 DEF Lock, IsAt
    <2>2. /\ run'[p].step = Begin[run[p].mode] /\ run'[p].mode = run[p].mode
          /\ run'[p].names = run[p].names
          /\ \A q \in Process \ {p} : run'[q] = run[q]
        BY <2>1, Going
    <2>3. ASSUME about = "zshrc" PROVE WriteOK(p)'
        <3>1. run[p].mode \in {"install", "remove"} /\ \E r \in Root : run[p].names = {r}
            BY <1>0, <2>1, <2>3 DEF WriteOK
        <3>2. run'[p].step = "look"
            BY <2>2, <3>1 DEF Begin
        <3> QED BY <2>2, <3>1, <3>2 DEF WriteOK
    <2> QED BY <1>b, <2>1, <2>2, <2>3
<1>4. ASSUME NEW p \in Process, Return(p) PROVE TextsOK'
    BY <1>4, <1>d DEF Return
<1>5. ASSUME NEW p \in Process, Truncate(p) PROVE TextsOK'
    <2>1. Goto(p, "write") /\ UserKept /\ zshrc' = zshrc /\ run[p].step = "truncate"
        BY <1>5 DEF Truncate, IsAt
    <2>2. /\ run'[p].step = "write" /\ run'[p].mode = run[p].mode
          /\ run'[p].names = run[p].names
          /\ run'[p].original = run[p].original /\ run'[p].updated = run[p].updated
          /\ \A q \in Process \ {p} : run'[q] = run[q]
        BY <2>1, Going
    <2>3. about = "zshrc" => WriteOK(p)'
        <3>1. about = "zshrc" => WriteOK(p)
            BY <1>0
        <3> QED BY <2>1, <2>2, <3>1 DEF WriteOK
    <2>4. holder = p
        BY <1>f, <2>1
    <2> QED BY <1>c, <2>1, <2>2, <2>3, <2>4
<1>6. ASSUME NEW p \in Process, Write(p) PROVE TextsOK'
    <2>1. /\ Goto(p, IF about = "zshrc" THEN "recheck" ELSE "rename") /\ UserKept
          /\ zshrc' = zshrc /\ next' = run[p].updated /\ run[p].step = "write"
        BY <1>6 DEF Write, IsAt
    <2>2. /\ run'[p].step = (IF about = "zshrc" THEN "recheck" ELSE "rename")
          /\ run'[p].mode = run[p].mode
          /\ run'[p].names = run[p].names
          /\ run'[p].original = run[p].original /\ run'[p].updated = run[p].updated
          /\ \A q \in Process \ {p} : run'[q] = run[q]
        BY <2>1, Going
    <2>3. about = "zshrc" => WriteOK(p)'
        <3>1. about = "zshrc" => WriteOK(p)
            BY <1>0
        <3>2. about = "zshrc" => run'[p].step = "recheck"
            BY <2>2
        <3> QED BY <2>1, <2>2, <3>1, <3>2 DEF WriteOK
    <2>4. holder = p
        BY <1>f, <2>1
    <2> QED BY <1>c, <2>1, <2>2, <2>3, <2>4
<1>7. ASSUME NEW p \in Process, Dies(p) PROVE TextsOK'
    BY <1>7, <1>d DEF Dies
<1>8. ASSUME NEW p \in Process, Look(p) PROVE TextsOK'
    <2> DEFINE j == [run[p] EXCEPT !.existed = zshrc # Absent, !.step = "read"]
    <2>1. /\ run' = [run EXCEPT ![p] = j] /\ UserKept /\ zshrc' = zshrc /\ next' = next
          /\ run[p].step = "look"
        BY <1>8 DEF Look, IsAt, Shaped
    <2>2. j.step = "read" /\ j.mode = run[p].mode /\ j.names = run[p].names
        BY ONLY p \in Process, Shaped DEF Shaped
    <2> HIDE DEF j
    <2>3. run'[p] = j /\ \A q \in Process \ {p} : run'[q] = run[q]
        BY <2>1, Replaced
    <2>4. about = "zshrc" => WriteOK(p)'
        <3>1. about = "zshrc" => WriteOK(p)
            BY <1>0
        <3> QED BY <2>1, <2>2, <2>3, <3>1 DEF WriteOK
    <2> QED BY <1>b, <2>1, <2>3, <2>4
<1>9. ASSUME NEW p \in Process, Read(p) PROVE TextsOK'
    <2> DEFINE j == [run[p] EXCEPT !.original = Original, !.updated = Edited(p),
                                   !.step = "truncate"]
    <2>1. /\ run' = [run EXCEPT ![p] = j] /\ UserKept /\ zshrc' = zshrc /\ next' = next
          /\ run[p].step = "read" /\ ~NothingToDo(p)
        BY <1>9 DEF Read, IsAt, Shaped
    <2>2. /\ j.step = "truncate" /\ j.mode = run[p].mode /\ j.names = run[p].names
          /\ j.original = Original /\ j.updated = Edited(p)
        BY ONLY p \in Process, Shaped DEF Shaped
    <2> HIDE DEF j
    <2>3. run'[p] = j /\ \A q \in Process \ {p} : run'[q] = run[q]
        BY <2>1, Replaced
    <2>4. IsText(Original) /\ ~Refused(Original)
        <3>1. IsText(Empty)
            BY DEF IsText, Empty, Text, Texts
        <3> QED BY <1>0, <2>1, <3>1 DEF Original, NothingToDo
    <2>5. ASSUME about = "zshrc" PROVE WriteOK(p)'
        <3>1. run[p].mode \in {"install", "remove"} /\ \E r \in Root : run[p].names = {r}
            BY <1>0, <2>1, <2>5 DEF WriteOK
        <3>2. PICK r \in Root : run[p].names = {r}
            BY <3>1
        <3>3. Edited(p) = Updated(Original, run[p].mode, r)
            <4> DEFINE u == Updated(Original, run[p].mode, r)
                       T == {Updated(Original, run[p].mode, x) : x \in run[p].names}
            <4>1. T = {u}
                BY <3>2
            <4>2. Edited(p) = CHOOSE t \in T : TRUE
                BY DEF Edited
            <4> HIDE DEF u, T
            <4>3. Edited(p) = u
                BY <4>1, <4>2
            <4> QED BY <4>3 DEF u
        <3> QED BY <2>2, <2>3, <2>4, <3>1, <3>3 DEF WriteOK
    <2> QED BY <1>b, <2>1, <2>3, <2>5
<1>10. ASSUME NEW p \in Process, Recheck(p) PROVE TextsOK'
    <2>1. /\ Goto(p, "rename") /\ UserKept /\ zshrc' = zshrc /\ next' = next
          /\ run[p].step = "recheck" /\ SameFile(p)
        BY <1>10 DEF Recheck, IsAt
    <2>2. /\ run'[p].step = "rename" /\ run'[p].mode = run[p].mode
          /\ run'[p].names = run[p].names /\ run'[p].existed = run[p].existed
          /\ run'[p].original = run[p].original /\ run'[p].updated = run[p].updated
          /\ \A q \in Process \ {p} : run'[q] = run[q]
        BY <2>1, Going
    <2>3. about = "zshrc" => WriteOK(p)'
        <3>1. about = "zshrc" => WriteOK(p)
            BY <1>0
        <3>2. IF run[p].existed THEN zshrc = run[p].original ELSE zshrc = Absent
            BY <2>1 DEF SameFile
        <3> QED BY <2>1, <2>2, <3>1, <3>2 DEF WriteOK
    <2> QED BY <1>b, <2>1, <2>2, <2>3
<1>11. ASSUME NEW p \in Process, Rename(p) PROVE TextsOK'
    <2>1. /\ about = "zshrc" /\ run[p].step = "rename" /\ zshrc' = next /\ UserKept
          /\ run' = [run EXCEPT ![p] = Idle]
        BY <1>11 DEF Rename, IsAt
    <2>2. run'[p].step = "idle" /\ \A q \in Process \ {p} : run'[q] = run[q]
        BY <2>1, Ending
    <2>3. holder = p
        BY <1>f, <2>1
    <2>4. \A q \in Process \ {p} : run[q].step \in {"idle", "wait"}
        BY <2>3 DEF Held
    <2>5. \A q \in Process : WriteOK(q)'
        BY <1>0, <2>1, <2>2, <2>4, IdleIsOK, WriteStays
    <2>6. IsText(next)
        <3>1. /\ IsText(run[p].original) /\ ~Refused(run[p].original)
              /\ next = run[p].updated
              /\ \E r \in Root : run[p].updated = Updated(run[p].original, run[p].mode, r)
            BY <1>0, <2>1 DEF WriteOK
        <3> QED BY <3>1, UpdatedIs
    <2> QED BY <1>0, <2>1, <2>5, <2>6 DEF TextsOK, UserKept, IsText
<1>12. ASSUME NEW p \in Process, NEW s \in Service, CheckConfig(p, s) PROVE TextsOK'
    <2>1. UserKept /\ zshrc' = zshrc /\ run[p].step = "check"
        BY <1>12 DEF CheckConfig, IsAt
    <2>2. about # "zshrc"
        BY <1>0, <2>1 DEF WriteOK
    <2> QED BY <1>a, <2>1, <2>2 DEF UserKept
<1>13. ASSUME NEW p \in Process, Load(p) PROVE TextsOK'
    <2>1. UserKept /\ zshrc' = zshrc /\ run[p].step = "load"
        BY <1>13 DEF Load, IsAt
    <2>2. about # "zshrc"
        BY <1>0, <2>1 DEF WriteOK
    <2> QED BY <1>a, <2>1, <2>2 DEF UserKept
<1>14. ASSUME NEW p \in Process, Replace(p) PROVE TextsOK'
    BY <1>14, <1>a DEF Replace, UserKept
<1>15. ASSUME DaemonKept PROVE TextsOK'
    BY <1>15, <1>e, <1>0 DEF DaemonKept
<1>16. ASSUME NEW s \in Service, Define(s) PROVE TextsOK'
    <2>1. edits' \in Nat
        BY <1>0, <1>16 DEF Define
    <2> QED BY <1>0, <1>e, <1>16, <2>1 DEF Define
<1>17. ASSUME NEW w \in Word, Extend(w) PROVE TextsOK'
    <2>1. MayEdit /\ zshrc # Absent
          /\ zshrc' = Text(IF zshrc.open THEN Joined(zshrc.lines, << <<w>> >>)
                           ELSE Append(zshrc.lines, <<w>>), FALSE)
        BY <1>17 DEF Extend
    <2>2. IsText(zshrc')
        BY <1>0, <2>1, ExtendedIsText
    <2> QED BY <1>e, <1>g, <2>1, <2>2
<1>18. ASSUME NEW w \in Word, Save(w) PROVE TextsOK'
    <2>1. MayEdit /\ zshrc # Absent /\ zshrc' \in Saved(zshrc, w)
        BY <1>18 DEF Save
    <2>2. IsText(zshrc')
        BY <1>0, <2>1, SavedIsText
    <2> QED BY <1>e, <1>g, <2>1, <2>2
<1>19. ASSUME NEW w \in Word, Create(w) PROVE TextsOK'
    <2>1. MayEdit /\ zshrc' = Text(<< <<w>> >>, FALSE)
        BY <1>19 DEF Create
    <2>2. IsText(zshrc')
        BY <2>1, FilesOfWords
    <2> QED BY <1>e, <1>g, <2>1, <2>2
<1>20. CASE Delete
    BY <1>e, <1>g, <1>20 DEF Delete
<1>21. CASE UNCHANGED vars
    BY <1>0, <1>e, <1>21 DEF vars
<1> QED
    BY <1>1, <1>2, <1>3, <1>4, <1>5, <1>6, <1>7, <1>8, <1>9, <1>10, <1>11, <1>12,
       <1>13, <1>14, <1>15, <1>16, <1>17, <1>18, <1>19, <1>20, <1>21
       DEF Next, Operation, LockTimesOut, ReadReturns, RecheckFails, ConfigFails, Close,
           StartService, Boot, Shutdown

-----------------------------------------------------------------------------
(* All of it is inductive. *)
IInv == Shaped /\ Held /\ Current /\ TextsOK

(* No command runs yet. *)
LEMMA InitIInv == Init => IInv
<1> SUFFICES ASSUME Init PROVE IInv
  OBVIOUS
<1>1. run = [p \in Process |-> Idle]
  BY DEF Init
<1>2. \A p \in Process : run[p].step = "idle"
  BY <1>1 DEF Idle
<1>3. Shaped
  BY <1>1 DEF Shaped, Idle
<1> QED
  BY <1>2, <1>3, InitTexts DEF IInv, Held, Current

(* The invariant holds throughout. *)
THEOREM Invariance == Spec => []IInv
<1>1. IInv /\ [Next]_vars => IInv'
  BY ShapedKept, HeldKept, CurrentKept, TextsKept DEF IInv
<1> QED
  BY InitIInv, <1>1, PTL DEF Spec

(* Commands that change enabled.json take turns, whatever is killed        *)
(* (config.go:245-272, 358-394).                                           *)
THEOREM CallsTakeTurns == Spec => EachCallInTurn
<1>1. ASSUME IInv, Next, enabled' # enabled
      PROVE  \E p \in Process : IsAt(p, "rename") /\ enabled' = Changed(p, enabled)
  <2>1. PICK p \in Process : Replace(p)
    BY <1>1 DEF Next, Operation, Autoload, SetEnabled, Call, Lock, LockTimesOut, Return,
       Truncate, Write, Dies, Look, ReadReturns, Read, Recheck, RecheckFails, Rename,
       CheckConfig, ConfigFails, Load, Close, StartService, Define, Extend, Save, Create,
       MayEdit, Boot, Shutdown, Delete, DaemonKept
  <2> QED
    BY <1>1, <2>1 DEF Replace, IInv, Current, IsAt
<1>2. IInv /\ [Next]_vars =>
        [enabled' # enabled =>
            \E p \in Process : IsAt(p, "rename") /\ enabled' = Changed(p, enabled)]_vars
  BY <1>1
<1> QED
  BY Invariance, <1>2, PTL DEF Spec, EachCallInTurn

(* For every file a user comes to have, whatever else is edited and killed,*)
(* a second install changes nothing and a removal gives the file back      *)
(* (autoload.go:17-19, 124-150).                                           *)
THEOREM FilesComeBack == Spec => []RoundTrip
<1>1. ASSUME TextsOK PROVE RoundTrip
  <2> SUFFICES ASSUME zshrc # Absent, ~Refused(zshrc), NEW r \in Root, NEW s \in Root
               PROVE  LET once == Installed(zshrc, r)
                      IN  /\ ~Refused(once)
                          /\ Installed(once, r) = once
                          /\ ~HasBlock(zshrc) => Removed(Installed(once, s)) = zshrc
    BY DEF RoundTrip
  <2>1. IsText(zshrc)
    BY <1>1 DEF TextsOK
  <2> QED
    BY <2>1, ThereAndBack
<1>2. IInv => RoundTrip
  BY <1>1 DEF IInv
<1> QED
  BY Invariance, <1>2, PTL

(* A rename leaves every word outside the block and a file that oo can     *)
(* edit again, whatever the user and other commands have done since the    *)
(* command has read the file (autoload.go:105-118, 168-198).               *)
THEOREM WordsAreKept == Spec => OthersKept
<1> DEFINE Kept == edits' = edits /\ zshrc' # zshrc =>
                      /\ zshrc' \notin {Absent, Partial}
                      /\ ~Refused(zshrc')
                      /\ zshrc # Absent =>
                            FlattenSeq(Others(zshrc')) = FlattenSeq(Others(zshrc))
<1>1. ASSUME IInv, Next, edits' = edits, zshrc' # zshrc
      PROVE  Kept
  <2>1. edits + 1 # edits
    BY <1>1 DEF IInv, TextsOK
  <2>2. PICK p \in Process : Rename(p)
    BY <1>1, <2>1 DEF Next, Operation, Autoload, SetEnabled, Call, Lock, LockTimesOut, Return,
       Truncate, Write, Dies, Look, ReadReturns, Read, Recheck, RecheckFails, Replace,
       CheckConfig, ConfigFails, Load, Close, StartService, Define, Extend, Save, Create,
       MayEdit, Boot, Shutdown, Delete, DaemonKept
  <2>3. about = "zshrc" /\ run[p].step = "rename" /\ zshrc' = next
    BY <2>2 DEF Rename, IsAt
  <2>4. WriteOK(p)
    BY <1>1, <2>3 DEF IInv, TextsOK
  <2>5. /\ IsText(run[p].original) /\ ~Refused(run[p].original) /\ next = run[p].updated
        /\ IF run[p].existed THEN zshrc = run[p].original ELSE zshrc = Absent
    BY <2>3, <2>4 DEF WriteOK
  <2>6. PICK r \in Root : run[p].updated = Updated(run[p].original, run[p].mode, r)
    BY <2>3, <2>4 DEF WriteOK
  <2>7. /\ IsText(zshrc') /\ ~Refused(zshrc')
        /\ FlattenSeq(Others(zshrc')) = FlattenSeq(Others(run[p].original))
    <3> DEFINE t == run[p].original
               u == Updated(t, run[p].mode, r)
    <3>1. zshrc' = u
      BY <2>3, <2>5, <2>6
    <3>2. IsText(u) /\ ~Refused(u) /\ FlattenSeq(Others(u)) = FlattenSeq(Others(t))
      BY <2>5, UpdatedIs
    <3> HIDE DEF t, u
    <3> QED
      BY <3>1, <3>2 DEF t
  <2>8. zshrc' \notin {Absent, Partial}
    BY <2>7, FilesAssumption DEF IsText
  <2>9. zshrc # Absent => zshrc = run[p].original
    BY <2>5
  <2> QED
    BY <2>7, <2>8, <2>9
<1>2. IInv /\ [Next]_vars => [Kept]_vars
  BY <1>1
<1> QED
  BY Invariance, <1>2, PTL DEF Spec, OthersKept

=============================================================================

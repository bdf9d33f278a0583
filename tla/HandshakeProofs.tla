--------------------------- MODULE HandshakeProofs ---------------------------
(***************************************************************************)
(* Proofs about Wire and Handshake, for every size of a byte, every frame  *)
(* cap, all names and data and any number of messages.                     *)
(***************************************************************************)
EXTENDS Handshake, SequenceTheorems, TLAPS

---------------------------------------------------------------------------
(* The wire format.                                                        *)

\* Division with remainder.
LEMMA Division ==
    ASSUME NEW v \in Nat, NEW D \in Nat, D > 0
    PROVE  /\ v \div D \in Nat /\ v % D \in Nat /\ v % D < D
           /\ v = (v \div D) * D + (v % D)
  OBVIOUS

\* Dividing twice is dividing by the product.
LEMMA DivDiv ==
    ASSUME NEW v \in Nat, NEW B \in Nat, NEW C \in Nat, B > 0, C > 0
    PROVE  v \div (B * C) = (v \div B) \div C
  OBVIOUS

\* The lengths that three and four bytes can tell apart.
Cube == Base * Base * Base
Fourth == Base * Base * Base * Base

\* What the assumptions say of the constants, without products in sight.
LEMMA Powers ==
    /\ Base \in Nat /\ Base >= 3 /\ Cube \in Nat /\ Fourth \in Nat
    /\ Cube <= Fourth /\ MaxFrame \in Nat /\ MaxFrame <= Cube /\ MaxMsgs \in Nat /\ MaxMsgs < Fourth
  <1>1. Base \in Nat /\ Base >= 3 /\ Cube \in Nat  BY WireAssumption DEF Cube
  <1>2. Fourth = Cube * Base  BY <1>1 DEF Fourth, Cube
  <1>3. Cube <= Fourth /\ Fourth \in Nat  BY <1>1, <1>2
  <1>4. QED  BY <1>1, <1>3, WireAssumption, HandshakeAssumption DEF Cube, Fourth

\* Four digits to the base Base make up any number below its fourth power.
LEMMA Positional ==
    ASSUME NEW v \in Nat, v < Base * Base * Base * Base
    PROVE  v = ((((v \div (Base * Base * Base)) % Base) * Base + ((v \div (Base * Base)) % Base)) * Base
                 + ((v \div Base) % Base)) * Base + (v % Base)
  <1>0. Base \in Nat /\ Base > 0  BY WireAssumption
  <1> DEFINE q1 == v \div Base
             q2 == q1 \div Base
             q3 == q2 \div Base
  <1>1. q1 \in Nat /\ v = q1 * Base + (v % Base)  BY <1>0, Division
  <1>2. q2 \in Nat /\ q1 = q2 * Base + (q1 % Base)  BY <1>0, <1>1, Division
  <1>3. q3 \in Nat /\ q2 = q3 * Base + (q2 % Base)  BY <1>0, <1>2, Division
  <1>4. v \div (Base * Base) = q2  BY <1>0, DivDiv
  <1>5. Base * Base \in Nat /\ Base * Base > 0  BY <1>0
  <1>6. v \div (Base * Base * Base) = q3  BY <1>0, <1>4, <1>5, DivDiv
  <1>7. q3 < Base
    <2>1. SUFFICES ASSUME q3 >= Base PROVE FALSE  BY <1>0, <1>3
    <2> HIDE DEF q1, q2, q3
    <2>2. q2 >= Base * Base  BY <2>1, <1>0, <1>2, <1>3, Division
    <2>3. q1 >= Base * Base * Base  BY <2>2, <1>0, <1>1, <1>2, <1>5, Division
    <2>4. v >= Base * Base * Base * Base  BY <2>3, <1>0, <1>1, <1>5, Division
    <2>5. QED  BY <2>4, <1>0, <1>5
  <1>8. q3 % Base = q3  BY <1>0, <1>3, <1>7
  <1>9. v \div Base = q1  OBVIOUS
  <1> HIDE DEF q1, q2, q3
  <1>10. QED  BY <1>0, <1>1, <1>2, <1>3, <1>4, <1>6, <1>8, <1>9

\* A byte is a cell of its own kind: no field of several parts is one.
LEMMA Cells ==
    /\ \A v \in Nat : Byte(v) \in Bytes /\ Byte(v)[1] = v % Base
    /\ \A v \in Nat : v < Base => Byte(v)[1] = v
    /\ \A c \in Bytes : c[1] \in 0 .. Base - 1
    /\ \A c \in Letters : c \in Bytes /\ c[1] \in 1 .. Base - 1
    /\ Letters \subseteq Bytes
  <1>0. Base \in Nat /\ Base > 0  BY WireAssumption
  <1>1. \A v \in Nat : v % Base \in 0 .. Base - 1  BY <1>0, Division
  <1>2. \A v \in Nat : v < Base => v % Base = v  BY <1>0
  <1>3. \A v \in Nat : Byte(v) \in Bytes /\ Byte(v)[1] = v % Base  BY <1>1 DEF Byte, Bytes
  <1>4. \A c \in Bytes : c[1] \in 0 .. Base - 1  BY DEF Bytes
  <1>5. \A c \in Letters : c \in Bytes /\ c[1] \in 1 .. Base - 1  BY <1>0 DEF Bytes, Letters
  <1>6. QED  BY <1>2, <1>3, <1>4, <1>5

\* A byte is a number, a letter a positive one.
LEMMA Digits ==
    /\ \A c \in Bytes : c[1] \in Nat
    /\ \A c \in Letters : c[1] \in Nat /\ c[1] >= 1
  BY Powers DEF Bytes, Letters

\* A message has the cells of s behind its first off cells.
At(in, off, s) == \A k \in 1 .. Len(s) : in[off + k] = s[k]

\* A length as four bytes, and back.
LEMMA Length ==
    ASSUME NEW v \in Nat
    PROVE  /\ put_u32(v) \in Seq(Bytes) /\ Len(put_u32(v)) = 4
           /\ \A k \in 1 .. 4 : put_u32(v)[k] \in Bytes
  <1>1. Base \in Nat /\ Base > 0 /\ Base * Base \in Nat /\ Base * Base > 0 /\ Base * Base * Base > 0
    BY WireAssumption
  <1>2. v \div (Base * Base * Base) \in Nat /\ v \div (Base * Base) \in Nat /\ v \div Base \in Nat
    BY <1>1, Division
  <1>3. QED  BY <1>2, Cells DEF put_u32

\* get_u32 reads what put_u32 wrote.
LEMMA LengthRead ==
    ASSUME NEW v \in Nat, NEW S, NEW in \in Seq(S), NEW off \in Nat, v < Fourth,
           At(in, off, put_u32(v))
    PROVE  get_u32(in, off) = v
  <1>1. Base \in Nat /\ Base > 0 /\ Base * Base \in Nat /\ Base * Base > 0 /\ Base * Base * Base > 0
    BY WireAssumption
  <1>2. v \div (Base * Base * Base) \in Nat /\ v \div (Base * Base) \in Nat /\ v \div Base \in Nat
    BY <1>1, Division
  <1>3. \A k \in 1 .. 4 : in[off + k] = put_u32(v)[k]  BY Length DEF At
  <1>4. /\ in[off + 1] = Byte(v \div (Base * Base * Base)) /\ in[off + 2] = Byte(v \div (Base * Base))
        /\ in[off + 3] = Byte(v \div Base) /\ in[off + 4] = Byte(v)
    BY <1>3 DEF put_u32
  <1>5. /\ in[off + 1][1] = (v \div (Base * Base * Base)) % Base
        /\ in[off + 2][1] = (v \div (Base * Base)) % Base
        /\ in[off + 3][1] = (v \div Base) % Base /\ in[off + 4][1] = v % Base
    BY <1>2, <1>4, Cells
  <1>6. QED  BY <1>5, Positional DEF get_u32, Fourth

\* A part of a message that is a given sequence is that sequence.
LEMMA PartRead ==
    ASSUME NEW S, NEW in \in Seq(S), NEW off \in Nat, NEW T, NEW e \in Seq(T), NEW n \in Nat, n = Len(e),
           off + n <= Len(in), At(in, off, e)
    PROVE  SubSeq(in, off + 1, off + n) = e
  <1> DEFINE q == SubSeq(in, off + 1, off + n)
  <1>1. off + 1 \in 1 .. Len(in) + 1 /\ off + n \in off + 1 - 1 .. Len(in)  OBVIOUS
  <1>2. /\ q \in Seq(S) /\ Len(q) = IF off + 1 <= off + n THEN off + n - (off + 1) + 1 ELSE 0
        /\ \A i \in 1 .. off + n - (off + 1) + 1 : q[i] = in[off + 1 + i - 1]
    BY <1>1, SubSeqProperties
  <1> HIDE DEF q
  <1>3. Len(q) = n /\ Len(q) = Len(e)  BY <1>2
  <1>4. ASSUME NEW i \in 1 .. Len(q)  PROVE  q[i] = e[i]
    <2>1. i \in 1 .. off + n - (off + 1) + 1 /\ off + 1 + i - 1 = off + i /\ i \in 1 .. Len(e)  BY <1>3
    <2>2. q[i] = in[off + i]  BY <1>2, <2>1
    <2>3. in[off + i] = e[i]  BY <2>1 DEF At
    <2>4. QED  BY <2>2, <2>3
  <1>5. q \in Seq(S)  BY <1>2
  <1>6. q \in Seq(S \cup T) /\ e \in Seq(S \cup T)  BY <1>5
  <1>7. q = e  BY <1>3, <1>4, <1>6, SeqEqual
  <1>8. QED  BY <1>7 DEF q

\* Where a message has a name after its length, get_str8 finds that name.
LEMMA NameRead ==
    ASSUME NEW S, NEW in \in Seq(S), NEW off \in Nat, NEW T, NEW e \in Seq(T), Len(e) < Base,
           off + 1 + Len(e) <= Len(in), in[off + 1] = Byte(Len(e)), At(in, off + 1, e)
    PROVE  get_str8(in, off) = [ok |-> TRUE, off |-> off + 1 + Len(e), s |-> e]
  <1>0. PICK n \in Nat : n = Len(e)  OBVIOUS
  <1>1. in[off + 1][1] = n  BY <1>0, Cells
  <1>2. SubSeq(in, off + 2, off + 1 + n) = e
    <2>1. PICK o \in Nat : o = off + 1  OBVIOUS
    <2>2. o + n <= Len(in) /\ At(in, o, e)  BY <1>0, <2>1
    <2>3. SubSeq(in, o + 1, o + n) = e  BY <1>0, <2>2, PartRead
    <2>4. QED  BY <2>1, <2>3
  <1>3. ~(off + 1 > Len(in)) /\ ~(off + 1 + n > Len(in))  BY <1>0
  <1>4. get_str8(in, off) = [ok |-> TRUE, off |-> off + 1 + n, s |-> e]
    BY <1>1, <1>2, <1>3, Zenon DEF get_str8
  <1>5. QED  BY <1>0, <1>4

\* Where a message ends with data after its length, get_data finds that data.
LEMMA DataRead ==
    ASSUME NEW S, NEW in \in Seq(S), NEW off \in Nat, NEW T, NEW d \in Seq(T),
           Len(d) < Fourth, off + 4 + Len(d) <= Len(in),
           At(in, off, put_u32(Len(d))), At(in, off + 4, d)
    PROVE  get_data(in, off) = [ok |-> TRUE, data |-> d]
  <1>0. PICK n \in Nat : n = Len(d)  OBVIOUS
  <1>1. get_u32(in, off) = n  BY <1>0, LengthRead
  <1>2. SubSeq(in, off + 5, off + 4 + n) = d
    <2>1. PICK o \in Nat : o = off + 4  OBVIOUS
    <2>2. o + n <= Len(in) /\ At(in, o, d)  BY <1>0, <2>1
    <2>3. SubSeq(in, o + 1, o + n) = d  BY <1>0, <2>2, PartRead
    <2>4. QED  BY <2>1, <2>3
  <1>3. ~(off + 4 > Len(in)) /\ ~(off + 4 + n > Len(in))  BY <1>0
  <1>4. QED  BY <1>1, <1>2, <1>3, Zenon DEF get_data

\* Two sequences in a row, and a part of a part.
LEMMA Joined ==
    ASSUME NEW S, NEW s \in Seq(S), NEW t \in Seq(S)
    PROVE  /\ s \o t \in Seq(S) /\ Len(s \o t) = Len(s) + Len(t)
           /\ At(s \o t, 0, s) /\ At(s \o t, Len(s), t)
  BY DEF At

\* A part of a part of a message is a part of the message.
LEMMA PartOfPart ==
    ASSUME NEW in, NEW off \in Nat, NEW S, NEW g \in Seq(S), NEW o \in Nat, NEW T, NEW s \in Seq(T),
           At(in, off, g), At(g, o, s), o + Len(s) <= Len(g)
    PROVE  At(in, off + o, s)
  <1>1. ASSUME NEW k \in 1 .. Len(s)  PROVE  in[off + o + k] = s[k]
    <2>1. o + k \in 1 .. Len(g) /\ off + (o + k) = off + o + k  OBVIOUS
    <2>2. g[o + k] = s[k]  BY DEF At
    <2>3. in[off + (o + k)] = g[o + k]  BY <2>1 DEF At
    <2>4. QED  BY <2>1, <2>2, <2>3
  <1>2. QED  BY <1>1 DEF At

\* A message with a name and data behind the cells h, cell by cell.
Named(h, e, d) == h \o put_str8(e) \o put_data(d)

\* Where such a message keeps what.
LEMMA NamedCells ==
    ASSUME NEW S, Bytes \subseteq S, NEW h \in Seq(S), NEW e \in Seq(Bytes), NEW d \in Seq(Bytes)
    PROVE  /\ Named(h, e, d) \in Seq(S)
           /\ Len(Named(h, e, d)) = Len(h) + 5 + Len(e) + Len(d)
           /\ At(Named(h, e, d), 0, h)
           /\ Named(h, e, d)[Len(h) + 1] = Byte(Len(e))
           /\ At(Named(h, e, d), Len(h) + 1, e)
           /\ At(Named(h, e, d), Len(h) + 1 + Len(e), put_u32(Len(d)))
           /\ At(Named(h, e, d), Len(h) + 5 + Len(e), d)
  <1>1. PICK n \in Nat : n = Len(h)  OBVIOUS
  <1>2. PICK m \in Nat : m = Len(e)  OBVIOUS
  <1>3. PICK x \in Nat : x = Len(d)  OBVIOUS
  <1> DEFINE u == put_u32(x)
             b == << Byte(m) >>
             s == b \o e
             t == u \o d
             g == h \o s
             in == g \o t
  <1>4. Named(h, e, d) = in  BY <1>2, <1>3 DEF Named, put_str8, put_data
  <1>5. u \in Seq(Bytes) /\ b \in Seq(Bytes)  BY <1>2, <1>3, Length, Cells
  <1>6. Len(u) = 4 /\ Len(b) = 1 /\ b[1] = Byte(m)  BY <1>3, Length
  <1> HIDE DEF u, b
  <1>7. s \in Seq(Bytes) /\ Len(s) = Len(b) + Len(e) /\ At(s, 0, b) /\ At(s, Len(b), e)
    BY <1>5, Joined
  <1>8. t \in Seq(Bytes) /\ Len(t) = Len(u) + Len(d) /\ At(t, 0, u) /\ At(t, Len(u), d)
    BY <1>5, Joined
  <1> HIDE DEF s, t
  <1>9. Len(s) = 1 + m /\ At(s, 1, e)  BY <1>2, <1>6, <1>7
  <1>10. Len(t) = 4 + x /\ At(t, 4, d)  BY <1>3, <1>6, <1>8
  <1>11. s \in Seq(S) /\ t \in Seq(S)  BY <1>7, <1>8
  <1>12. g \in Seq(S) /\ Len(g) = n + Len(s) /\ At(g, 0, h) /\ At(g, n, s)
    BY <1>1, <1>11, Joined
  <1> HIDE DEF g
  <1>13. Len(g) = n + 1 + m  BY <1>1, <1>2, <1>9, <1>12
  <1>14. in \in Seq(S) /\ Len(in) = Len(g) + Len(t) /\ At(in, 0, g) /\ At(in, Len(g), t)
    BY <1>11, <1>12, Joined
  <1> HIDE DEF in
  <1>15. Len(in) = n + 5 + m + x  BY <1>1, <1>2, <1>3, <1>10, <1>13, <1>14
  <1>16. At(in, n, s)
    <2>1. n + Len(s) <= Len(g)  BY <1>1, <1>2, <1>9, <1>13
    <2>2. At(in, 0 + n, s)  BY <2>1, <1>11, <1>12, <1>14, PartOfPart
    <2>3. QED  BY <2>2
  <1>17. At(in, 0, h)
    <2>1. 0 + Len(h) <= Len(g)  BY <1>1, <1>2, <1>13
    <2>2. At(in, 0 + 0, h)  BY <2>1, <1>12, <1>14, PartOfPart
    <2>3. QED  BY <2>2
  <1>18. in[n + 1] = Byte(m)
    <2>1. s[1] = b[1]  BY <1>6, <1>7 DEF At
    <2>2. in[n + 1] = s[1]  BY <1>2, <1>9, <1>16 DEF At
    <2>3. QED  BY <2>1, <2>2, <1>6
  <1>19. At(in, n + 1, e)
    <2>1. 1 + Len(e) <= Len(s)  BY <1>2, <1>9
    <2>2. QED  BY <2>1, <1>7, <1>9, <1>16, PartOfPart
  <1>20. PICK o \in Nat : o = n + 1 + m  OBVIOUS
  <1>21. At(in, o, t)  BY <1>13, <1>14, <1>20
  <1>22. At(in, o, u)
    <2>1. 0 + Len(u) <= Len(t)  BY <1>3, <1>6, <1>10
    <2>2. At(in, o + 0, u)  BY <2>1, <1>5, <1>8, <1>21, PartOfPart
    <2>3. QED  BY <2>2
  <1>23. At(in, o + 4, d)
    <2>1. 4 + Len(d) <= Len(t)  BY <1>3, <1>10
    <2>2. QED  BY <2>1, <1>8, <1>10, <1>21, PartOfPart
  <1>24. At(in, n + 5 + m, d)
    <2>1. o + 4 = n + 5 + m  BY <1>20
    <2>2. QED  BY <2>1, <1>23
  <1>25. QED  BY <1>1, <1>2, <1>3, <1>4, <1>14, <1>15, <1>17, <1>18, <1>19, <1>20, <1>22, <1>24 DEF u

\* A name that fits its length byte is read back, and the data behind it.
LEMMA ShortNamed ==
    ASSUME NEW S, Bytes \subseteq S, NEW h \in Seq(S), NEW e \in Seq(Bytes), NEW d \in Seq(Bytes),
           Len(e) < Base, Len(d) < Cube
    PROVE  /\ get_str8(Named(h, e, d), Len(h)) = [ok |-> TRUE, off |-> Len(h) + 1 + Len(e), s |-> e]
           /\ get_data(Named(h, e, d), Len(h) + 1 + Len(e)) = [ok |-> TRUE, data |-> d]
  <1> DEFINE in == Named(h, e, d)
  <1>1. PICK n \in Nat : n = Len(h)  OBVIOUS
  <1>2. PICK m \in Nat : m = Len(e)  OBVIOUS
  <1>3. PICK o \in Nat : o = n + 1 + m  OBVIOUS
  <1>4. /\ in \in Seq(S) /\ Len(in) = n + 5 + m + Len(d) /\ in[n + 1] = Byte(m)
        /\ At(in, n + 1, e) /\ At(in, n + 1 + m, put_u32(Len(d))) /\ At(in, n + 5 + m, d)
    BY <1>1, <1>2, NamedCells, ZenonT(30)
  <1> HIDE DEF in
  <1>5. get_str8(in, n) = [ok |-> TRUE, off |-> n + 1 + m, s |-> e]
    <2>1. n + 1 + m <= Len(in)  BY <1>4
    <2>2. QED  BY <1>2, <1>4, <2>1, NameRead
  <1>6. get_data(in, o) = [ok |-> TRUE, data |-> d]
    <2>1. Len(in) = o + 4 + Len(d) /\ n + 5 + m = o + 4  BY <1>3, <1>4
    <2>2. At(in, o, put_u32(Len(d))) /\ At(in, o + 4, d)  BY <1>3, <1>4, <2>1
    <2>3. Len(d) < Fourth  BY Powers
    <2>4. in \in Seq(S)  BY <1>4
    <2>5. QED  BY <2>1, <2>2, <2>3, <2>4, DataRead
  <1>7. QED  BY <1>1, <1>2, <1>3, <1>5, <1>6 DEF in

\* A number whose first digit is not 0.
LEMMA Large ==
    ASSUME NEW a \in Nat, NEW b \in Nat, NEW c \in Nat, NEW x \in Nat, a >= 1
    PROVE  /\ ((a * Base + b) * Base + c) * Base + x \in Nat
           /\ ((a * Base + b) * Base + c) * Base + x >= Base * Base * Base
  <1>0. Base \in Nat /\ Base >= 1  BY WireAssumption
  <1>1. a * Base + b \in Nat /\ a * Base + b >= Base  BY <1>0
  <1>2. (a * Base + b) * Base + c \in Nat /\ (a * Base + b) * Base + c >= Base * Base  BY <1>0, <1>1
  <1>3. QED  BY <1>0, <1>2

\* A name that does not fit leaves letters where get_data looks for a length:
\* that length is more than any frame holds.
LEMMA LongNamed ==
    ASSUME NEW S, Bytes \subseteq S, NEW h \in Seq(S), NEW e \in Seq(Letters), NEW d \in Seq(Bytes),
           Len(e) >= Base, Len(Named(h, e, d)) < Cube
    PROVE  /\ get_str8(Named(h, e, d), Len(h)).ok
           /\ get_data(Named(h, e, d), get_str8(Named(h, e, d), Len(h)).off) = Bad
  <1> DEFINE in == Named(h, e, d)
  <1>0. Base \in Nat /\ Base >= 3  BY Powers
  <1>1. PICK n \in Nat : n = Len(h)  OBVIOUS
  <1>2. PICK m \in Nat : m = Len(e)  OBVIOUS
  <1>3. PICK x \in Nat : x = Len(d)  OBVIOUS
  <1>4. e \in Seq(Bytes)  BY Cells
  <1>5. /\ in \in Seq(S) /\ Len(in) = n + 5 + m + x /\ in[n + 1] = Byte(m)
        /\ At(in, n + 1, e) /\ At(in, n + 1 + m, put_u32(x)) /\ Len(in) < Cube
    BY <1>1, <1>2, <1>3, <1>4, NamedCells, ZenonT(30)
  <1> HIDE DEF in
  <1>6. m % Base \in Nat /\ m % Base < Base  BY <1>0, Division
  <1>7. PICK l \in Nat : l = m % Base  BY <1>6
  <1>8. l < m  BY <1>0, <1>2, <1>6, <1>7
  <1>9. in[n + 1][1] = l  BY <1>5, <1>7, Cells
  <1>10. PICK o \in Nat : o = n + 1 + l  OBVIOUS
  <1>11. get_str8(in, n) = [ok |-> TRUE, off |-> o, s |-> SubSeq(in, n + 2, n + 1 + l)]
    <2>1. ~(n + 1 > Len(in)) /\ ~(n + 1 + l > Len(in))  BY <1>5, <1>8
    <2>2. QED  BY <1>9, <1>10, <2>1, Zenon DEF get_str8
  <1>12. \A k \in 1 .. m : in[n + 1 + k] = e[k] /\ e[k] \in Letters
    BY <1>2, <1>5 DEF At
  <1>13. \A k \in 1 .. 4 : in[n + 1 + m + k] \in Bytes
    <2>1. put_u32(x) \in Seq(Bytes) /\ Len(put_u32(x)) = 4  BY Length
    <2>2. \A k \in 1 .. 4 : put_u32(x)[k] \in Bytes  BY Length
    <2>3. At(in, n + 1 + m, put_u32(x))  BY <1>5
    <2>4. \A k \in 1 .. 4 : in[n + 1 + m + k] = put_u32(x)[k]  BY <2>1, <2>3 DEF At
    <2>5. QED  BY <2>2, <2>4
  <1>14. ASSUME NEW k \in 1 .. m + 4  PROVE  in[n + 1 + k] \in Bytes
    <2>1. CASE k <= m
      <3>1. k \in 1 .. m  BY <2>1
      <3>2. QED  BY <1>12, <3>1, Cells
    <2>2. CASE k > m
      <3>1. k - m \in 1 .. 4 /\ n + 1 + m + (k - m) = n + 1 + k  BY <2>2
      <3>2. QED  BY <1>13, <3>1
    <2>3. QED  BY <2>1, <2>2
  <1>15. in[o + 1] \in Letters
    <2>1. o + 1 = n + 1 + (l + 1) /\ l + 1 \in 1 .. m  BY <1>8, <1>10
    <2>2. QED  BY <1>12, <2>1
  <1>16. ASSUME NEW j \in 2 .. 4  PROVE  in[o + j] \in Bytes
    <2>1. n + 1 + (l + j) = o + j /\ l + j \in 1 .. m + 4  BY <1>8, <1>10
    <2>2. in[n + 1 + (l + j)] \in Bytes  BY <1>14, <2>1
    <2>3. QED  BY <2>1, <2>2
  <1>17. in[o + 1][1] \in Nat /\ in[o + 1][1] >= 1
    BY <1>15, Digits
  <1>18. in[o + 2][1] \in Nat /\ in[o + 3][1] \in Nat /\ in[o + 4][1] \in Nat
    <2>1. in[o + 2] \in Bytes /\ in[o + 3] \in Bytes /\ in[o + 4] \in Bytes  BY <1>16
    <2>2. QED  BY <2>1, Digits
  <1>19. get_u32(in, o) \in Nat /\ get_u32(in, o) >= Cube
    <2>1. PICK a \in Nat : a = in[o + 1][1]  BY <1>17
    <2>2. PICK b \in Nat : b = in[o + 2][1]  BY <1>18
    <2>3. PICK c \in Nat : c = in[o + 3][1]  BY <1>18
    <2>4. PICK y \in Nat : y = in[o + 4][1]  BY <1>18
    <2>5. get_u32(in, o) = ((a * Base + b) * Base + c) * Base + y
      BY <2>1, <2>2, <2>3, <2>4 DEF get_u32
    <2>6. a >= 1  BY <1>17, <2>1
    <2>7. QED  BY <2>5, <2>6, Large DEF Cube
  <1>20. o + 4 + get_u32(in, o) > Len(in)
    <2>1. Len(in) \in Nat /\ Len(in) < Cube  BY <1>5
    <2>2. QED  BY <1>19, <2>1, Powers
  <1>21. get_data(in, o) = Bad  BY <1>20 DEF get_data
  <1>22. QED  BY <1>1, <1>11, <1>21 DEF in

\* The bytes of the flags, the status codes and the reasons.
LEMMA SmallBytes ==
    /\ \A v \in 0 .. 2 : Byte(v) \in Bytes /\ Byte(v)[1] = v
    /\ 1 \div Base = 0
  <1>1. \A v \in 0 .. 2 : v \in Nat /\ v < Base  BY Powers
  <1>2. 1 \div Base = 0  BY Powers
  <1>3. QED  BY <1>1, <1>2, Cells

Flag(w) == Byte(IF w THEN 1 ELSE 0)

\* A flag survives its byte.
LEMMA Flags ==
    ASSUME NEW w \in BOOLEAN
    PROVE  Flag(w) \in Bytes /\ (Flag(w)[1] # 0) = w
  <1>0. Byte(0) \in Bytes /\ Byte(1) \in Bytes /\ Byte(0)[1] = 0 /\ Byte(1)[1] = 1  BY SmallBytes
  <1>1. CASE w = TRUE
    <2>1. Flag(w) = Byte(1)  BY <1>1 DEF Flag
    <2>2. Flag(w)[1] # 0  BY <1>0, <2>1
    <2>3. QED  BY <1>0, <1>1, <2>1, <2>2
  <1>2. CASE w = FALSE
    <2>1. Flag(w) = Byte(0)  BY <1>2 DEF Flag
    <2>2. ~(Flag(w)[1] # 0)  BY <1>0, <2>1
    <2>3. QED  BY <1>0, <1>2, <2>1, <2>2
  <1>3. QED  BY <1>1, <1>2

\* The messages that the client makes of their parts.
IsRequest(r, id, w, e, d) ==
  r = [ok |-> TRUE, id |-> id, oneway |-> w, endpoint |-> e, data |-> d]
IsChunk(c, id, q, w, e, d) ==
  c = [ok |-> TRUE, id |-> id, seq |-> q, is_last |-> w, endpoint |-> e, data |-> d]

\* A request is read back as it was written if its name fits the length byte,
\* and is refused if it does not.
LEMMA RequestRead ==
    ASSUME NEW id, NEW w \in BOOLEAN, NEW e \in Seq(Letters), NEW d \in Seq(Bytes), NEW r,
           IsRequest(r, id, w, e, d)
    PROVE  /\ encode_request(r) \in Seq(Bytes \cup {id})
           /\ Len(encode_request(r)) = 7 + Len(e) + Len(d)
           /\ Len(e) < Base /\ Len(d) < Cube => decode_request(encode_request(r)) = r
           /\ Len(e) >= Base /\ Len(encode_request(r)) < Cube => decode_request(encode_request(r)) = Bad
  <1> DEFINE h == << id, Flag(w) >>
             in == Named(h, e, d)
  <1>1. encode_request(r) = in  BY DEF encode_request, Named, Flag, IsRequest
  <1>2. PICK S : S = Bytes \cup {id}  OBVIOUS
  <1>3. h \in Seq(S) /\ Bytes \subseteq S /\ e \in Seq(Bytes)  BY <1>2, Flags, Cells
  <1>4. Len(h) = 2 /\ h[1] = id /\ h[2] = Flag(w)  OBVIOUS
  <1> HIDE DEF h
  <1>5. /\ in \in Seq(S) /\ Len(in) = Len(h) + 5 + Len(e) + Len(d) /\ At(in, 0, h)
    BY <1>3, NamedCells
  <1>6. Len(e) < Base /\ Len(d) < Cube =>
          /\ get_str8(in, Len(h)) = [ok |-> TRUE, off |-> Len(h) + 1 + Len(e), s |-> e]
          /\ get_data(in, Len(h) + 1 + Len(e)) = [ok |-> TRUE, data |-> d]
    BY <1>3, ShortNamed
  <1>7. Len(e) >= Base /\ Len(in) < Cube =>
          get_str8(in, Len(h)).ok /\ get_data(in, get_str8(in, Len(h)).off) = Bad
    BY <1>3, LongNamed
  <1> HIDE DEF in
  <1>8. in[1] = id /\ in[2] = Flag(w)
    <2>1. in[0 + 1] = h[1] /\ in[0 + 2] = h[2]  BY <1>4, <1>5 DEF At
    <2>2. QED  BY <1>4, <2>1
  <1>9. Len(in) = 7 + Len(e) + Len(d) /\ Len(e) \in Nat /\ Len(d) \in Nat  BY <1>4, <1>5
  <1>10. ~(Len(in) < 3)  BY <1>9
  <1>11. ASSUME Len(e) < Base, Len(d) < Cube
         PROVE  decode_request(in) = r
    <2>1. /\ get_str8(in, 2) = [ok |-> TRUE, off |-> 2 + 1 + Len(e), s |-> e]
          /\ get_data(in, 2 + 1 + Len(e)) = [ok |-> TRUE, data |-> d]
      BY <1>4, <1>6, <1>11
    <2>2. get_str8(in, 2).ok /\ get_str8(in, 2).off = 2 + 1 + Len(e) /\ get_str8(in, 2).s = e
      BY <2>1
    <2>3. /\ get_data(in, get_str8(in, 2).off).ok
           /\ get_data(in, get_str8(in, 2).off).data = d
      BY <2>1, <2>2
    <2>4. (in[2][1] # 0) = w  BY <1>8, Flags
    <2>5. decode_request(in) = [ok |-> TRUE, id |-> in[1], oneway |-> in[2][1] # 0, endpoint |-> e, data |-> d]
      BY <1>10, <2>2, <2>3, Zenon DEF decode_request
    <2>6. QED  BY <1>8, <2>4, <2>5 DEF IsRequest
  <1>12. ASSUME Len(e) >= Base, Len(in) < Cube
         PROVE  decode_request(in) = Bad
    <2>1. get_str8(in, 2).ok /\ get_data(in, get_str8(in, 2).off) = Bad  BY <1>4, <1>7, <1>12
    <2>2. ~Bad.ok  BY DEF Bad
    <2>3. QED  BY <1>10, <2>1, <2>2, Zenon DEF decode_request
  <1>13. QED  BY <1>1, <1>2, <1>5, <1>9, <1>11, <1>12

\* The same of a chunk of a stream.
LEMMA ChunkRead ==
    ASSUME NEW id, NEW q \in Nat, q < Fourth, NEW w \in BOOLEAN, NEW e \in Seq(Letters),
           NEW d \in Seq(Bytes), NEW c,
           IsChunk(c, id, q, w, e, d)
    PROVE  /\ encode_stream_chunk(c) \in Seq(Bytes \cup {id})
           /\ Len(encode_stream_chunk(c)) = 11 + Len(e) + Len(d)
           /\ Len(e) < Base /\ Len(d) < Cube => decode_stream_chunk(encode_stream_chunk(c)) = c
           /\ Len(e) >= Base /\ Len(encode_stream_chunk(c)) < Cube =>
                decode_stream_chunk(encode_stream_chunk(c)) = Bad
  <1> DEFINE u == put_u32(q)
             i == << id >>
             f == << Flag(w) >>
             g == i \o u
             h == g \o f
             in == Named(h, e, d)
  <1>1. encode_stream_chunk(c) = in  BY DEF encode_stream_chunk, Named, Flag, IsChunk
  <1>2. PICK S : S = Bytes \cup {id}  OBVIOUS
  <1>3. u \in Seq(Bytes) /\ Len(u) = 4  BY Length
  <1>4. i \in Seq(S) /\ f \in Seq(S) /\ u \in Seq(S) /\ Bytes \subseteq S /\ e \in Seq(Bytes)
    BY <1>2, <1>3, Flags, Cells
  <1>5. Len(i) = 1 /\ i[1] = id /\ Len(f) = 1 /\ f[1] = Flag(w)  OBVIOUS
  <1> HIDE DEF u, i, f
  <1>6. g \in Seq(S) /\ Len(g) = Len(i) + Len(u) /\ At(g, 0, i) /\ At(g, Len(i), u)
    BY <1>4, Joined
  <1> HIDE DEF g
  <1>7. h \in Seq(S) /\ Len(h) = Len(g) + Len(f) /\ At(h, 0, g) /\ At(h, Len(g), f)
    BY <1>4, <1>6, Joined
  <1> HIDE DEF h
  <1>8. /\ in \in Seq(S) /\ Len(in) = Len(h) + 5 + Len(e) + Len(d) /\ At(in, 0, h)
    BY <1>4, <1>7, NamedCells
  <1>9. Len(e) < Base /\ Len(d) < Cube =>
          /\ get_str8(in, Len(h)) = [ok |-> TRUE, off |-> Len(h) + 1 + Len(e), s |-> e]
          /\ get_data(in, Len(h) + 1 + Len(e)) = [ok |-> TRUE, data |-> d]
    BY <1>4, <1>7, ShortNamed
  <1>10. Len(e) >= Base /\ Len(in) < Cube =>
          get_str8(in, Len(h)).ok /\ get_data(in, get_str8(in, Len(h)).off) = Bad
    BY <1>4, <1>7, LongNamed
  <1> HIDE DEF in
  <1>11. Len(g) = 5 /\ Len(h) = 6  BY <1>3, <1>5, <1>6, <1>7
  <1>12. At(h, 1, u)
    <2>1. Len(i) \in Nat /\ Len(i) + Len(u) <= Len(g)  BY <1>3, <1>5, <1>11
    <2>2. At(h, 0 + Len(i), u)  BY <2>1, <1>4, <1>6, <1>7, PartOfPart
    <2>3. QED  BY <1>5, <2>2
  <1>13. At(in, 1, u)
    <2>1. 1 + Len(u) <= Len(h)  BY <1>3, <1>11
    <2>2. At(in, 0 + 1, u)  BY <2>1, <1>4, <1>7, <1>8, <1>12, PartOfPart
    <2>3. QED  BY <2>2
  <1>14. in[1] = id
    <2>1. g[0 + 1] = i[1]  BY <1>5, <1>6 DEF At
    <2>2. h[0 + 1] = g[1]  BY <1>7, <1>11 DEF At
    <2>3. in[0 + 1] = h[1]  BY <1>8, <1>11 DEF At
    <2>4. QED  BY <1>5, <2>1, <2>2, <2>3
  <1>15. in[6] = Flag(w)
    <2>1. h[5 + 1] = f[1]  BY <1>5, <1>7, <1>11 DEF At
    <2>2. in[0 + 6] = h[6]  BY <1>8, <1>11 DEF At
    <2>3. QED  BY <1>5, <2>1, <2>2
  <1>16. get_u32(in, 1) = q  BY <1>8, <1>13, LengthRead DEF u
  <1>17. Len(in) = 11 + Len(e) + Len(d) /\ Len(e) \in Nat /\ Len(d) \in Nat  BY <1>8, <1>11
  <1>18. ~(Len(in) < 7)  BY <1>17
  <1>19. ASSUME Len(e) < Base, Len(d) < Cube
         PROVE  decode_stream_chunk(in) = c
    <2>1. /\ get_str8(in, 6) = [ok |-> TRUE, off |-> 6 + 1 + Len(e), s |-> e]
          /\ get_data(in, 6 + 1 + Len(e)) = [ok |-> TRUE, data |-> d]
      BY <1>9, <1>11, <1>19
    <2>2. get_str8(in, 6).ok /\ get_str8(in, 6).off = 6 + 1 + Len(e) /\ get_str8(in, 6).s = e
      BY <2>1
    <2>3. /\ get_data(in, get_str8(in, 6).off).ok
           /\ get_data(in, get_str8(in, 6).off).data = d
      BY <2>1, <2>2
    <2>4. (in[6][1] # 0) = w  BY <1>15, Flags
    <2>5. decode_stream_chunk(in) = [ok |-> TRUE, id |-> in[1], seq |-> get_u32(in, 1),
                                     is_last |-> in[6][1] # 0, endpoint |-> e, data |-> d]
      BY <1>18, <2>2, <2>3, Zenon DEF decode_stream_chunk
    <2>6. QED  BY <1>14, <1>16, <2>4, <2>5 DEF IsChunk
  <1>20. ASSUME Len(e) >= Base, Len(in) < Cube
         PROVE  decode_stream_chunk(in) = Bad
    <2>1. get_str8(in, 6).ok /\ get_data(in, get_str8(in, 6).off) = Bad  BY <1>10, <1>11, <1>20
    <2>2. ~Bad.ok  BY DEF Bad
    <2>3. QED  BY <1>18, <2>1, <2>2, Zenon DEF decode_stream_chunk
  <1>21. QED  BY <1>1, <1>2, <1>8, <1>17, <1>19, <1>20

\* A response is read back as it was written.
LEMMA ResponseRead ==
    ASSUME NEW id, NEW s \in 0 .. 2, NEW d \in Seq(Bytes), Len(d) < Cube, NEW r,
           r.id = id, r.status = s, r.data = d
    PROVE  /\ encode_response(r) \in Seq(Bytes \cup {id})
           /\ Len(encode_response(r)) = 6 + Len(d)
           /\ decode_response(encode_response(r)) = [ok |-> TRUE, id |-> id, status |-> s, data |-> d]
  <1> DEFINE h == << id, Byte(s) >>
             u == put_u32(Len(d))
             t == u \o d
             in == h \o t
  <1>1. encode_response(r) = in  BY DEF encode_response, put_data
  <1>2. PICK S : S = Bytes \cup {id}  OBVIOUS
  <1>3. u \in Seq(Bytes)  BY Length
  <1>4. h \in Seq(S) /\ Bytes \subseteq S  BY <1>2, SmallBytes
  <1>5. Len(h) = 2 /\ h[1] = id /\ h[2] = Byte(s)  OBVIOUS
  <1>6. Len(u) = 4  BY Length
  <1> HIDE DEF h, u
  <1>7. t \in Seq(Bytes) /\ Len(t) = Len(u) + Len(d) /\ At(t, 0, u) /\ At(t, Len(u), d)
    BY <1>3, Joined
  <1> HIDE DEF t
  <1>8. t \in Seq(S)  BY <1>4, <1>7
  <1>9. in \in Seq(S) /\ Len(in) = Len(h) + Len(t) /\ At(in, 0, h) /\ At(in, Len(h), t)
    BY <1>4, <1>8, Joined
  <1> HIDE DEF in
  <1>10. Len(in) = 6 + Len(d) /\ Len(t) = 4 + Len(d) /\ Len(d) \in Nat  BY <1>5, <1>6, <1>7, <1>9
  <1>11. At(in, 2, t)  BY <1>5, <1>9
  <1>12. At(in, 2, u)
    <2>1. 0 + Len(u) <= Len(t)  BY <1>6, <1>10
    <2>2. At(in, 2 + 0, u)  BY <2>1, <1>3, <1>7, <1>11, PartOfPart
    <2>3. QED  BY <2>2
  <1>13. At(in, 2 + 4, d)
    <2>1. 4 + Len(d) <= Len(t) /\ At(t, 4, d)  BY <1>6, <1>7, <1>10
    <2>2. QED  BY <2>1, <1>7, <1>11, PartOfPart
  <1>14. get_data(in, 2) = [ok |-> TRUE, data |-> d]
    <2>1. Len(d) < Fourth  BY <1>10, Powers
    <2>2. 2 + 4 + Len(d) <= Len(in) /\ in \in Seq(S)  BY <1>9, <1>10
    <2>3. QED  BY <2>1, <2>2, <1>12, <1>13, DataRead DEF u
  <1>15. in[1] = id /\ in[2] = Byte(s)
    <2>1. in[0 + 1] = h[1] /\ in[0 + 2] = h[2]  BY <1>5, <1>9 DEF At
    <2>2. QED  BY <1>5, <2>1
  <1>16. in[2][1] = s  BY <1>15, SmallBytes
  <1>17. ~(Len(in) < 6)  BY <1>10
  <1>18. decode_response(in) = [ok |-> TRUE, id |-> id, status |-> s, data |-> d]
    <2>1. get_data(in, 2).ok /\ get_data(in, 2).data = d  BY <1>14
    <2>2. QED  BY <2>1, <1>15, <1>16, <1>17, Zenon DEF decode_response
  <1>19. QED  BY <1>1, <1>2, <1>9, <1>10, <1>18

\* The limiter's reason is read back.
LEMMA ErrorRead ==
    LET in == encode_error([reason |-> kErrRateLimited, message |-> << >>])
    IN  /\ in \in Seq(Bytes) /\ Len(in) = 2
        /\ decode_error(in).ok /\ decode_error(in).reason = kErrRateLimited
  <1> DEFINE in == encode_error([reason |-> kErrRateLimited, message |-> << >>])
  <1>1. in = << Byte(0), Byte(1) >>
    BY SmallBytes DEF encode_error, kErrRateLimited
  <1>2. Byte(0) \in Bytes /\ Byte(1) \in Bytes /\ Byte(0)[1] = 0 /\ Byte(1)[1] = 1  BY SmallBytes
  <1> HIDE DEF in
  <1>3. in \in Seq(Bytes) /\ Len(in) = 2 /\ in[1] = Byte(0) /\ in[2] = Byte(1)  BY <1>1, <1>2
  <1>4. decode_error(in).ok /\ decode_error(in).reason = in[1][1] * Base + in[2][1]
    BY <1>3 DEF decode_error
  <1>5. in[1][1] * Base + in[2][1] = 1  BY <1>2, <1>3, Powers
  <1>6. QED  BY <1>3, <1>4, <1>5 DEF kErrRateLimited, in

\* What ReadExtension makes of the extension of a peer of version 2, and of
\* its absence.
ExtensionOf(h) == IF h.max >= 2 THEN [ext |-> TRUE, max |-> h.max, sig2 |-> h.sig2]
                                ELSE [ext |-> FALSE, max |-> 1, sig2 |-> << >>]

\* The extension is read back behind the fields of version 1, or as absent.
LEMMA ExtensionRead ==
    ASSUME NEW S, Bytes \subseteq S, NEW g \in Seq(S), NEW h, h.sig2 \in S, h.max \in 1 .. 2
    PROVE  /\ g \o Extension(h) \in Seq(S)
           /\ Len(g) <= Len(g \o Extension(h)) /\ Len(g \o Extension(h)) <= Len(g) + 2
           /\ At(g \o Extension(h), 0, g)
           /\ ReadExtension(g \o Extension(h), Len(g)) = ExtensionOf(h)
  <1>0. PICK n \in Nat : n = Len(g)  OBVIOUS
  <1> DEFINE x == Extension(h)
             in == g \o x
  <1>1. CASE h.max >= 2
    <2>1. x = << Byte(2), h.sig2 >> /\ h.max = 2  BY <1>1 DEF Extension
    <2>2. Byte(2) \in S /\ Byte(2)[1] = 2  BY SmallBytes
    <2>3. x \in Seq(S) /\ x[1] = Byte(2) /\ x[2] = h.sig2  BY <2>1, <2>2
    <2>4. Len(x) = 2  BY <2>1
    <2> HIDE DEF x
    <2>5. in \in Seq(S) /\ Len(in) = n + Len(x) /\ At(in, 0, g) /\ At(in, n, x)  BY <1>0, <2>3, Joined
    <2> HIDE DEF in
    <2>6. Len(in) = n + 2  BY <2>4, <2>5
    <2>7. in[n + 1] = x[1] /\ in[n + 2] = x[2]  BY <2>4, <2>5 DEF At
    <2>8. in[n + 1][1] = 2 /\ in[n + 2] = h.sig2  BY <2>2, <2>3, <2>7
    <2>9. Len(in) >= n + 2  BY <2>6
    <2>10. ReadExtension(in, n) = [ext |-> TRUE, max |-> 2, sig2 |-> h.sig2]
      BY <2>8, <2>9, Zenon DEF ReadExtension
    <2>11. ReadExtension(in, n) = ExtensionOf(h)  BY <2>1, <2>10, <1>1 DEF ExtensionOf
    <2>12. QED  BY <1>0, <2>5, <2>6, <2>11 DEF in, x
  <1>2. CASE ~(h.max >= 2)
    <2>1. x = << >>  BY <1>2 DEF Extension
    <2>2. in = g  BY <2>1
    <2>3. At(g, 0, g)  BY DEF At
    <2> HIDE DEF in
    <2>4. ~(Len(in) >= n + 2)  BY <1>0, <2>2
    <2>5. ReadExtension(in, n) = [ext |-> FALSE, max |-> 1, sig2 |-> << >>]
      BY <2>4, Zenon DEF ReadExtension
    <2>6. ReadExtension(in, n) = ExtensionOf(h)  BY <2>5, <1>2, Zenon DEF ExtensionOf
    <2>7. g \in Seq(S) /\ Len(g) <= Len(g) /\ Len(g) <= Len(g) + 2  BY <1>0
    <2>8. QED  BY <1>0, <2>2, <2>3, <2>6, <2>7 DEF in
  <1>3. QED  BY <1>1, <1>2

\* A HELLO_ACK is read back as it was written.
LEMMA AckRead ==
    ASSUME NEW S, Bytes \subseteq S, NEW h, h.id \in S, h.eph \in S, h.snonce \in S, h.cnonce \in S,
           h.status \in 0 .. 1, h.sig \in S, h.sig2 \in S, h.max \in 1 .. 2
    PROVE  /\ encode_hello_ack(h) \in Seq(S) /\ Len(encode_hello_ack(h)) <= 9
           /\ decode_hello_ack(encode_hello_ack(h)) =
                [ok |-> TRUE, id |-> h.id, eph |-> h.eph, snonce |-> h.snonce, cnonce |-> h.cnonce,
                 status |-> h.status, sig |-> h.sig, ext |-> ExtensionOf(h).ext,
                 max |-> ExtensionOf(h).max, sig2 |-> ExtensionOf(h).sig2]
  <1> DEFINE g == << Byte(1), h.id, h.eph, h.snonce, h.cnonce, Byte(h.status), h.sig >>
             in == g \o Extension(h)
  <1>1. encode_hello_ack(h) = in  BY DEF encode_hello_ack
  <1>2. Byte(1) \in S /\ Byte(h.status) \in S /\ Byte(h.status)[1] = h.status  BY SmallBytes
  <1>3. g \in Seq(S)  BY <1>2
  <1>4. /\ g[2] = h.id /\ g[3] = h.eph /\ g[4] = h.snonce /\ g[5] = h.cnonce
        /\ g[6] = Byte(h.status) /\ g[7] = h.sig
    OBVIOUS
  <1>5. Len(g) = 7  OBVIOUS
  <1> HIDE DEF g
  <1>6. /\ in \in Seq(S) /\ Len(g) <= Len(in) /\ Len(in) <= Len(g) + 2 /\ At(in, 0, g)
        /\ ReadExtension(in, Len(g)) = ExtensionOf(h)
    BY <1>3, ExtensionRead
  <1> HIDE DEF in
  <1>7. ~(Len(in) < 7) /\ Len(in) <= 9 /\ ReadExtension(in, 7) = ExtensionOf(h)  BY <1>5, <1>6
  <1>8. \A k \in 1 .. 7 : in[0 + k] = g[k]  BY <1>5, <1>6 DEF At
  <1>9. /\ in[2] = h.id /\ in[3] = h.eph /\ in[4] = h.snonce /\ in[5] = h.cnonce
        /\ in[6] = Byte(h.status) /\ in[7] = h.sig
    BY <1>4, <1>8
  <1>10. in[6][1] = h.status  BY <1>2, <1>9
  <1>11. decode_hello_ack(in) = [ok |-> TRUE, id |-> h.id, eph |-> h.eph, snonce |-> h.snonce,
           cnonce |-> h.cnonce, status |-> h.status, sig |-> h.sig, ext |-> ExtensionOf(h).ext,
           max |-> ExtensionOf(h).max, sig2 |-> ExtensionOf(h).sig2]
    BY <1>7, <1>9, <1>10, Zenon DEF decode_hello_ack
  <1>12. QED  BY <1>1, <1>6, <1>7, <1>11

\* A HELLO is read back as it was written if the name fits its length byte.
\* If it does not, the host takes three letters of the name for the signature,
\* the version and the second signature.
LEMMA HelloRead ==
    ASSUME NEW S, Bytes \subseteq S, NEW h, h.id \in S, h.eph \in S, h.nonce \in S,
           h.sig \in S, h.sig2 \in S, h.max \in 1 .. 2, h.service \in Seq(Letters)
    PROVE  /\ encode_hello(h) \in Seq(S) /\ Len(encode_hello(h)) <= 8 + Len(h.service)
           /\ Len(h.service) < Base =>
                decode_hello(encode_hello(h)) =
                  [ok |-> TRUE, version |-> 1, id |-> h.id, eph |-> h.eph, nonce |-> h.nonce,
                   service |-> h.service, sig |-> h.sig, ext |-> ExtensionOf(h).ext,
                   max |-> ExtensionOf(h).max, sig2 |-> ExtensionOf(h).sig2]
           /\ Len(h.service) >= Base =>
                /\ decode_hello(encode_hello(h)).id = h.id
                /\ decode_hello(encode_hello(h)).eph = h.eph
                /\ decode_hello(encode_hello(h)).nonce = h.nonce
                /\ decode_hello(encode_hello(h)).sig \in Letters
                /\ decode_hello(encode_hello(h)).max \in Nat
                /\ decode_hello(encode_hello(h)).max >= 1
  <1> DEFINE e == h.service
             p == << Byte(1), h.id, h.eph, h.nonce >>
             b == << Byte(Len(e)) >>
             n == b \o e
             s == << h.sig >>
             q == p \o n
             g == q \o s
             in == g \o Extension(h)
  <1>1. encode_hello(h) = in  BY DEF encode_hello, put_str8
  <1>2. PICK m \in Nat : m = Len(e)  OBVIOUS
  <1>3. b \in Seq(S) /\ e \in Seq(S) /\ e \in Seq(Letters) /\ s \in Seq(S)  BY <1>2, Cells
  <1>4. p \in Seq(S)  BY SmallBytes
  <1>5. p[1] = Byte(1) /\ p[2] = h.id /\ p[3] = h.eph /\ p[4] = h.nonce  OBVIOUS
  <1>6. b[1] = Byte(m) /\ s[1] = h.sig  BY <1>2
  <1>7. Len(p) = 4 /\ Len(b) = 1 /\ Len(s) = 1  OBVIOUS
  <1> HIDE DEF p, b, s
  <1>8. n \in Seq(S) /\ Len(n) = Len(b) + Len(e) /\ At(n, 0, b) /\ At(n, Len(b), e)  BY <1>3, Joined
  <1> HIDE DEF n
  <1>9. q \in Seq(S) /\ Len(q) = Len(p) + Len(n) /\ At(q, 0, p) /\ At(q, Len(p), n)  BY <1>4, <1>8, Joined
  <1> HIDE DEF q
  <1>10. g \in Seq(S) /\ Len(g) = Len(q) + Len(s) /\ At(g, 0, q) /\ At(g, Len(q), s)  BY <1>3, <1>9, Joined
  <1> HIDE DEF g
  <1>11. /\ in \in Seq(S) /\ Len(g) <= Len(in) /\ Len(in) <= Len(g) + 2 /\ At(in, 0, g)
         /\ ReadExtension(in, Len(g)) = ExtensionOf(h)
    BY <1>10, ExtensionRead
  <1> HIDE DEF in
  <1>12. Len(n) = 1 + m /\ Len(q) = 5 + m /\ Len(g) = 6 + m  BY <1>2, <1>7, <1>8, <1>9, <1>10
  <1>13. 6 + m <= Len(in) /\ Len(in) <= 8 + m  BY <1>11, <1>12
  <1>14. At(in, 0, q)
    <2>1. 0 + Len(q) <= Len(g)  BY <1>2, <1>12
    <2>2. At(in, 0 + 0, q)  BY <2>1, <1>9, <1>10, <1>11, PartOfPart
    <2>3. QED  BY <2>2
  <1>15. At(in, 4, n)
    <2>1. 4 + Len(n) <= Len(q) /\ At(q, 4, n)  BY <1>2, <1>7, <1>9, <1>12
    <2>2. At(in, 0 + 4, n)  BY <2>1, <1>8, <1>9, <1>14, PartOfPart
    <2>3. QED  BY <2>2
  <1>16. At(in, 5, e)
    <2>1. 1 + Len(e) <= Len(n) /\ At(n, 1, e)  BY <1>2, <1>7, <1>8, <1>12
    <2>2. At(in, 4 + 1, e)  BY <2>1, <1>3, <1>8, <1>15, PartOfPart
    <2>3. QED  BY <2>2
  <1>17. At(in, 0, p)
    <2>1. 0 + Len(p) <= Len(q)  BY <1>2, <1>7, <1>12
    <2>2. At(in, 0 + 0, p)  BY <2>1, <1>4, <1>9, <1>14, PartOfPart
    <2>3. QED  BY <2>2
  <1>18. in[1] = Byte(1) /\ in[2] = h.id /\ in[3] = h.eph /\ in[4] = h.nonce
    <2>1. \A k \in 1 .. 4 : in[0 + k] = p[k]  BY <1>7, <1>17 DEF At
    <2>2. QED  BY <1>5, <2>1
  <1>19. in[5] = Byte(m)
    <2>1. n[0 + 1] = b[1]  BY <1>7, <1>8 DEF At
    <2>2. in[4 + 1] = n[1]  BY <1>2, <1>12, <1>15 DEF At
    <2>3. QED  BY <1>6, <2>1, <2>2
  <1>20. in[6 + m] = h.sig
    <2>1. g[5 + m + 1] = s[1]  BY <1>7, <1>10, <1>12 DEF At
    <2>2. 6 + m \in 1 .. Len(g) /\ 0 + (6 + m) = 5 + m + 1 /\ 5 + m + 1 = 6 + m  BY <1>2, <1>12
    <2>3. in[0 + (6 + m)] = g[6 + m]  BY <1>11, <2>2 DEF At
    <2>4. QED  BY <1>6, <2>1, <2>2, <2>3
  <1>21. in[1][1] = 1  BY <1>18, SmallBytes
  <1>22. ~(Len(in) < 5)  BY <1>2, <1>13
  <1>23. ASSUME m < Base
         PROVE  decode_hello(in) =
                  [ok |-> TRUE, version |-> 1, id |-> h.id, eph |-> h.eph, nonce |-> h.nonce,
                   service |-> e, sig |-> h.sig, ext |-> ExtensionOf(h).ext,
                   max |-> ExtensionOf(h).max, sig2 |-> ExtensionOf(h).sig2]
    <2>1. 4 + 1 + Len(e) <= Len(in) /\ in[4 + 1] = Byte(Len(e)) /\ At(in, 4 + 1, e)
      BY <1>2, <1>13, <1>16, <1>19
    <2>2. in \in Seq(S) /\ Len(e) < Base  BY <1>2, <1>11, <1>23
    <2>3. get_str8(in, 4) = [ok |-> TRUE, off |-> 4 + 1 + Len(e), s |-> e]  BY <2>1, <2>2, <1>3, NameRead
    <2>4. get_str8(in, 4).ok /\ get_str8(in, 4).off = 5 + m /\ get_str8(in, 4).s = e  BY <1>2, <2>3
    <2>5. 5 + m + 1 = 6 + m /\ ~(5 + m + 1 > Len(in))  BY <1>2, <1>13
    <2>6. ReadExtension(in, 5 + m + 1) = ExtensionOf(h)  BY <1>11, <1>12, <2>5
    <2>7. in[5 + m + 1] = h.sig  BY <1>20, <2>5
    <2>8. ~(get_str8(in, 4).off + 1 > Len(in)) /\ in[get_str8(in, 4).off + 1] = h.sig
          /\ ReadExtension(in, get_str8(in, 4).off + 1) = ExtensionOf(h)
      BY <2>4, <2>5, <2>6, <2>7
    <2>9. QED  BY <1>18, <1>21, <1>22, <2>4, <2>8, Zenon DEF decode_hello
  <1>24. ASSUME m >= Base
         PROVE  /\ decode_hello(in).id = h.id /\ decode_hello(in).eph = h.eph
                /\ decode_hello(in).nonce = h.nonce /\ decode_hello(in).sig \in Letters
                /\ decode_hello(in).max \in Nat /\ decode_hello(in).max >= 1
    <2>1. m % Base \in Nat /\ m % Base < Base  BY Powers, Division
    <2>2. PICK l \in Nat : l = m % Base  BY <2>1
    <2>3. l + 3 <= m
      <3>1. Base \in Nat /\ Base > 0 /\ m \div Base \in Nat /\ m = (m \div Base) * Base + l
        BY <2>2, Powers, Division
      <3>2. m \div Base >= 1  BY <3>1, <2>1, <2>2, <1>24
      <3>3. m >= Base + l  BY <3>1, <3>2
      <3>4. Base \in Nat /\ Base >= 3  BY Powers
      <3>5. QED  BY <3>3, <3>4
    <2>4. in[4 + 1][1] = l  BY <1>2, <1>19, <2>2, Cells
    <2>5. ~(4 + 1 > Len(in)) /\ ~(4 + 1 + l > Len(in))  BY <1>2, <1>13, <2>3
    <2>6. get_str8(in, 4) = [ok |-> TRUE, off |-> 4 + 1 + l, s |-> SubSeq(in, 4 + 2, 4 + 1 + l)]
      BY <2>4, <2>5, Zenon DEF get_str8
    <2>7. get_str8(in, 4).ok /\ get_str8(in, 4).off = 5 + l  BY <2>6
    <2>8. \A k \in 1 .. m : in[5 + k] \in Letters
      <3>1. \A k \in 1 .. m : in[5 + k] = e[k]  BY <1>2, <1>16 DEF At
      <3>2. \A k \in 1 .. m : e[k] \in Letters  BY <1>2, <1>3
      <3>3. QED  BY <3>1, <3>2
    <2>9. in[5 + l + 1] \in Letters /\ in[5 + l + 1 + 1] \in Letters
      <3>1. l + 1 \in 1 .. m /\ 5 + (l + 1) = 5 + l + 1 /\ l + 2 \in 1 .. m /\ 5 + (l + 2) = 5 + l + 1 + 1
        BY <1>2, <2>2, <2>3
      <3>2. QED  BY <2>8, <3>1
    <2>10. ~(5 + l + 1 > Len(in)) /\ Len(in) >= 5 + l + 1 + 2  BY <1>2, <1>13, <2>2, <2>3
    <2>11. ReadExtension(in, 5 + l + 1).max = in[5 + l + 1 + 1][1]
      <3>1. ReadExtension(in, 5 + l + 1) =
              [ext |-> TRUE, max |-> in[5 + l + 1 + 1][1], sig2 |-> in[5 + l + 1 + 2]]
        BY <2>10, Zenon DEF ReadExtension
      <3>2. QED  BY <3>1
    <2>12. in[5 + l + 1 + 1][1] \in Nat /\ in[5 + l + 1 + 1][1] >= 1  BY <2>9, Digits
    <2>13. decode_hello(in) =
             [ok |-> TRUE, version |-> in[1][1], id |-> in[2], eph |-> in[3], nonce |-> in[4],
              service |-> get_str8(in, 4).s, sig |-> in[5 + l + 1],
              ext |-> ReadExtension(in, 5 + l + 1).ext, max |-> ReadExtension(in, 5 + l + 1).max,
              sig2 |-> ReadExtension(in, 5 + l + 1).sig2]
      BY <1>22, <2>7, <2>10, Zenon DEF decode_hello
    <2>14. /\ decode_hello(in).id = in[2] /\ decode_hello(in).eph = in[3]
           /\ decode_hello(in).nonce = in[4] /\ decode_hello(in).sig = in[5 + l + 1]
           /\ decode_hello(in).max = ReadExtension(in, 5 + l + 1).max
      BY <2>13
    <2>15. QED  BY <2>14, <1>18, <2>9, <2>11, <2>12
  <1>25. QED  BY <1>1, <1>2, <1>11, <1>13, <1>23, <1>24

---------------------------------------------------------------------------
(* The inductive invariant.                                                *)

ClientEph == <<"eph", "client">>
ServerEph == <<"eph", "server">>
ClientNonce == <<"nonce", "client">>
ServerNonce == <<"nonce", "server">>

\* What the two sides come to agree on.
Version == IF env.cmax < env.smax THEN env.cmax ELSE env.smax
ClientResult == [version |-> Version, peer |-> ServerId,
                 rx |-> SessionKey("client", ClientEph, ServerEph),
                 tx |-> SessionKey("server", ClientEph, ServerEph)]
ServerResult == [version |-> Version, peer |-> ClientId,
                 rx |-> SessionKey("server", ClientEph, ServerEph),
                 tx |-> SessionKey("client", ClientEph, ServerEph)]

\* The host lets this client in.
Welcome == env.asked = Service /\ env.strusts

HelloFrame == write_frame("Hello", encode_hello(MyHello), FALSE)
AckFrame == write_frame("HelloAck", encode_hello_ack(MyAck), FALSE)

\* What the host has found in the HELLO: its version is the agreed one if it
\* trusts the client, and anything that a misread name spells if it does not.
Heard ==
  /\ hs = [version |-> hs.version, trusted |-> Welcome, peer |-> ClientId,
           eph |-> ClientEph, nonce |-> ClientNonce]
  /\ hs.version \in 1 .. 2 /\ (Welcome => hs.version = Version)

Before == {"hello", "ack", "failed"}
After == {"open", "left", "limited"}

\* Who has come how far, with what in the buffers.
PhaseInv ==
  /\ env \in [cmax : 1 .. 2, smax : 1 .. 2, asked : Asked, ctrusts : BOOLEAN, strusts : BOOLEAN]
  /\ cpc \in Before \cup After /\ spc \in Before \cup After
  /\ cpc = "hello" => toServer = << >> /\ spc \in {"hello", "failed"}
  /\ cpc \in Before => cRes = None /\ sent = << >>
  /\ cpc \in After => cRes = ClientResult /\ spc \in After
  /\ spc \in Before => sRes = None /\ got = << >>
  /\ spc \in After => sRes = ServerResult /\ Welcome
  /\ spc = "hello" => toServer = << >> \/ toServer = << HelloFrame >>
  /\ spc = "hello" \/ spc = "ack" => toClient = << >>
  /\ spc = "ack" => Heard
  /\ cpc = "hello" \/ cpc = "ack" =>
       \/ toClient = << >>
       \/ toClient = << AckFrame >> /\ Heard /\ (Welcome => spc \in After)

\* Requests and chunks.
Id == {<<"id", n>> : n \in 0 .. MaxMsgs}
RequestMsg == [ok : {TRUE}, id : Id, oneway : BOOLEAN, endpoint : Names, data : Datas]
ChunkMsg == [ok : {TRUE}, id : Id, seq : 0 .. MaxMsgs, is_last : BOOLEAN, endpoint : Names, data : Datas]
Message == RequestMsg \cup ChunkMsg

Body(m) == IF "seq" \in DOMAIN m THEN encode_stream_chunk(m) ELSE encode_request(m)
FrameOf(m) == Sealed(IF "seq" \in DOMAIN m THEN "StreamChunk" ELSE "Request", Body(m), ClientResult)
Fits(m) == FrameOf(m).total_len <= MaxFrame

\* The requests under way are the ones sent and not yet decoded, in order.
FlightInv ==
  /\ sent \in Seq(Message) /\ Len(sent) <= MaxMsgs
  /\ stream \in [id : 0 .. 1, seq : Nat, open : BOOLEAN, endpoint : Names \cup {<< >>}]
  /\ stream.seq <= Len(sent) /\ (stream.open => stream.endpoint \in Names)
  /\ got \in Seq(Message) /\ Dispatched
  /\ spc = "ack" \/ spc = "open" =>
       /\ Len(sent) = Len(got) + Len(toServer)
       /\ \A i \in 1 .. Len(toServer) : toServer[i] = FrameOf(sent[Len(got) + i])

\* What comes back are answers to requests that were sent, and the reason of
\* the limiter once it has cut the client off.
IsReply(f) ==
  \E j \in 1 .. Len(sent) :
    /\ sent[j] \in RequestMsg /\ ~sent[j].oneway /\ Fits(sent[j])
    /\ f = Sealed("Response", encode_response(Reply(sent[j])), ServerResult)
IsReason(f) ==
  /\ spc = "limited"
  /\ f = Sealed("Error", encode_error([reason |-> kErrRateLimited, message |-> << >>]), ServerResult)

Outcomes == {<<"NotFound">>, <<"Protocol">>} \cup {<<"ok", d>> : d \in Datas \cup {<< >>}}

AnswerInv ==
  /\ cpc = "open" => \A i \in 1 .. Len(toClient) : IsReply(toClient[i]) \/ IsReason(toClient[i])
  /\ answers \in Seq([id : Id, outcome : Outcomes]) /\ Answered

ReasonInv ==
  /\ GivesUpForAReason
  /\ cpc = "limited" => spc = "limited"

\* Frames, with the cells that their bodies are made of.
SignedCell == Bytes \cup {ClientId, ServerId, ClientEph, ServerEph, ClientNonce, ServerNonce,
                          <<"EPX-v2-hello", 0>>, <<"EPX-v2-ack", 0>>}
Cell == SignedCell \cup Id \cup {Sign(i, b) : i \in {ClientId, ServerId}, b \in Seq(SignedCell)}
          \cup {<<"tag", SessionKey(t, ClientEph, ServerEph), 0>> : t \in {"client", "server"}}
Frame == [type : FrameType, with_epoch : BOOLEAN, body : Seq(Cell), total_len : Nat]

BufferInv == toServer \in Seq(Frame) /\ toClient \in Seq(Frame)

Inv == PhaseInv /\ FlightInv /\ AnswerInv /\ ReasonInv /\ BufferInv

---------------------------------------------------------------------------
(* What the two handshakes make of each other's message.                   *)

\* The environment: versions, the name asked for and the trust.
LEMMA EnvFacts ==
    ASSUME PhaseInv
    PROVE  /\ env.cmax \in 1 .. 2 /\ env.smax \in 1 .. 2 /\ Version \in 1 .. 2
           /\ env.asked \in Seq(Letters) /\ env.ctrusts \in BOOLEAN /\ env.strusts \in BOOLEAN
           /\ Welcome \in BOOLEAN
  <1>1. env \in [cmax : 1 .. 2, smax : 1 .. 2, asked : Asked, ctrusts : BOOLEAN, strusts : BOOLEAN]
    BY DEF PhaseInv
  <1>2. env.cmax \in 1 .. 2 /\ env.smax \in 1 .. 2 /\ env.asked \in Asked  BY <1>1
  <1>3. env.ctrusts \in BOOLEAN /\ env.strusts \in BOOLEAN  BY <1>1
  <1>4. env.asked \in Seq(Letters)  BY <1>2, HandshakeAssumption
  <1>5. Version \in 1 .. 2  BY <1>2 DEF Version
  <1>6. Welcome \in BOOLEAN  BY <1>3 DEF Welcome
  <1>7. QED  BY <1>2, <1>3, <1>4, <1>5, <1>6

\* A signature is no letter.
LEMMA SignatureIsNoLetter ==
    ASSUME NEW i, NEW b, NEW c \in Letters
    PROVE  c # Sign(i, b)
  BY DEF Sign, Letters

\* What the client puts into its HELLO.
LEMMA HelloParts ==
    ASSUME PhaseInv
    PROVE  /\ MyHello.id = ClientId /\ MyHello.eph = ClientEph /\ MyHello.nonce = ClientNonce
           /\ MyHello.service = env.asked /\ MyHello.max = env.cmax
           /\ MyHello.sig = Sign(ClientId, hello_signed_bytes(ClientEph, ClientNonce, env.asked))
           /\ MyHello.sig2 = Sign(ClientId, hello_signed_bytes_v2(env.cmax, ClientId, ClientEph, ClientNonce, env.asked))
           /\ MyHello.id \in Cell /\ MyHello.eph \in Cell /\ MyHello.nonce \in Cell
           /\ MyHello.sig \in Cell /\ MyHello.sig2 \in Cell
  <1>1. /\ MyHello.id = ClientId /\ MyHello.eph = ClientEph /\ MyHello.nonce = ClientNonce
        /\ MyHello.service = env.asked /\ MyHello.max = env.cmax
        /\ MyHello.sig = Sign(ClientId, hello_signed_bytes(ClientEph, ClientNonce, env.asked))
        /\ MyHello.sig2 = Sign(ClientId, hello_signed_bytes_v2(env.cmax, ClientId, ClientEph, ClientNonce, env.asked))
    BY DEF MyHello, ClientEph, ClientNonce
  <1>2. env.asked \in Seq(SignedCell)  BY EnvFacts, Cells DEF SignedCell
  <1>3. ClientId \in SignedCell /\ ClientEph \in SignedCell /\ ClientNonce \in SignedCell
        /\ <<"EPX-v2-hello", 0>> \in SignedCell
    BY DEF SignedCell
  <1>4. Byte(env.cmax) \in SignedCell  BY EnvFacts, SmallBytes DEF SignedCell
  <1> HIDE DEF ClientId, ClientEph, ClientNonce
  <1>5. hello_signed_bytes(ClientEph, ClientNonce, env.asked) \in Seq(SignedCell)
    BY <1>2, <1>3 DEF hello_signed_bytes
  <1>6. hello_signed_bytes_v2(env.cmax, ClientId, ClientEph, ClientNonce, env.asked) \in Seq(SignedCell)
    <2>1. << <<"EPX-v2-hello", 0>>, Byte(env.cmax), ClientId, ClientEph, ClientNonce >> \in Seq(SignedCell)
      BY <1>3, <1>4
    <2>2. QED  BY <1>2, <2>1, Joined DEF hello_signed_bytes_v2
  <1>7. QED  BY <1>1, <1>3, <1>5, <1>6 DEF Cell

\* Bytes, what is signed and the ids are cells.
LEMMA CellSets ==
    Bytes \subseteq Cell /\ SignedCell \subseteq Cell /\ Id \subseteq Cell
  BY DEF Cell, SignedCell

\* The host considers an honest HELLO only if it can be read as one for its
\* own service, trusts it exactly if it is, and then works out the version
\* that the client will work out.
LEMMA HelloOutcome ==
    ASSUME PhaseInv, NEW f, f = HelloFrame, NEW h, h = decode_hello(f.body)
    PROVE  /\ f \in Frame /\ f.type = "Hello"
           /\ Welcome => read_frame_accepts(f, FALSE) /\ h.ok /\ HelloConsidered(h)
           /\ HelloConsidered(h) =>
                /\ h.id = ClientId /\ h.eph = ClientEph /\ h.nonce = ClientNonce
                /\ negotiate_version(env.smax, h.max) \in 1 .. 2
                /\ HelloTrusted(h) = Welcome
                /\ Welcome => negotiate_version(env.smax, h.max) = Version
  <1> DEFINE g == MyHello
             in == encode_hello(g)
  <1>0. /\ env.cmax \in 1 .. 2 /\ env.smax \in 1 .. 2 /\ env.asked \in Seq(Letters)
        /\ env.strusts \in BOOLEAN /\ Welcome \in BOOLEAN
    BY EnvFacts
  <1>1. /\ g.id \in Cell /\ g.eph \in Cell /\ g.nonce \in Cell /\ g.sig \in Cell /\ g.sig2 \in Cell
        /\ g.max \in 1 .. 2 /\ g.service \in Seq(Letters) /\ g.service = env.asked /\ g.max = env.cmax
        /\ g.id = ClientId /\ g.eph = ClientEph /\ g.nonce = ClientNonce
    BY <1>0, HelloParts
  <1>2. /\ g.sig = Sign(ClientId, hello_signed_bytes(ClientEph, ClientNonce, env.asked))
        /\ g.sig2 = Sign(ClientId, hello_signed_bytes_v2(env.cmax, ClientId, ClientEph, ClientNonce, env.asked))
    BY HelloParts
  <1> HIDE DEF g
  <1>3. /\ in \in Seq(Cell) /\ Len(in) <= 8 + Len(env.asked)
        /\ Len(env.asked) < Base =>
             decode_hello(in) =
               [ok |-> TRUE, version |-> 1, id |-> g.id, eph |-> g.eph, nonce |-> g.nonce,
                service |-> g.service, sig |-> g.sig, ext |-> ExtensionOf(g).ext,
                max |-> ExtensionOf(g).max, sig2 |-> ExtensionOf(g).sig2]
        /\ Len(env.asked) >= Base =>
             /\ decode_hello(in).id = g.id /\ decode_hello(in).eph = g.eph
             /\ decode_hello(in).nonce = g.nonce /\ decode_hello(in).sig \in Letters
             /\ decode_hello(in).max \in Nat /\ decode_hello(in).max >= 1
    BY <1>1, CellSets, HelloRead
  <1> HIDE DEF in
  <1>4. f = [type |-> "Hello", with_epoch |-> FALSE, body |-> in, total_len |-> 2 + Len(in)]
    BY DEF HelloFrame, write_frame, header_len, in, g
  <1>5. f.type = "Hello" /\ f.body = in /\ f.total_len = 2 + Len(in) /\ Len(in) \in Nat  BY <1>3, <1>4
  <1>6. f \in Frame  BY <1>3, <1>4, <1>5 DEF Frame, FrameType
  <1>7. CASE Len(env.asked) < Base
    <2>1. /\ h.ok /\ h.version = 1 /\ h.id = ClientId /\ h.eph = ClientEph /\ h.nonce = ClientNonce
          /\ h.service = env.asked /\ h.sig = g.sig /\ h.ext = ExtensionOf(g).ext
          /\ h.max = ExtensionOf(g).max /\ h.sig2 = ExtensionOf(g).sig2
      BY <1>1, <1>3, <1>5, <1>7
    <2>2. h.max = env.cmax /\ (env.cmax >= 2 => h.ext /\ h.sig2 = g.sig2)
      BY <1>0, <1>1, <2>1 DEF ExtensionOf
    <2>3. negotiate_version(env.smax, h.max) = Version /\ Version \in 1 .. 2 /\ Version # 0
          /\ (Version >= 2 => env.cmax >= 2)
      BY <1>0, <2>2 DEF negotiate_version, Version
    <2>4. read_frame_accepts(f, FALSE)
      <3>1. Len(in) <= 7 + Base /\ Base \in Nat  BY <1>0, <1>3, <1>5, <1>7, Powers
      <3>2. MaxFrame >= Base + 9 /\ MaxFrame \in Nat  BY WireAssumption
      <3>3. QED  BY <1>5, <3>1, <3>2 DEF read_frame_accepts, header_len
    <2>5. HelloConsidered(h) <=> env.asked = Service  BY <2>1, <2>3 DEF HelloConsidered
    <2>6. Verify(h.id, hello_signed_bytes(h.eph, h.nonce, h.service), h.sig)
      BY <1>2, <2>1 DEF Verify
    <2>7. Version >= 2 => h.ext /\ Verify(h.id, hello_signed_bytes_v2(h.max, h.id, h.eph, h.nonce, h.service), h.sig2)
      BY <1>2, <2>1, <2>2, <2>3 DEF Verify
    <2>8. HelloTrusted(h) <=> env.strusts  BY <2>3, <2>6, <2>7 DEF HelloTrusted
    <2>9. HelloTrusted(h) \in BOOLEAN  BY DEF HelloTrusted
    <2>10. HelloConsidered(h) => HelloTrusted(h) = Welcome
      <3>1. HAVE HelloConsidered(h)
      <3>2. Welcome <=> HelloTrusted(h)  BY <2>5, <2>8, <3>1 DEF Welcome
      <3>3. QED  BY <1>0, <2>9, <3>2
    <2>11. Welcome => HelloConsidered(h)  BY <2>5 DEF Welcome
    <2>12. QED  BY <1>5, <1>6, <2>1, <2>3, <2>4, <2>10, <2>11
  <1>8. CASE Len(env.asked) >= Base
    <2>1. /\ h.id = ClientId /\ h.eph = ClientEph /\ h.nonce = ClientNonce
          /\ h.sig \in Letters /\ h.max \in Nat /\ h.max >= 1
      BY <1>1, <1>3, <1>5, <1>8
    <2>2. Welcome = FALSE
      <3>1. Len(Service) < Base /\ Len(Service) \in Nat /\ Len(env.asked) \in Nat
        BY <1>0, HandshakeAssumption
      <3>2. env.asked # Service  BY <1>8, <3>1, Powers
      <3>3. QED  BY <3>2 DEF Welcome
    <2>3. ~HelloTrusted(h)  BY <2>1, SignatureIsNoLetter DEF HelloTrusted, Verify
    <2>4. negotiate_version(env.smax, h.max) \in 1 .. 2  BY <1>0, <2>1 DEF negotiate_version
    <2>5. HelloTrusted(h) \in BOOLEAN  BY DEF HelloTrusted
    <2>6. HelloTrusted(h) = Welcome  BY <2>2, <2>3, <2>5
    <2>7. QED  BY <1>5, <1>6, <2>1, <2>2, <2>4, <2>6
  <1>9. Len(env.asked) \in Nat /\ Base \in Nat  BY <1>0, Powers
  <1>10. Len(env.asked) < Base \/ Len(env.asked) >= Base  BY <1>9
  <1>11. QED  BY <1>7, <1>8, <1>10

\* What the host puts into its HELLO_ACK.
LEMMA AckParts ==
    ASSUME PhaseInv, Heard
    PROVE  /\ MyAck.id = ServerId /\ MyAck.eph = ServerEph /\ MyAck.snonce = ServerNonce
           /\ MyAck.cnonce = ClientNonce /\ MyAck.max = env.smax
           /\ MyAck.status \in 0 .. 1 /\ (MyAck.status = 0 <=> Welcome)
           /\ MyAck.sig = Sign(ServerId, hello_ack_signed_bytes(ServerEph, ServerNonce, ClientNonce))
           /\ MyAck.sig2 = Sign(ServerId, hello_ack_signed_bytes_v2(env.smax, hs.version, MyAck.status,
                                  ServerId, ClientId, ServerEph, ServerNonce, ClientNonce))
           /\ MyAck.id \in Cell /\ MyAck.eph \in Cell /\ MyAck.snonce \in Cell /\ MyAck.cnonce \in Cell
           /\ MyAck.sig \in Cell /\ MyAck.sig2 \in Cell
  <1>1. hs.trusted = Welcome /\ hs.peer = ClientId /\ hs.eph = ClientEph /\ hs.nonce = ClientNonce
        /\ hs.version \in 1 .. 2
    BY DEF Heard
  <1>2. /\ MyAck.id = ServerId /\ MyAck.eph = ServerEph /\ MyAck.snonce = ServerNonce
        /\ MyAck.cnonce = hs.nonce /\ MyAck.max = env.smax
        /\ MyAck.status = (IF hs.trusted THEN 0 ELSE 1)
        /\ MyAck.sig = Sign(ServerId, hello_ack_signed_bytes(ServerEph, ServerNonce, hs.nonce))
        /\ MyAck.sig2 = Sign(ServerId, hello_ack_signed_bytes_v2(env.smax, hs.version, MyAck.status,
                               ServerId, hs.peer, ServerEph, ServerNonce, hs.nonce))
    BY DEF MyAck, ServerEph, ServerNonce
  <1>3. MyAck.status \in 0 .. 1 /\ (MyAck.status = 0 <=> Welcome)  BY <1>1, <1>2, EnvFacts
  <1>4. /\ ClientId \in SignedCell /\ ServerId \in SignedCell /\ ServerEph \in SignedCell
        /\ ClientNonce \in SignedCell /\ ServerNonce \in SignedCell /\ <<"EPX-v2-ack", 0>> \in SignedCell
    BY DEF SignedCell
  <1>5. Byte(env.smax) \in SignedCell /\ Byte(hs.version) \in SignedCell /\ Byte(MyAck.status) \in SignedCell
    BY <1>1, <1>3, EnvFacts, SmallBytes DEF SignedCell
  <1>6. hello_ack_signed_bytes(ServerEph, ServerNonce, ClientNonce) \in Seq(SignedCell)
    BY <1>4 DEF hello_ack_signed_bytes
  <1>7. hello_ack_signed_bytes_v2(env.smax, hs.version, MyAck.status, ServerId, ClientId,
                                  ServerEph, ServerNonce, ClientNonce) \in Seq(SignedCell)
    BY <1>4, <1>5 DEF hello_ack_signed_bytes_v2
  <1>8. QED  BY <1>1, <1>2, <1>3, <1>4, <1>6, <1>7 DEF Cell

\* The client accepts the answer exactly if it was let in and trusts the host,
\* and then has the version and the keys of the host.
LEMMA AckOutcome ==
    ASSUME PhaseInv, Heard, NEW f, f = AckFrame, NEW a, a = decode_hello_ack(f.body)
    PROVE  /\ f \in Frame /\ f.type = "HelloAck" /\ read_frame_accepts(f, FALSE) /\ a.ok
           /\ AckAccepted(a) <=> Welcome /\ env.ctrusts
           /\ a.id = ServerId /\ a.eph = ServerEph
           /\ negotiate_version(env.cmax, a.max) = Version
  <1> DEFINE g == MyAck
             in == encode_hello_ack(g)
  <1>0. /\ env.cmax \in 1 .. 2 /\ env.smax \in 1 .. 2 /\ env.ctrusts \in BOOLEAN /\ Welcome \in BOOLEAN
    BY EnvFacts
  <1>1. /\ g.id \in Cell /\ g.eph \in Cell /\ g.snonce \in Cell /\ g.cnonce \in Cell
        /\ g.sig \in Cell /\ g.sig2 \in Cell /\ g.status \in 0 .. 1 /\ g.max \in 1 .. 2
        /\ g.id = ServerId /\ g.eph = ServerEph /\ g.snonce = ServerNonce /\ g.cnonce = ClientNonce
        /\ g.max = env.smax /\ (g.status = 0 <=> Welcome)
    BY <1>0, AckParts
  <1>2. /\ g.sig = Sign(ServerId, hello_ack_signed_bytes(ServerEph, ServerNonce, ClientNonce))
        /\ g.sig2 = Sign(ServerId, hello_ack_signed_bytes_v2(env.smax, hs.version, g.status,
                           ServerId, ClientId, ServerEph, ServerNonce, ClientNonce))
    BY AckParts
  <1> HIDE DEF g
  <1>3. /\ in \in Seq(Cell) /\ Len(in) <= 9
        /\ decode_hello_ack(in) =
             [ok |-> TRUE, id |-> g.id, eph |-> g.eph, snonce |-> g.snonce, cnonce |-> g.cnonce,
              status |-> g.status, sig |-> g.sig, ext |-> ExtensionOf(g).ext,
              max |-> ExtensionOf(g).max, sig2 |-> ExtensionOf(g).sig2]
    BY <1>1, CellSets, AckRead
  <1> HIDE DEF in
  <1>4. f = [type |-> "HelloAck", with_epoch |-> FALSE, body |-> in, total_len |-> 2 + Len(in)]
    BY DEF AckFrame, write_frame, header_len, in, g
  <1>5. f.type = "HelloAck" /\ f.body = in /\ f.total_len = 2 + Len(in) /\ Len(in) \in Nat  BY <1>3, <1>4
  <1>6. f \in Frame  BY <1>3, <1>4, <1>5 DEF Frame, FrameType
  <1>7. read_frame_accepts(f, FALSE)
    <2>1. MaxFrame >= 11 /\ MaxFrame \in Nat  BY WireAssumption
    <2>2. QED  BY <1>3, <1>5, <2>1 DEF read_frame_accepts, header_len
  <1>8. /\ a.ok /\ a.id = ServerId /\ a.eph = ServerEph /\ a.snonce = ServerNonce
        /\ a.cnonce = ClientNonce /\ a.status = g.status /\ a.sig = g.sig
        /\ a.ext = ExtensionOf(g).ext /\ a.max = ExtensionOf(g).max /\ a.sig2 = ExtensionOf(g).sig2
    BY <1>1, <1>3, <1>5
  <1>9. a.max = env.smax /\ (env.smax >= 2 => a.ext /\ a.sig2 = g.sig2)
    BY <1>0, <1>1, <1>8 DEF ExtensionOf
  <1>10. negotiate_version(env.cmax, a.max) = Version /\ Version \in 1 .. 2 /\ Version # 0
         /\ (Version >= 2 => env.smax >= 2)
    BY <1>0, <1>9 DEF negotiate_version, Version
  <1>11. MyHello.nonce = ClientNonce  BY HelloParts
  <1>12. Verify(a.id, hello_ack_signed_bytes(a.eph, a.snonce, a.cnonce), a.sig)
    BY <1>2, <1>8 DEF Verify
  <1>13. Welcome /\ Version >= 2 =>
           a.ext /\ Verify(a.id, hello_ack_signed_bytes_v2(a.max, Version, a.status, a.id,
                             ClientId, a.eph, a.snonce, a.cnonce), a.sig2)
    <2>1. Welcome => hs.version = Version  BY DEF Heard
    <2>2. QED  BY <1>2, <1>8, <1>9, <1>10, <2>1 DEF Verify
  <1>14. AckAccepted(a) <=> Welcome /\ env.ctrusts
    BY <1>1, <1>8, <1>10, <1>11, <1>12, <1>13 DEF AckAccepted
  <1>15. QED  BY <1>5, <1>6, <1>7, <1>8, <1>10, <1>14

---------------------------------------------------------------------------
(* Sealed frames.                                                          *)

\* What one result sends the other can read.
Crossed(res, peer) ==
  /\ res.version \in 1 .. 2 /\ <<"tag", res.tx, 0>> \in Cell
  /\ peer.version = res.version /\ peer.rx = res.tx

\* A sealed frame is opened by the side whose rx key is the sender's tx key
\* exactly if it keeps the cap, and gives the body back.
LEMMA SealedFacts ==
    ASSUME NEW t \in FrameType, NEW b \in Seq(Cell), NEW res, NEW peer,
           Crossed(res, peer), NEW f, f = Sealed(t, b, res)
    PROVE  /\ f \in Frame /\ f.type = t /\ Plain(f) = b
           /\ f.total_len = (IF res.version >= 2 THEN 3 ELSE 2) + Len(b) + 1
           /\ Opens(f, peer) <=> f.total_len <= MaxFrame
  <1> DEFINE g == <<"tag", res.tx, 0>>
             w == res.version >= 2
             c == Append(b, g)
  <1>1. f = [type |-> t, with_epoch |-> w, body |-> c, total_len |-> header_len(w) + Len(c)]
    BY DEF Sealed, write_frame
  <1>2. g \in Cell /\ w \in BOOLEAN  BY DEF Crossed
  <1> HIDE DEF g
  <1>3. PICK n \in Nat : n = Len(b)  OBVIOUS
  <1>4. c \in Seq(Cell) /\ Len(c) = n + 1 /\ c[n + 1] = g /\ SubSeq(c, 1, n) = b
    <2>1. c \in Seq(Cell) /\ Len(c) = n + 1 /\ c[n + 1] = g  BY <1>2, <1>3
    <2>2. At(c, 0, b)  BY <1>2 DEF At
    <2>3. SubSeq(c, 0 + 1, 0 + n) = b  BY <1>3, <2>1, <2>2, PartRead
    <2>4. QED  BY <1>3, <2>1, <2>3
  <1> HIDE DEF c
  <1>5. header_len(w) \in Nat /\ header_len(w) <= 3  BY DEF header_len
  <1> HIDE DEF w
  <1>6. f.type = t /\ f.with_epoch = w /\ f.body = c /\ f.total_len = header_len(w) + (n + 1)
    BY <1>1, <1>4
  <1>7. f \in Frame  BY <1>1, <1>2, <1>4, <1>5, <1>3 DEF Frame
  <1>8. Plain(f) = b
    <2>1. Len(c) - 1 = n  BY <1>3, <1>4
    <2>2. QED  BY <1>4, <1>6, <2>1 DEF Plain
  <1>9. f.total_len >= header_len(w) /\ f.body[Len(f.body)] = g  BY <1>3, <1>4, <1>5, <1>6
  <1>10. Opens(f, peer) <=> f.total_len <= MaxFrame
    <2>1. (peer.version >= 2) = w  BY DEF w, Crossed
    <2>2. g = <<"tag", peer.rx, 0>>  BY DEF g, Crossed
    <2>3. QED  BY <1>6, <1>9, <2>1, <2>2 DEF Opens, read_frame_accepts
  <1>11. header_len(w) = IF res.version >= 2 THEN 3 ELSE 2  BY DEF header_len, w
  <1>12. f.total_len = (IF res.version >= 2 THEN 3 ELSE 2) + Len(b) + 1  BY <1>3, <1>6, <1>11
  <1>13. QED  BY <1>6, <1>7, <1>8, <1>10, <1>12

\* The two results of a handshake fit each other.
LEMMA ResultFacts ==
    ASSUME PhaseInv
    PROVE  /\ ClientResult.version = Version /\ ServerResult.version = Version /\ Version \in 1 .. 2
           /\ Crossed(ClientResult, ServerResult) /\ Crossed(ServerResult, ClientResult)
           /\ ClientResult # None /\ ServerResult # None
  <1>1. Version \in 1 .. 2  BY EnvFacts
  <1>2. /\ ClientResult.version = Version /\ ServerResult.version = Version
        /\ ClientResult.tx = SessionKey("server", ClientEph, ServerEph)
        /\ ClientResult.rx = SessionKey("client", ClientEph, ServerEph)
        /\ ServerResult.tx = SessionKey("client", ClientEph, ServerEph)
        /\ ServerResult.rx = SessionKey("server", ClientEph, ServerEph)
    BY DEF ClientResult, ServerResult
  <1>3. <<"tag", ClientResult.tx, 0>> \in Cell /\ <<"tag", ServerResult.tx, 0>> \in Cell
    BY <1>2 DEF Cell
  <1>4. ClientResult # None /\ ServerResult # None  BY <1>1, <1>2 DEF None
  <1>5. QED  BY <1>1, <1>2, <1>3, <1>4 DEF Crossed

\* A request has no sequence number, a chunk has one.
LEMMA Kinds ==
    /\ \A m \in RequestMsg : ~("seq" \in DOMAIN m) /\ m \in Message
    /\ \A m \in ChunkMsg : "seq" \in DOMAIN m /\ m \in Message
  BY DEF RequestMsg, ChunkMsg, Message

\* What the host makes of the frame of a message: it cannot be opened if it
\* exceeds the cap, it cannot be decoded if the name exceeds its length byte,
\* and otherwise it is the message.
LEMMA MessageFacts ==
    ASSUME PhaseInv, NEW m \in Message, NEW f, f = FrameOf(m)
    PROVE  /\ f \in Frame
           /\ f.type = IF "seq" \in DOMAIN m THEN "StreamChunk" ELSE "Request"
           /\ Opens(f, ServerResult) <=> Fits(m)
           /\ Fits(m) /\ Len(m.endpoint) < Base => Decoded(f) = m
           /\ Fits(m) /\ Len(m.endpoint) >= Base => Decoded(f) = Bad
           /\ Fits(m) => Len(m.data) < Cube
           /\ Fits(m) => (IF ClientResult.version >= 2 THEN 3 ELSE 2) + 8 + Len(m.data) <= MaxFrame
           /\ m.endpoint \in Seq(Letters) /\ m.data \in Seq(Bytes) /\ m.ok = TRUE
           /\ m.endpoint \in Names /\ m.data \in Datas /\ m.id \in Id
  <1> DEFINE ty == IF "seq" \in DOMAIN m THEN "StreamChunk" ELSE "Request"
  <1>1. /\ m.endpoint \in Names /\ m.data \in Datas /\ m.id \in Id /\ m.ok = TRUE
    BY DEF Message, RequestMsg, ChunkMsg
  <1>2. m.endpoint \in Seq(Letters) /\ m.data \in Seq(Bytes)  BY <1>1, HandshakeAssumption
  <1>3. PICK e \in Seq(Letters) : e = m.endpoint  BY <1>2
  <1>4. PICK d \in Seq(Bytes) : d = m.data  BY <1>2
  <1>0. e \in Seq(Letters) /\ d \in Seq(Bytes)  BY <1>3, <1>4
  <1>5. PICK i \in Id : i = m.id  BY <1>1
  <1>6. PICK k \in Nat : k = Len(e)  BY <1>3
  <1>7. PICK n \in Nat : n = Len(d)  BY <1>4
  <1>8. Bytes \cup {i} \subseteq Cell  BY <1>5, CellSets
  <1>9. PICK S : S = Bytes \cup {i}  OBVIOUS
  <1>10. ASSUME m \in RequestMsg
         PROVE  /\ Body(m) \in Seq(S) /\ Len(Body(m)) = 7 + k + n
                /\ k < Base /\ n < Cube => decode_request(Body(m)) = m
                /\ k >= Base /\ Len(Body(m)) < Cube => decode_request(Body(m)) = Bad
    <2>1. PICK w \in BOOLEAN : w = m.oneway  BY <1>10 DEF RequestMsg
    <2>2. IsRequest(m, i, w, e, d)
      BY <1>10, <1>3, <1>4, <1>5, <2>1 DEF RequestMsg, IsRequest
    <2>3. Body(m) = encode_request(m)  BY <1>10, Kinds DEF Body
    <2>4. /\ encode_request(m) \in Seq(Bytes \cup {i})
          /\ Len(encode_request(m)) = 7 + Len(e) + Len(d)
          /\ Len(e) < Base /\ Len(d) < Cube => decode_request(encode_request(m)) = m
          /\ Len(e) >= Base /\ Len(encode_request(m)) < Cube => decode_request(encode_request(m)) = Bad
      <3>1. w \in BOOLEAN  BY <2>1
      <3>2. QED  BY <1>0, <2>2, <3>1, RequestRead, SMTT(30)
    <2>5. QED  BY <1>6, <1>7, <1>9, <2>3, <2>4
  <1>11. ASSUME m \in ChunkMsg
         PROVE  /\ Body(m) \in Seq(S) /\ Len(Body(m)) = 11 + k + n
                /\ k < Base /\ n < Cube => decode_stream_chunk(Body(m)) = m
                /\ k >= Base /\ Len(Body(m)) < Cube => decode_stream_chunk(Body(m)) = Bad
    <2>1. PICK w \in BOOLEAN : w = m.is_last  BY <1>11 DEF ChunkMsg
    <2>2. PICK q \in Nat : q = m.seq /\ q < Fourth
      <3>1. m.seq \in 0 .. MaxMsgs  BY <1>11 DEF ChunkMsg
      <3>2. QED  BY <3>1, Powers
    <2>3. IsChunk(m, i, q, w, e, d)
      BY <1>11, <1>3, <1>4, <1>5, <2>1, <2>2 DEF ChunkMsg, IsChunk
    <2>4. Body(m) = encode_stream_chunk(m)  BY <1>11, Kinds DEF Body
    <2>5. /\ encode_stream_chunk(m) \in Seq(Bytes \cup {i})
          /\ Len(encode_stream_chunk(m)) = 11 + Len(e) + Len(d)
          /\ Len(e) < Base /\ Len(d) < Cube => decode_stream_chunk(encode_stream_chunk(m)) = m
          /\ Len(e) >= Base /\ Len(encode_stream_chunk(m)) < Cube =>
               decode_stream_chunk(encode_stream_chunk(m)) = Bad
      <3>1. q \in Nat /\ q < Fourth /\ w \in BOOLEAN  BY <2>1, <2>2
      <3>2. QED  BY <1>0, <2>3, <3>1, ChunkRead
    <2>6. QED  BY <1>6, <1>7, <1>9, <2>4, <2>5
  <1>12. PICK b : b = Body(m)  OBVIOUS
  <1>13. b \in Seq(Cell) /\ Len(b) \in Nat /\ Len(b) >= 7 + k + n
    <2>1. b \in Seq(S) /\ Len(b) >= 7 + k + n  BY <1>6, <1>7, <1>10, <1>11, <1>12 DEF Message
    <2>2. S \subseteq Cell  BY <1>8, <1>9
    <2>3. QED  BY <2>1, <2>2
  <1>14. ty \in FrameType  BY DEF FrameType
  <1>15. f = Sealed(ty, b, ClientResult)  BY <1>12 DEF FrameOf
  <1>16. /\ f \in Frame /\ f.type = ty /\ Plain(f) = b
         /\ f.total_len = (IF ClientResult.version >= 2 THEN 3 ELSE 2) + Len(b) + 1
         /\ Opens(f, ServerResult) <=> f.total_len <= MaxFrame
    <2>1. Crossed(ClientResult, ServerResult)  BY ResultFacts
    <2> HIDE DEF ty
    <2>2. QED  BY <1>13, <1>14, <1>15, <2>1, SealedFacts
  <1>17. PICK l \in 2 .. 3 : /\ l = IF ClientResult.version >= 2 THEN 3 ELSE 2
                             /\ f.total_len = l + Len(b) + 1
    BY <1>16
  <1>18. Fits(m) <=> f.total_len <= MaxFrame  BY DEF Fits
  <1>19. Fits(m) => Len(b) + 3 <= MaxFrame /\ Len(b) < Cube /\ n < Cube /\ l + 8 + n <= MaxFrame
    BY <1>6, <1>7, <1>13, <1>17, <1>18, Powers
  <1>20. Fits(m) /\ k < Base => Decoded(f) = m
    <2>1. CASE m \in RequestMsg
      <3>1. f.type = "Request"  BY <1>16, <2>1, Kinds
      <3>2. QED  BY <1>10, <1>12, <1>16, <1>19, <2>1, <3>1 DEF Decoded
    <2>2. CASE m \in ChunkMsg
      <3>1. f.type # "Request"  BY <1>16, <2>2, Kinds
      <3>2. QED  BY <1>11, <1>12, <1>16, <1>19, <2>2, <3>1 DEF Decoded
    <2>3. QED  BY <2>1, <2>2 DEF Message
  <1>21. Fits(m) /\ k >= Base => Decoded(f) = Bad
    <2>1. CASE m \in RequestMsg
      <3>1. f.type = "Request"  BY <1>16, <2>1, Kinds
      <3>2. QED  BY <1>10, <1>12, <1>16, <1>19, <2>1, <3>1 DEF Decoded
    <2>2. CASE m \in ChunkMsg
      <3>1. f.type # "Request"  BY <1>16, <2>2, Kinds
      <3>2. QED  BY <1>11, <1>12, <1>16, <1>19, <2>2, <3>1 DEF Decoded
    <2>3. QED  BY <2>1, <2>2 DEF Message
  <1>22. Fits(m) => (IF ClientResult.version >= 2 THEN 3 ELSE 2) + 8 + n <= MaxFrame
    BY <1>17, <1>19
  <1>23. QED  BY <1>1, <1>2, <1>3, <1>4, <1>6, <1>7, <1>16, <1>18, <1>19, <1>20, <1>21, <1>22

\* The answer to a request that fitted fits too, and the client reads it.
LEMMA ReplyFacts ==
    ASSUME PhaseInv, NEW m \in RequestMsg, Fits(m),
           NEW f, f = Sealed("Response", encode_response(Reply(m)), ServerResult)
    PROVE  /\ f \in Frame /\ f.type = "Response" /\ Opens(f, ClientResult)
           /\ decode_response(Plain(f)) = [ok |-> TRUE, id |-> m.id, status |-> Status(m.endpoint),
                                           data |-> Reply(m).data]
           /\ Outcome(Status(m.endpoint), Reply(m).data) = Outcome(Status(m.endpoint), m.data)
           /\ Outcome(Status(m.endpoint), m.data) \in Outcomes
  <1>0. m \in Message /\ m.data \in Seq(Bytes)
    <2>1. m \in Message /\ m.data \in Datas  BY Kinds DEF RequestMsg
    <2>2. QED  BY <2>1, HandshakeAssumption
  <1>1. PICK n \in Nat : n = Len(m.data)  BY <1>0
  <1>2. /\ m.data \in Seq(Bytes) /\ m.data \in Datas /\ m.id \in Id /\ n < Cube
        /\ (IF ClientResult.version >= 2 THEN 3 ELSE 2) + 8 + n <= MaxFrame
    BY <1>1, MessageFacts, Kinds
  <1>3. PICK s \in 0 .. 2 : s = Status(m.endpoint)  BY DEF Status
  <1>4. PICK i \in Id : i = m.id  BY <1>2
  <1>5. PICK d \in Seq(Bytes) : d = Reply(m).data /\ (d = m.data \/ d = << >>) /\ (s = 0 => d = m.data)
    <2>1. Reply(m).data = IF s = 0 THEN m.data ELSE << >>  BY <1>3 DEF Reply
    <2>2. << >> \in Seq(Bytes)  OBVIOUS
    <2>3. QED  BY <1>2, <2>1, <2>2
  <1>6. PICK r : r = Reply(m)  OBVIOUS
  <1>7. r.id = i /\ r.status = s /\ r.data = d  BY <1>3, <1>4, <1>5, <1>6 DEF Reply
  <1>8. PICK k \in Nat : k = Len(d) /\ k <= n
    <2>1. Len(<< >>) = 0  OBVIOUS
    <2>2. Len(d) = n \/ Len(d) = 0  BY <1>1, <1>5, <2>1
    <2>3. QED  BY <1>1, <2>2
  <1>9. k < Cube  BY <1>1, <1>2, <1>8, Powers
  <1>10. PICK b : b = encode_response(r)  OBVIOUS
  <1>11. /\ b \in Seq(Bytes \cup {i}) /\ Len(b) = 6 + Len(d)
         /\ decode_response(b) = [ok |-> TRUE, id |-> i, status |-> s, data |-> d]
    <2>1. s \in 0 .. 2 /\ d \in Seq(Bytes) /\ Len(d) < Cube  BY <1>3, <1>5, <1>8, <1>9
    <2>2. QED  BY <1>7, <1>10, <2>1, ResponseRead, ZenonT(30)
  <1>12. b \in Seq(Cell)
    <2>1. Bytes \cup {i} \subseteq Cell  BY <1>4, CellSets
    <2>2. QED  BY <1>11, <2>1
  <1>13. f = Sealed("Response", b, ServerResult) /\ "Response" \in FrameType
    BY <1>6, <1>10 DEF FrameType
  <1>14. /\ f \in Frame /\ f.type = "Response" /\ Plain(f) = b
         /\ f.total_len = (IF ServerResult.version >= 2 THEN 3 ELSE 2) + Len(b) + 1
         /\ Opens(f, ClientResult) <=> f.total_len <= MaxFrame
    <2>1. Crossed(ServerResult, ClientResult)  BY ResultFacts
    <2>2. QED  BY <1>12, <1>13, <2>1, SealedFacts
  <1>15. f.total_len <= MaxFrame
    <2>1. ServerResult.version = ClientResult.version  BY ResultFacts
    <2>2. PICK l \in 2 .. 3 : l = IF ClientResult.version >= 2 THEN 3 ELSE 2  OBVIOUS
    <2>3. f.total_len = l + (6 + k) + 1 /\ l + 8 + n <= MaxFrame
      BY <1>2, <1>8, <1>11, <1>14, <2>1, <2>2
    <2>4. MaxFrame \in Nat  BY Powers
    <2>5. l + (6 + k) + 1 <= MaxFrame  BY <1>8, <2>2, <2>3, <2>4
    <2>6. QED  BY <2>3, <2>5
  <1>16. Outcome(s, d) = Outcome(s, m.data)  BY <1>3, <1>5 DEF Outcome
  <1>17. Outcome(s, m.data) \in Outcomes
    <2>1. CASE s = 0  BY <1>2, <2>1 DEF Outcome, Outcomes
    <2>2. CASE s = 1  BY <2>2 DEF Outcome, Outcomes
    <2>3. CASE s = 2  BY <2>3 DEF Outcome, Outcomes
    <2>4. QED  BY <1>3, <2>1, <2>2, <2>3
  <1>18. QED  BY <1>3, <1>4, <1>5, <1>11, <1>14, <1>15, <1>16, <1>17

\* The reason of the limiter always arrives.
LEMMA ReasonFacts ==
    ASSUME PhaseInv, NEW f,
           f = Sealed("Error", encode_error([reason |-> kErrRateLimited, message |-> << >>]), ServerResult)
    PROVE  /\ f \in Frame /\ f.type = "Error" /\ Opens(f, ClientResult)
           /\ decode_error(Plain(f)).ok /\ decode_error(Plain(f)).reason = kErrRateLimited
  <1>1. PICK b : b = encode_error([reason |-> kErrRateLimited, message |-> << >>])  OBVIOUS
  <1>2. b \in Seq(Bytes) /\ Len(b) = 2 /\ decode_error(b).ok /\ decode_error(b).reason = kErrRateLimited
    BY <1>1, ErrorRead
  <1>3. b \in Seq(Cell) /\ "Error" \in FrameType  BY <1>2, CellSets DEF FrameType
  <1>4. f = Sealed("Error", b, ServerResult)  BY <1>1
  <1>5. /\ f \in Frame /\ f.type = "Error" /\ Plain(f) = b
        /\ f.total_len = (IF ServerResult.version >= 2 THEN 3 ELSE 2) + Len(b) + 1
        /\ Opens(f, ClientResult) <=> f.total_len <= MaxFrame
    <2>1. Crossed(ServerResult, ClientResult)  BY ResultFacts
    <2>2. QED  BY <1>3, <1>4, <2>1, SealedFacts
  <1>6. f.total_len <= MaxFrame
    <2>1. f.total_len <= 6 /\ f.total_len \in Nat  BY <1>2, <1>5
    <2>2. MaxFrame >= 6 /\ MaxFrame \in Nat  BY WireAssumption
    <2>3. QED  BY <2>1, <2>2
  <1>7. QED  BY <1>2, <1>5, <1>6

---------------------------------------------------------------------------
(* The invariant is inductive.                                             *)

\* The environment is fixed, and with it what the two sides come to.
LEMMA Stable ==
    ASSUME env' = env
    PROVE  /\ Version' = Version /\ Welcome' = Welcome
           /\ ClientResult' = ClientResult /\ ServerResult' = ServerResult
           /\ MyHello' = MyHello /\ HelloFrame' = HelloFrame
           /\ \A m : FrameOf(m)' = FrameOf(m)
           /\ \A m : Fits(m)' <=> Fits(m)
  <1>1. Version' = Version /\ Welcome' = Welcome  BY DEF Version, Welcome
  <1>2. ClientResult' = ClientResult /\ ServerResult' = ServerResult
    BY <1>1 DEF ClientResult, ServerResult
  <1>3. MyHello' = MyHello  BY DEF MyHello
  <1>4. HelloFrame' = HelloFrame  BY <1>3 DEF HelloFrame
  <1>5. ASSUME NEW m  PROVE  FrameOf(m)' = FrameOf(m)  BY <1>2 DEF FrameOf
  <1>6. ASSUME NEW m  PROVE  Fits(m)' <=> Fits(m)  BY <1>5 DEF Fits
  <1>7. QED  BY <1>1, <1>2, <1>3, <1>4, <1>5, <1>6

\* The answer is fixed with what the host has heard.
LEMMA StableAck ==
    ASSUME env' = env, hs' = hs
    PROVE  AckFrame' = AckFrame /\ (Heard' <=> Heard)
  <1>1. MyAck' = MyAck  BY DEF MyAck
  <1>2. AckFrame' = AckFrame  BY <1>1 DEF AckFrame
  <1>3. Heard' <=> Heard  BY Stable DEF Heard
  <1>4. QED  BY <1>2, <1>3

\* What is in a sequence after its head is taken, and after one is added.
LEMMA Taken ==
    ASSUME NEW S, NEW s \in Seq(S), s # << >>, NEW t, t = Tail(s)
    PROVE  /\ t \in Seq(S) /\ Len(s) \in Nat /\ Len(s) >= 1 /\ Len(t) = Len(s) - 1
           /\ Head(s) = s[1] /\ s[1] \in S
           /\ \A i \in 1 .. Len(t) : t[i] = s[i + 1] /\ i + 1 \in 1 .. Len(s)
  OBVIOUS

\* A sequence with one more element.
LEMMA Added ==
    ASSUME NEW S, NEW s \in Seq(S), NEW x \in S, NEW t, t = Append(s, x)
    PROVE  /\ t \in Seq(S) /\ Len(s) \in Nat /\ Len(t) = Len(s) + 1 /\ t[Len(s) + 1] = x
           /\ \A i \in 1 .. Len(s) : t[i] = s[i]
  OBVIOUS

\* t continues s.
Prefix(s, t) ==
  /\ Len(s) \in Nat /\ Len(t) \in Nat /\ Len(s) <= Len(t)
  /\ \A j \in 1 .. Len(s) : t[j] = s[j]

\* A sequence continues itself, and continues when it grows.
LEMMA PrefixFacts ==
    ASSUME NEW S, NEW s \in Seq(S)
    PROVE  Prefix(s, s) /\ \A x \in S : Prefix(s, Append(s, x))
  <1>1. Prefix(s, s)  BY DEF Prefix
  <1>2. ASSUME NEW x \in S  PROVE  Prefix(s, Append(s, x))  BY Added DEF Prefix
  <1>3. QED  BY <1>1, <1>2

\* Why a session may end.
Excuse ==
  \/ broken \/ spc = "limited"
  \/ env.asked # Service \/ ~env.ctrusts \/ ~env.strusts
  \/ \E i \in DOMAIN sent : Len(sent[i].endpoint) >= Base \/ Oversize(sent[i])

\* An excuse stays one.
LEMMA ExcuseStays ==
    ASSUME Inv, env' = env, broken => broken', spc = "limited" => spc' = "limited",
           sent' \in Seq(Message), Prefix(sent, sent'), sent # << >> => cRes' = cRes, Excuse
    PROVE  Excuse'
  <1>1. CASE \/ broken \/ spc = "limited"
             \/ env.asked # Service \/ ~env.ctrusts \/ ~env.strusts
    BY <1>1 DEF Excuse
  <1>2. CASE \E i \in DOMAIN sent : Len(sent[i].endpoint) >= Base \/ Oversize(sent[i])
    <2>1. PICK i \in DOMAIN sent : Len(sent[i].endpoint) >= Base \/ Oversize(sent[i])  BY <1>2
    <2>2. sent \in Seq(Message)  BY DEF Inv, FlightInv
    <2>3. i \in 1 .. Len(sent)  BY <2>2
    <2>4. cRes' = cRes
      <3>1. sent # << >>  BY <2>2, <2>3
      <3>2. QED  BY <3>1
    <2>5. i \in DOMAIN sent' /\ sent'[i] = sent[i]  BY <2>3 DEF Prefix
    <2>6. PICK m : m = sent[i]  OBVIOUS
    <2>7. Oversize(m)' <=> Oversize(m)  BY <2>4 DEF Oversize
    <2>8. Len(m.endpoint) >= Base \/ Oversize(m)'  BY <2>1, <2>6, <2>7
    <2>9. sent'[i] = m  BY <2>5, <2>6
    <2>10. Len(sent'[i].endpoint) >= Base \/ Oversize(sent[i])'  BY <2>8, <2>9 DEF Oversize
    <2>11. QED  BY <2>5, <2>10 DEF Excuse
  <1>3. QED  BY <1>1, <1>2 DEF Excuse

\* A message that the host cannot decode is an excuse.
LEMMA Undecodable ==
    ASSUME PhaseInv, FlightInv, NEW i \in 1 .. Len(sent), NEW m, m = sent[i],
           ~Fits(m) \/ Len(m.endpoint) >= Base
    PROVE  Excuse
  <1>1. sent \in Seq(Message)  BY DEF FlightInv
  <1>2. m \in Message /\ i \in DOMAIN sent /\ sent # << >>  BY <1>1
  <1>3. cRes = ClientResult  BY <1>2 DEF PhaseInv
  <1>4. ASSUME ~Fits(m)  PROVE  Oversize(m)
    <2>1. PICK f : f = FrameOf(m)  OBVIOUS
    <2>2. f \in Frame  BY <1>2, <2>1, MessageFacts
    <2>3. f.total_len \in Nat /\ MaxFrame \in Nat  BY <2>2, Powers DEF Frame
    <2>4. f.total_len > MaxFrame  BY <1>4, <2>1, <2>3 DEF Fits
    <2>5. Sealed("Request", Body(m), ClientResult).total_len = f.total_len
      BY <2>1 DEF FrameOf, Sealed, write_frame
    <2>6. QED  BY <1>3, <2>4, <2>5 DEF Oversize, Body
  <1>5. Len(sent[i].endpoint) >= Base \/ Oversize(sent[i])  BY <1>4
  <1>6. QED  BY <1>2, <1>5 DEF Excuse

\* What was an answer is one still.
LEMMA AnswerStays ==
    ASSUME AnswerInv, env' = env, Prefix(sent, sent'), spc = "limited" => spc' = "limited",
           NEW f, IsReply(f) \/ IsReason(f)
    PROVE  IsReply(f)' \/ IsReason(f)'
  <1>1. ServerResult' = ServerResult /\ \A m : Fits(m)' <=> Fits(m)  BY Stable
  <1>2. CASE IsReply(f)
    <2>1. PICK j \in 1 .. Len(sent) :
            /\ sent[j] \in RequestMsg /\ ~sent[j].oneway /\ Fits(sent[j])
            /\ f = Sealed("Response", encode_response(Reply(sent[j])), ServerResult)
      BY <1>2 DEF IsReply
    <2>2. PICK m : m = sent[j]  OBVIOUS
    <2>3. j \in 1 .. Len(sent') /\ sent'[j] = m  BY <2>2 DEF Prefix
    <2>4. m \in RequestMsg /\ ~m.oneway /\ Fits(m)' /\ f = Sealed("Response", encode_response(Reply(m)), ServerResult')
      BY <1>1, <2>1, <2>2
    <2>5. Fits(sent[j])'  BY <2>3, <2>4 DEF Fits, FrameOf, Body
    <2>6. IsReply(f)'  BY <2>3, <2>4, <2>5 DEF IsReply
    <2>7. QED  BY <2>6
  <1>3. CASE IsReason(f)
    <2>1. IsReason(f)'  BY <1>1, <1>3 DEF IsReason
    <2>2. QED  BY <2>1
  <1>4. QED  BY <1>2, <1>3

\* Parts of the invariant that a step leaves alone.
LEMMA FlightStays ==
    ASSUME FlightInv, env' = env, UNCHANGED <<sent, stream, got, toServer>>,
           spc' = "ack" \/ spc' = "open" => spc = "ack" \/ spc = "open"
    PROVE  FlightInv'
  <1>1. Dispatched'  BY DEF FlightInv, Dispatched
  <1>2. ASSUME spc' = "ack" \/ spc' = "open", NEW i \in 1 .. Len(toServer)
        PROVE  toServer'[i] = FrameOf(sent[Len(got) + i])'
    <2>1. PICK m : m = sent[Len(got) + i]  OBVIOUS
    <2>2. toServer[i] = FrameOf(m)  BY <1>2, <2>1 DEF FlightInv
    <2>3. FrameOf(m)' = FrameOf(m)  BY Stable
    <2>4. m = sent'[Len(got') + i]  BY <2>1
    <2>5. FrameOf(sent[Len(got) + i])' = FrameOf(m)'  BY <2>4 DEF FrameOf, Body
    <2>6. QED  BY <2>2, <2>3, <2>5
  <1>3. QED  BY <1>1, <1>2 DEF FlightInv

\* The answers stay if nothing is sent or received.
LEMMA AnswersStay ==
    ASSUME AnswerInv, env' = env, UNCHANGED <<toClient, answers, sent>>, sent \in Seq(Message),
           spc = "limited" => spc' = "limited", cpc' = "open" => cpc = "open"
    PROVE  AnswerInv'
  <1>1. Prefix(sent, sent')  BY PrefixFacts
  <1>2. ASSUME cpc' = "open", NEW i \in 1 .. Len(toClient')
        PROVE  IsReply(toClient[i])' \/ IsReason(toClient[i])'
    <2>1. PICK f : f = toClient[i]  OBVIOUS
    <2>2. IsReply(f) \/ IsReason(f)  BY <1>2, <2>1 DEF AnswerInv
    <2>3. IsReply(f)' \/ IsReason(f)'  BY <1>1, <2>2, AnswerStays
    <2>4. toClient'[i] = f  BY <2>1
    <2>5. QED  BY <2>3, <2>4 DEF IsReply, IsReason
  <1>3. Answered'  BY DEF AnswerInv, Answered
  <1>4. QED  BY <1>2, <1>3 DEF AnswerInv

\* The invariant holds before the first byte.
LEMMA InitInv ==
    Init => Inv
  <1> SUFFICES ASSUME Init  PROVE  Inv
    OBVIOUS
  <1>1. PhaseInv  BY DEF Init, PhaseInv, Before, After
  <1>2. FlightInv
    <2>1. /\ sent = << >> /\ got = << >> /\ spc = "hello"
          /\ stream = [id |-> 0, seq |-> 0, open |-> FALSE, endpoint |-> << >>]
      BY DEF Init
    <2>2. Dispatched  BY <2>1 DEF Dispatched
    <2>3. QED  BY <2>1, <2>2, HandshakeAssumption DEF FlightInv
  <1>3. AnswerInv
    <2>1. answers = << >> /\ cpc = "hello"  BY DEF Init
    <2>2. Answered  BY <2>1 DEF Answered
    <2>3. QED  BY <2>1, <2>2 DEF AnswerInv
  <1>4. ReasonInv  BY DEF Init, ReasonInv, GivesUpForAReason, Gone
  <1>5. BufferInv  BY DEF Init, BufferInv
  <1>6. QED  BY <1>1, <1>2, <1>3, <1>4, <1>5 DEF Inv

\* The reason of an end: the step keeps it if nobody ends in it, and else
\* has to give one.
LEMMA ReasonStays ==
    ASSUME Inv, env' = env, broken => broken', spc = "limited" => spc' = "limited",
           sent' \in Seq(Message), Prefix(sent, sent'), sent # << >> => cRes' = cRes,
           (Gone(cpc') => Gone(cpc) \/ Excuse'), (Gone(spc') => Gone(spc) \/ Gone(cpc) \/ Excuse'),
           cpc' = "limited" => spc' = "limited"
    PROVE  ReasonInv'
  <1>1. Gone(cpc) \/ Gone(spc) => Excuse  BY DEF Inv, ReasonInv, GivesUpForAReason, Excuse
  <1>2. Gone(cpc) \/ Gone(spc) => Excuse'  BY <1>1, ExcuseStays
  <1>3. Gone(cpc') \/ Gone(spc') => Excuse'  BY <1>2
  <1>4. GivesUpForAReason'  BY <1>3 DEF GivesUpForAReason, Excuse
  <1>5. QED  BY <1>4 DEF ReasonInv

\* client_handshake sends its HELLO (handshake.cpp).
LEMMA ClientHelloInv ==
    ASSUME Inv, ClientHello
    PROVE  Inv'
  <1>1. /\ cpc = "hello" /\ cpc' = "ack" /\ toServer' = << HelloFrame >>
        /\ UNCHANGED <<env, spc, toClient, broken, hs, cRes, sRes, stream, sent, got, answers>>
    BY DEF ClientHello, HelloFrame
  <1>2. PhaseInv /\ FlightInv /\ AnswerInv /\ ReasonInv /\ BufferInv  BY DEF Inv
  <1>3. spc \in {"hello", "failed"} /\ toServer = << >>  BY <1>1, <1>2 DEF PhaseInv
  <1>4. /\ Version' = Version /\ Welcome' = Welcome /\ HelloFrame' = HelloFrame
        /\ ClientResult' = ClientResult /\ ServerResult' = ServerResult
        /\ AckFrame' = AckFrame /\ (Heard' <=> Heard)
    BY <1>1, Stable, StableAck
  <1>5. PhaseInv'  BY <1>1, <1>2, <1>3, <1>4 DEF PhaseInv, Before, After
  <1>6. FlightInv'
    <2>1. Dispatched'  BY <1>1, <1>2 DEF FlightInv, Dispatched
    <2>2. QED  BY <1>1, <1>2, <1>3, <2>1 DEF FlightInv
  <1>7. sent \in Seq(Message)  BY <1>2 DEF FlightInv
  <1>8. AnswerInv'  BY <1>1, <1>2, <1>7, AnswersStay
  <1>9. ReasonInv'
    <2>1. Prefix(sent, sent') /\ sent' \in Seq(Message)  BY <1>1, <1>7, PrefixFacts
    <2>2. ~Gone(cpc')  BY <1>1 DEF Gone
    <2>3. QED  BY <1>1, <2>1, <2>2, ReasonStays
  <1>10. BufferInv'
    <2>1. HelloFrame \in Frame  BY <1>2, HelloOutcome
    <2>2. QED  BY <1>1, <1>2, <2>1 DEF BufferInv
  <1>11. QED  BY <1>5, <1>6, <1>8, <1>9, <1>10 DEF Inv

\* client_handshake reads the answer: the AckOutcome lemma.
LEMMA ClientAckInv ==
    ASSUME Inv, ClientAck
    PROVE  Inv'
  <1>1. /\ cpc = "ack" /\ toClient # << >> /\ toClient' = Tail(toClient)
        /\ UNCHANGED <<env, spc, toServer, broken, hs, sRes, stream, sent, got, answers>>
    BY DEF ClientAck
  <1>2. PhaseInv /\ FlightInv /\ AnswerInv /\ ReasonInv /\ BufferInv  BY DEF Inv
  <1>3. toClient = << AckFrame >> /\ Heard /\ (Welcome => spc \in After)
    BY <1>1, <1>2 DEF PhaseInv
  <1>4. Head(toClient) = AckFrame /\ toClient' = << >>  BY <1>1, <1>3
  <1>5. PICK f : f = AckFrame  OBVIOUS
  <1>6. PICK a : a = decode_hello_ack(f.body)  OBVIOUS
  <1>7. /\ f \in Frame /\ f.type = "HelloAck" /\ read_frame_accepts(f, FALSE) /\ a.ok
        /\ AckAccepted(a) <=> Welcome /\ env.ctrusts
        /\ a.id = ServerId /\ a.eph = ServerEph /\ negotiate_version(env.cmax, a.max) = Version
    BY <1>2, <1>3, <1>5, <1>6, AckOutcome
  <1>8. \/ /\ Welcome /\ env.ctrusts /\ cpc' = "open" /\ cRes' = ClientResult
        \/ /\ ~(Welcome /\ env.ctrusts) /\ cpc' = "failed" /\ cRes' = None
    <2>1. MyHello.eph = ClientEph  BY <1>2, HelloParts
    <2>2. IF AckAccepted(a)
          THEN /\ cpc' = "open"
               /\ cRes' = [version |-> negotiate_version(env.cmax, a.max), peer |-> a.id,
                           rx |-> SessionKey("client", MyHello.eph, a.eph),
                           tx |-> SessionKey("server", MyHello.eph, a.eph)]
          ELSE cpc' = "failed" /\ cRes' = None
      BY <1>4, <1>5, <1>6, <1>7, Zenon DEF ClientAck
    <2>3. QED  BY <1>7, <2>1, <2>2 DEF ClientResult
  <1>9. /\ Version' = Version /\ Welcome' = Welcome /\ HelloFrame' = HelloFrame
        /\ ClientResult' = ClientResult /\ ServerResult' = ServerResult
        /\ AckFrame' = AckFrame /\ (Heard' <=> Heard)
    BY <1>1, Stable, StableAck
  <1>10. PhaseInv'  BY <1>1, <1>2, <1>3, <1>4, <1>8, <1>9 DEF PhaseInv, Before, After
  <1>11. FlightInv'  BY <1>1, <1>2, FlightStays
  <1>12. AnswerInv'
    <2>1. Answered'  BY <1>1, <1>2 DEF AnswerInv, Answered
    <2>2. 1 .. Len(toClient') = {}  BY <1>4
    <2>3. answers' \in Seq([id : Id, outcome : Outcomes])  BY <1>1, <1>2 DEF AnswerInv
    <2>4. QED  BY <2>1, <2>2, <2>3 DEF AnswerInv
  <1>13. ReasonInv'
    <2>1. sent \in Seq(Message)  BY <1>2 DEF FlightInv
    <2>2. Prefix(sent, sent') /\ sent' \in Seq(Message)  BY <1>1, <2>1, PrefixFacts
    <2>3. sent = << >>  BY <1>1, <1>2 DEF PhaseInv, Before
    <2>4. Gone(cpc') => Excuse'  BY <1>1, <1>8 DEF Gone, Excuse, Welcome
    <2>5. cpc' # "limited"  BY <1>8
    <2>6. QED  BY <1>1, <2>2, <2>3, <2>4, <2>5, ReasonStays
  <1>14. BufferInv'  BY <1>1, <1>2, <1>4 DEF BufferInv
  <1>15. QED  BY <1>10, <1>11, <1>12, <1>13, <1>14 DEF Inv

\* server_handshake reads the HELLO: the HelloOutcome lemma.
LEMMA ServerHelloInv ==
    ASSUME Inv, ServerHello
    PROVE  Inv'
  <1>1. /\ spc = "hello" /\ toServer # << >> /\ toServer' = Tail(toServer)
        /\ UNCHANGED <<env, cpc, toClient, broken, cRes, sRes, stream, sent, got, answers>>
    BY DEF ServerHello
  <1>2. PhaseInv /\ FlightInv /\ AnswerInv /\ ReasonInv /\ BufferInv  BY DEF Inv
  <1>3. /\ toServer = << HelloFrame >> /\ toClient = << >> /\ cpc \in {"ack", "failed"}
        /\ sent = << >> /\ got = << >>
    BY <1>1, <1>2 DEF PhaseInv, Before, After
  <1>4. Head(toServer) = HelloFrame /\ toServer' = << >>  BY <1>1, <1>3
  <1>5. PICK f : f = HelloFrame  OBVIOUS
  <1>6. PICK h : h = decode_hello(f.body)  OBVIOUS
  <1>7. /\ f.type = "Hello"
        /\ Welcome => read_frame_accepts(f, FALSE) /\ h.ok /\ HelloConsidered(h)
        /\ HelloConsidered(h) =>
             /\ h.id = ClientId /\ h.eph = ClientEph /\ h.nonce = ClientNonce
             /\ negotiate_version(env.smax, h.max) \in 1 .. 2
             /\ HelloTrusted(h) = Welcome
             /\ Welcome => negotiate_version(env.smax, h.max) = Version
    BY <1>2, <1>5, <1>6, HelloOutcome
  <1>8. IF read_frame_accepts(f, FALSE) /\ f.type = "Hello" /\ h.ok /\ HelloConsidered(h)
        THEN /\ spc' = "ack"
             /\ hs' = [version |-> negotiate_version(env.smax, h.max), trusted |-> HelloTrusted(h),
                       peer |-> h.id, eph |-> h.eph, nonce |-> h.nonce]
        ELSE spc' = "failed" /\ hs' = hs
    BY <1>4, <1>5, <1>6, Zenon DEF ServerHello
  <1>9. /\ Version' = Version /\ Welcome' = Welcome /\ HelloFrame' = HelloFrame
        /\ ClientResult' = ClientResult /\ ServerResult' = ServerResult
    BY <1>1, Stable
  <1>10. \/ spc' = "ack" /\ Heard'
         \/ spc' = "failed" /\ ~Welcome
    <2>1. CASE spc' = "ack"
      <3>1. PICK v : v = negotiate_version(env.smax, h.max)  OBVIOUS
      <3>2. /\ hs' = [version |-> v, trusted |-> Welcome, peer |-> ClientId,
                      eph |-> ClientEph, nonce |-> ClientNonce]
            /\ v \in 1 .. 2 /\ (Welcome => v = Version)
        BY <1>7, <1>8, <2>1, <3>1
      <3>3. Heard'  BY <1>9, <3>2 DEF Heard
      <3>4. QED  BY <2>1, <3>3
    <2>2. CASE spc' # "ack"  BY <1>7, <1>8, <2>2
    <2>3. QED  BY <2>1, <2>2
  <1>11. PhaseInv'  BY <1>1, <1>2, <1>3, <1>4, <1>9, <1>10 DEF PhaseInv, Before, After
  <1>12. FlightInv'
    <2>1. Dispatched'  BY <1>1, <1>2 DEF FlightInv, Dispatched
    <2>2. QED  BY <1>1, <1>2, <1>3, <1>4, <2>1 DEF FlightInv
  <1>13. sent \in Seq(Message)  BY <1>2 DEF FlightInv
  <1>14. AnswerInv'  BY <1>1, <1>2, <1>13, AnswersStay
  <1>15. ReasonInv'
    <2>1. Prefix(sent, sent') /\ sent' \in Seq(Message)  BY <1>1, <1>13, PrefixFacts
    <2>2. Gone(spc') => Excuse'  BY <1>1, <1>10 DEF Gone, Excuse, Welcome
    <2>3. cpc' # "limited"  BY <1>1, <1>3
    <2>4. QED  BY <1>1, <2>1, <2>2, <2>3, ReasonStays
  <1>16. BufferInv'  BY <1>1, <1>2, <1>4 DEF BufferInv
  <1>17. QED  BY <1>11, <1>12, <1>14, <1>15, <1>16 DEF Inv

\* server_handshake answers and lets the client in or not.
LEMMA ServerAckInv ==
    ASSUME Inv, ServerAck
    PROVE  Inv'
  <1>1. /\ spc = "ack" /\ toClient' = Append(toClient, AckFrame)
        /\ UNCHANGED <<env, cpc, toServer, broken, hs, cRes, stream, sent, got, answers>>
    BY DEF ServerAck, AckFrame
  <1>2. PhaseInv /\ FlightInv /\ AnswerInv /\ ReasonInv /\ BufferInv  BY DEF Inv
  <1>3. toClient = << >> /\ Heard /\ cpc \in {"ack", "failed"}  BY <1>1, <1>2 DEF PhaseInv, Before, After
  <1>4. toClient' = << AckFrame >>  BY <1>1, <1>3
  <1>5. \/ spc' = "open" /\ sRes' = ServerResult /\ Welcome
        \/ spc' = "failed" /\ sRes' = sRes /\ ~Welcome
    <2>1. MyAck.eph = ServerEph  BY <1>2, <1>3, AckParts
    <2>2. /\ hs.trusted = Welcome /\ hs.peer = ClientId /\ hs.eph = ClientEph
          /\ (Welcome => hs.version = Version)
      BY <1>3 DEF Heard
    <2>3. IF hs.trusted
          THEN /\ spc' = "open"
               /\ sRes' = [version |-> hs.version, peer |-> hs.peer,
                           rx |-> SessionKey("server", hs.eph, MyAck.eph),
                           tx |-> SessionKey("client", hs.eph, MyAck.eph)]
          ELSE spc' = "failed" /\ sRes' = sRes
      BY DEF ServerAck
    <2>4. QED  BY <2>1, <2>2, <2>3 DEF ServerResult
  <1>6. /\ Version' = Version /\ Welcome' = Welcome /\ HelloFrame' = HelloFrame
        /\ ClientResult' = ClientResult /\ ServerResult' = ServerResult
        /\ AckFrame' = AckFrame /\ (Heard' <=> Heard)
    BY <1>1, Stable, StableAck
  <1>7. PhaseInv'  BY <1>1, <1>2, <1>3, <1>4, <1>5, <1>6 DEF PhaseInv, Before, After
  <1>8. FlightInv'  BY <1>1, <1>2, FlightStays
  <1>9. AnswerInv'
    <2>1. Answered'  BY <1>1, <1>2 DEF AnswerInv, Answered
    <2>2. QED  BY <1>1, <1>2, <1>3, <2>1 DEF AnswerInv
  <1>10. ReasonInv'
    <2>1. sent \in Seq(Message)  BY <1>2 DEF FlightInv
    <2>2. Prefix(sent, sent') /\ sent' \in Seq(Message)  BY <1>1, <2>1, PrefixFacts
    <2>3. Gone(spc') => Excuse'  BY <1>1, <1>5 DEF Gone, Excuse, Welcome
    <2>4. cpc' # "limited" /\ spc # "limited"  BY <1>1, <1>3
    <2>5. QED  BY <1>1, <2>2, <2>3, <2>4, ReasonStays
  <1>11. BufferInv'
    <2>1. AckFrame \in Frame  BY <1>2, <1>3, AckOutcome
    <2>2. QED  BY <1>1, <1>2, <1>4, <2>1 DEF BufferInv
  <1>12. QED  BY <1>7, <1>8, <1>9, <1>10, <1>11 DEF Inv

\* The client ends: its peer is gone, or it has timed out, stopped or died.
LEMMA ClientEndsInv ==
    ASSUME Inv, ClientEnds
    PROVE  Inv'
  <1>1. /\ cpc \in {"hello", "ack", "open"} /\ cpc' = (IF cpc = "open" THEN "left" ELSE "failed")
        /\ (Gone(spc) /\ broken' = broken) \/ broken' = TRUE
        /\ UNCHANGED <<env, spc, toServer, toClient, hs, cRes, sRes, stream, sent, got, answers>>
    BY DEF ClientEnds
  <1>2. PhaseInv /\ FlightInv /\ AnswerInv /\ ReasonInv /\ BufferInv  BY DEF Inv
  <1>3. /\ Version' = Version /\ Welcome' = Welcome /\ HelloFrame' = HelloFrame
        /\ ClientResult' = ClientResult /\ ServerResult' = ServerResult
        /\ AckFrame' = AckFrame /\ (Heard' <=> Heard)
    BY <1>1, Stable, StableAck
  <1>4. PhaseInv'  BY <1>1, <1>2, <1>3 DEF PhaseInv, Before, After
  <1>5. FlightInv'  BY <1>1, <1>2, FlightStays
  <1>6. sent \in Seq(Message)  BY <1>2 DEF FlightInv
  <1>7. AnswerInv'
    <2>1. cpc' # "open"  BY <1>1
    <2>2. QED  BY <1>1, <1>2, <1>6, <2>1, AnswersStay
  <1>8. ReasonInv'
    <2>1. Prefix(sent, sent') /\ sent' \in Seq(Message)  BY <1>1, <1>6, PrefixFacts
    <2>2. Excuse'
      <3>1. CASE Gone(spc) /\ broken' = broken
        <4>1. Excuse  BY <1>2, <3>1 DEF ReasonInv, GivesUpForAReason, Excuse
        <4>2. QED  BY <1>1, <2>1, <3>1, <4>1, ExcuseStays
      <3>2. CASE broken' = TRUE  BY <3>2 DEF Excuse
      <3>3. QED  BY <1>1, <3>1, <3>2
    <2>3. cpc' # "limited"  BY <1>1
    <2>4. GivesUpForAReason'  BY <2>2 DEF GivesUpForAReason, Excuse
    <2>5. QED  BY <2>3, <2>4 DEF ReasonInv
  <1>9. BufferInv'  BY <1>1, <1>2 DEF BufferInv
  <1>10. QED  BY <1>4, <1>5, <1>7, <1>8, <1>9 DEF Inv

\* The host ends in the same ways.
LEMMA ServerEndsInv ==
    ASSUME Inv, ServerEnds
    PROVE  Inv'
  <1>1. /\ spc \in {"hello", "ack", "open"} /\ spc' = (IF spc = "open" THEN "left" ELSE "failed")
        /\ (Gone(cpc) /\ broken' = broken) \/ broken' = TRUE
        /\ UNCHANGED <<env, cpc, toServer, toClient, hs, cRes, sRes, stream, sent, got, answers>>
    BY DEF ServerEnds
  <1>2. PhaseInv /\ FlightInv /\ AnswerInv /\ ReasonInv /\ BufferInv  BY DEF Inv
  <1>3. /\ Version' = Version /\ Welcome' = Welcome /\ HelloFrame' = HelloFrame
        /\ ClientResult' = ClientResult /\ ServerResult' = ServerResult
        /\ AckFrame' = AckFrame /\ (Heard' <=> Heard)
    BY <1>1, Stable, StableAck
  <1>4. PhaseInv'  BY <1>1, <1>2, <1>3 DEF PhaseInv, Before, After
  <1>5. spc' # "ack" /\ spc' # "open" /\ spc # "limited"  BY <1>1
  <1>6. FlightInv'  BY <1>1, <1>2, <1>5, FlightStays
  <1>7. sent \in Seq(Message)  BY <1>2 DEF FlightInv
  <1>8. AnswerInv'  BY <1>1, <1>2, <1>5, <1>7, AnswersStay
  <1>9. ReasonInv'
    <2>1. Prefix(sent, sent') /\ sent' \in Seq(Message)  BY <1>1, <1>7, PrefixFacts
    <2>2. Excuse'
      <3>1. CASE Gone(cpc) /\ broken' = broken
        <4>1. Excuse  BY <1>2, <3>1 DEF ReasonInv, GivesUpForAReason, Excuse
        <4>2. QED  BY <1>1, <1>5, <2>1, <3>1, <4>1, ExcuseStays
      <3>2. CASE broken' = TRUE  BY <3>2 DEF Excuse
      <3>3. QED  BY <1>1, <3>1, <3>2
    <2>3. cpc' # "limited"  BY <1>1, <1>2, <1>5 DEF ReasonInv
    <2>4. GivesUpForAReason'  BY <2>2 DEF GivesUpForAReason, Excuse
    <2>5. QED  BY <2>3, <2>4 DEF ReasonInv
  <1>10. BufferInv'  BY <1>1, <1>2 DEF BufferInv
  <1>11. QED  BY <1>4, <1>6, <1>8, <1>9, <1>10 DEF Inv

\* A client that has come through sends under the agreed result.
LEMMA MaySendFacts ==
    ASSUME Inv, MaySend
    PROVE  /\ cpc = "open" /\ spc \in After /\ cRes = ClientResult
           /\ Len(sent) \in Nat /\ Len(sent) < MaxMsgs /\ MaxMsgs \in Nat
           /\ stream \in [id : 0 .. 1, seq : Nat, open : BOOLEAN, endpoint : Names \cup {<< >>}]
           /\ stream.seq <= Len(sent) /\ (stream.open => stream.endpoint \in Names)
  <1>1. cpc = "open" /\ Len(sent) < MaxMsgs  BY DEF MaySend
  <1>2. cRes = ClientResult /\ spc \in After  BY <1>1 DEF Inv, PhaseInv, After
  <1>3. Len(sent) \in Nat  BY DEF Inv, FlightInv
  <1>4. QED  BY <1>1, <1>2, <1>3, Powers DEF Inv, FlightInv

\* Sending a message: a request or a chunk.
LEMMA Sends ==
    ASSUME Inv, MaySend, NEW m \in Message, sent' = Append(sent, m),
           toServer' = Append(toServer, FrameOf(m)),
           stream' \in [id : 0 .. 1, seq : Nat, open : BOOLEAN, endpoint : Names \cup {<< >>}],
           stream'.seq <= Len(sent) + 1, stream'.open => stream'.endpoint \in Names,
           UNCHANGED <<env, cpc, spc, toClient, broken, hs, cRes, sRes, got, answers>>
    PROVE  Inv'
  <1>1. PhaseInv /\ FlightInv /\ AnswerInv /\ ReasonInv /\ BufferInv  BY DEF Inv
  <1>2. cpc = "open" /\ spc \in After /\ Len(sent) \in Nat /\ Len(sent) < MaxMsgs /\ MaxMsgs \in Nat
    BY MaySendFacts
  <1>3. /\ Version' = Version /\ Welcome' = Welcome /\ HelloFrame' = HelloFrame
        /\ ClientResult' = ClientResult /\ ServerResult' = ServerResult
        /\ AckFrame' = AckFrame /\ (Heard' <=> Heard)
    BY Stable, StableAck
  <1>4. sent \in Seq(Message) /\ got \in Seq(Message) /\ toServer \in Seq(Frame)
    BY <1>1 DEF FlightInv, BufferInv
  <1>5. FrameOf(m) \in Frame  BY <1>1, MessageFacts
  <1>6. /\ sent' \in Seq(Message) /\ Len(sent') = Len(sent) + 1 /\ sent'[Len(sent) + 1] = m
        /\ \A i \in 1 .. Len(sent) : sent'[i] = sent[i]
    BY <1>4, Added
  <1>7. /\ toServer' \in Seq(Frame) /\ Len(toServer) \in Nat /\ Len(toServer') = Len(toServer) + 1
        /\ toServer'[Len(toServer) + 1] = FrameOf(m)
        /\ \A i \in 1 .. Len(toServer) : toServer'[i] = toServer[i]
    BY <1>4, <1>5, Added
  <1>8. Prefix(sent, sent')  BY <1>4, PrefixFacts
  <1>9. PhaseInv'  BY <1>1, <1>2, <1>3 DEF PhaseInv, Before, After
  <1>10. FlightInv'
    <2>1. Len(got) \in Nat /\ Len(got) <= Len(sent) /\ \A i \in DOMAIN got : got[i] = sent[i]
      BY <1>1, <1>4 DEF FlightInv, Dispatched
    <2>2. Dispatched'
      <3>1. ASSUME NEW i \in DOMAIN got  PROVE  got[i] = sent'[i]
        <4>1. i \in 1 .. Len(sent)  BY <1>2, <1>4, <2>1
        <4>2. QED  BY <1>6, <2>1, <4>1
      <3>2. Len(got) <= Len(sent')  BY <1>2, <1>6, <2>1
      <3>3. QED  BY <3>1, <3>2 DEF Dispatched
    <2>3. ASSUME spc' = "ack" \/ spc' = "open"
          PROVE  /\ Len(sent') = Len(got') + Len(toServer')
                 /\ \A i \in 1 .. Len(toServer') : toServer'[i] = FrameOf(sent[Len(got) + i])'
      <3>1. /\ Len(sent) = Len(got) + Len(toServer)
            /\ \A i \in 1 .. Len(toServer) : toServer[i] = FrameOf(sent[Len(got) + i])
        BY <1>1, <2>3 DEF FlightInv
      <3>2. Len(sent') = Len(got') + Len(toServer')  BY <1>6, <1>7, <2>1, <3>1
      <3>3. ASSUME NEW i \in 1 .. Len(toServer')
            PROVE  toServer'[i] = FrameOf(sent[Len(got) + i])'
        <4>1. PICK x : x = sent'[Len(got) + i]  OBVIOUS
        <4>2. toServer'[i] = FrameOf(x)
          <5>1. CASE i = Len(toServer) + 1
            <6>1. Len(got) + i = Len(sent) + 1  BY <1>7, <2>1, <3>1, <5>1
            <6>2. x = m  BY <1>6, <4>1, <6>1
            <6>3. QED  BY <1>7, <5>1, <6>2
          <5>2. CASE i \in 1 .. Len(toServer)
            <6>1. Len(got) + i \in 1 .. Len(sent)  BY <1>7, <2>1, <3>1, <5>2
            <6>2. x = sent[Len(got) + i]  BY <1>6, <4>1, <6>1
            <6>3. QED  BY <1>7, <3>1, <5>2, <6>2
          <5>3. QED  BY <1>7, <5>1, <5>2
        <4>3. FrameOf(x)' = FrameOf(x)  BY Stable
        <4>4. FrameOf(sent[Len(got) + i])' = FrameOf(x)'  BY <4>1 DEF FrameOf, Body
        <4>5. QED  BY <4>2, <4>3, <4>4
      <3>4. QED  BY <3>2, <3>3
    <2>4. Len(sent') <= MaxMsgs /\ stream'.seq <= Len(sent')  BY <1>2, <1>6
    <2>5. QED  BY <1>4, <1>6, <2>2, <2>3, <2>4 DEF FlightInv
  <1>11. AnswerInv'
    <2>1. ASSUME NEW i \in 1 .. Len(toClient')
          PROVE  IsReply(toClient[i])' \/ IsReason(toClient[i])'
      <3>1. PICK f : f = toClient[i]  OBVIOUS
      <3>2. IsReply(f) \/ IsReason(f)  BY <1>1, <1>2, <3>1 DEF AnswerInv
      <3>3. IsReply(f)' \/ IsReason(f)'  BY <1>1, <1>8, <3>2, AnswerStays
      <3>4. toClient'[i] = f  BY <3>1
      <3>5. QED  BY <3>3, <3>4 DEF IsReply, IsReason
    <2>2. Answered'
      <3>1. ASSUME NEW i \in DOMAIN answers
            PROVE  \E j \in DOMAIN sent' :
                     /\ sent'[j].id = answers[i].id /\ ~sent'[j].oneway
                     /\ answers[i].outcome = Outcome(Status(sent'[j].endpoint), sent'[j].data)
        <4>1. PICK j \in DOMAIN sent :
                /\ sent[j].id = answers[i].id /\ ~sent[j].oneway
                /\ answers[i].outcome = Outcome(Status(sent[j].endpoint), sent[j].data)
          BY <1>1 DEF AnswerInv, Answered
        <4>2. j \in 1 .. Len(sent)  BY <1>4
        <4>3. j \in DOMAIN sent' /\ sent'[j] = sent[j]  BY <1>2, <1>6, <4>2
        <4>4. QED  BY <4>1, <4>3
      <3>2. QED  BY <3>1 DEF Answered
    <2>3. QED  BY <1>1, <2>1, <2>2 DEF AnswerInv
  <1>12. ReasonInv'
    <2>1. cpc' # "limited"  BY <1>2
    <2>2. QED  BY <1>6, <1>8, <2>1, ReasonStays
  <1>13. BufferInv'  BY <1>1, <1>7 DEF BufferInv
  <1>14. QED  BY <1>9, <1>10, <1>11, <1>12, <1>13 DEF Inv

\* Client::get and Client::send.
LEMMA RequestInv ==
    ASSUME Inv, NEW e \in Names, NEW d \in Datas, NEW w \in BOOLEAN, Request(e, d, w)
    PROVE  Inv'
  <1>1. PICK m : m = [ok |-> TRUE, id |-> <<"id", Len(sent) + 1>>, oneway |-> w,
                      endpoint |-> e, data |-> d]
    OBVIOUS
  <1>2. /\ MaySend /\ sent' = Append(sent, m)
        /\ toServer' = Append(toServer, Sealed("Request", encode_request(m), cRes))
        /\ UNCHANGED <<env, cpc, spc, toClient, broken, hs, cRes, sRes, stream, got, answers>>
    BY <1>1 DEF Request
  <1>3. /\ cRes = ClientResult /\ Len(sent) \in Nat /\ Len(sent) < MaxMsgs /\ MaxMsgs \in Nat
        /\ stream \in [id : 0 .. 1, seq : Nat, open : BOOLEAN, endpoint : Names \cup {<< >>}]
        /\ stream.seq <= Len(sent) /\ (stream.open => stream.endpoint \in Names)
    BY <1>2, MaySendFacts
  <1>4. m \in RequestMsg
    <2>1. <<"id", Len(sent) + 1>> \in Id  BY <1>3 DEF Id
    <2>2. QED  BY <1>1, <2>1 DEF RequestMsg
  <1>5. m \in Message /\ ~("seq" \in DOMAIN m)  BY <1>4, Kinds
  <1>6. FrameOf(m) = Sealed("Request", encode_request(m), cRes)  BY <1>3, <1>5 DEF FrameOf, Body
  <1>7. stream' = stream /\ stream.seq <= Len(sent) + 1
    <2>1. stream.seq \in Nat  BY <1>3
    <2>2. QED  BY <1>2, <1>3, <2>1
  <1>8. QED  BY <1>2, <1>3, <1>5, <1>6, <1>7, Sends

\* OutputStream::write and finish.
LEMMA StreamWriteInv ==
    ASSUME Inv, NEW d \in Datas, NEW last \in BOOLEAN, StreamWrite(d, last)
    PROVE  Inv'
  <1>1. PICK m : m = [ok |-> TRUE, id |-> <<"id", 0>>, seq |-> stream.seq, is_last |-> last,
                      endpoint |-> stream.endpoint, data |-> d]
    OBVIOUS
  <1>2. /\ MaySend /\ stream.open /\ sent' = Append(sent, m)
        /\ toServer' = Append(toServer, Sealed("StreamChunk", encode_stream_chunk(m), cRes))
        /\ stream' = [stream EXCEPT !.seq = @ + 1, !.open = ~last]
        /\ UNCHANGED <<env, cpc, spc, toClient, broken, hs, cRes, sRes, got, answers>>
    BY <1>1 DEF StreamWrite
  <1>3. /\ cRes = ClientResult /\ Len(sent) \in Nat /\ Len(sent) < MaxMsgs /\ MaxMsgs \in Nat
        /\ stream \in [id : 0 .. 1, seq : Nat, open : BOOLEAN, endpoint : Names \cup {<< >>}]
        /\ stream.seq <= Len(sent) /\ (stream.open => stream.endpoint \in Names)
    BY <1>2, MaySendFacts
  <1>4. stream.endpoint \in Names /\ stream.seq \in Nat /\ stream.seq \in 0 .. MaxMsgs
    BY <1>2, <1>3
  <1>5. m \in ChunkMsg
    <2>1. <<"id", 0>> \in Id  BY <1>3 DEF Id
    <2>2. QED  BY <1>1, <1>4, <2>1 DEF ChunkMsg
  <1>6. m \in Message /\ "seq" \in DOMAIN m  BY <1>5, Kinds
  <1>7. FrameOf(m) = Sealed("StreamChunk", encode_stream_chunk(m), cRes)  BY <1>3, <1>6 DEF FrameOf, Body
  <1>8. /\ stream' \in [id : 0 .. 1, seq : Nat, open : BOOLEAN, endpoint : Names \cup {<< >>}]
        /\ stream'.seq = stream.seq + 1 /\ stream'.endpoint = stream.endpoint
    <2>1. PICK o \in BOOLEAN : o = ~last  OBVIOUS
    <2>2. stream' = [stream EXCEPT !.seq = @ + 1, !.open = o]  BY <1>2, <2>1
    <2>3. stream'.seq = stream.seq + 1 /\ stream'.endpoint = stream.endpoint  BY <1>3, <2>2
    <2>4. PICK q \in Nat : q = stream.seq + 1  BY <1>4
    <2>5. stream' = [stream EXCEPT !.seq = q, !.open = o]  BY <1>3, <2>2, <2>4
    <2>6. stream' \in [id : 0 .. 1, seq : Nat, open : BOOLEAN, endpoint : Names \cup {<< >>}]
      BY <1>3, <2>1, <2>4, <2>5
    <2>7. QED  BY <2>3, <2>6
  <1>9. stream'.seq <= Len(sent) + 1 /\ stream'.endpoint \in Names  BY <1>3, <1>4, <1>8
  <1>10. QED  BY <1>2, <1>6, <1>7, <1>8, <1>9, Sends

\* A stream is opened without a frame.
LEMMA OpenStreamInv ==
    ASSUME Inv, NEW e \in Names, OpenStream(e)
    PROVE  Inv'
  <1>1. /\ stream' = [id |-> 1, seq |-> 0, open |-> TRUE, endpoint |-> e]
        /\ UNCHANGED <<env, cpc, spc, toServer, toClient, broken, hs, cRes, sRes, sent, got, answers>>
    BY DEF OpenStream
  <1>2. PhaseInv /\ FlightInv /\ AnswerInv /\ ReasonInv /\ BufferInv  BY DEF Inv
  <1>3. /\ Version' = Version /\ Welcome' = Welcome /\ HelloFrame' = HelloFrame
        /\ ClientResult' = ClientResult /\ ServerResult' = ServerResult
        /\ AckFrame' = AckFrame /\ (Heard' <=> Heard)
    BY <1>1, Stable, StableAck
  <1>4. PhaseInv'  BY <1>1, <1>2, <1>3 DEF PhaseInv, Before, After
  <1>5. sent \in Seq(Message)  BY <1>2 DEF FlightInv
  <1>6. FlightInv'
    <2>1. stream' \in [id : 0 .. 1, seq : Nat, open : BOOLEAN, endpoint : Names \cup {<< >>}]
          /\ stream'.seq = 0 /\ stream'.endpoint \in Names
      BY <1>1
    <2>2. stream'.seq <= Len(sent')  BY <1>1, <1>5, <2>1
    <2>3. Dispatched'  BY <1>1, <1>2 DEF FlightInv, Dispatched
    <2>4. ASSUME spc' = "ack" \/ spc' = "open", NEW i \in 1 .. Len(toServer)
          PROVE  toServer'[i] = FrameOf(sent[Len(got) + i])'
      <3>1. PICK m : m = sent[Len(got) + i]  OBVIOUS
      <3>2. toServer[i] = FrameOf(m)  BY <1>1, <1>2, <2>4, <3>1 DEF FlightInv
      <3>3. FrameOf(m)' = FrameOf(m)  BY <1>1, Stable
      <3>4. m = sent'[Len(got') + i]  BY <1>1, <3>1
      <3>5. FrameOf(sent[Len(got) + i])' = FrameOf(m)'  BY <3>4 DEF FrameOf, Body
      <3>6. QED  BY <1>1, <3>2, <3>3, <3>5
    <2>5. QED  BY <1>1, <1>2, <2>1, <2>2, <2>3, <2>4 DEF FlightInv
  <1>7. AnswerInv'  BY <1>1, <1>2, <1>5, AnswersStay
  <1>8. ReasonInv'
    <2>1. Prefix(sent, sent') /\ sent' \in Seq(Message)  BY <1>1, <1>5, PrefixFacts
    <2>2. cpc' = "limited" => spc' = "limited"  BY <1>1, <1>2 DEF ReasonInv
    <2>3. QED  BY <1>1, <2>1, <2>2, ReasonStays
  <1>9. BufferInv'  BY <1>1, <1>2 DEF BufferInv
  <1>10. QED  BY <1>4, <1>6, <1>7, <1>8, <1>9 DEF Inv

\* The frame that the host reads next is that of the first message that it
\* has not decoded.
LEMMA NextFrame ==
    ASSUME Inv, spc = "open", toServer # << >>
    PROVE  \E m \in Message :
             /\ Len(got) + 1 \in 1 .. Len(sent) /\ m = sent[Len(got) + 1]
             /\ Head(toServer) = FrameOf(m)
             /\ cpc \in After /\ cRes = ClientResult /\ sRes = ServerResult
  <1>1. PhaseInv /\ FlightInv /\ BufferInv  BY DEF Inv
  <1>2. /\ sent \in Seq(Message) /\ got \in Seq(Message) /\ toServer \in Seq(Frame)
        /\ Len(sent) = Len(got) + Len(toServer)
        /\ \A i \in 1 .. Len(toServer) : toServer[i] = FrameOf(sent[Len(got) + i])
    BY <1>1 DEF FlightInv, BufferInv
  <1>3. PICK n \in Nat : n = Len(got)  BY <1>2
  <1>4. PICK k \in Nat : k = Len(toServer) /\ k >= 1  BY <1>2, Taken
  <1>5. Head(toServer) = toServer[1]  BY <1>2, Taken
  <1>6. n + 1 \in 1 .. Len(sent)  BY <1>2, <1>3, <1>4
  <1>7. sent[n + 1] \in Message /\ sent # << >>  BY <1>2, <1>6
  <1>8. toServer[1] = FrameOf(sent[n + 1])  BY <1>2, <1>3, <1>4
  <1>9. sRes = ServerResult  BY <1>1 DEF PhaseInv, After
  <1>10. cpc \in After /\ cRes = ClientResult  BY <1>1, <1>7 DEF PhaseInv
  <1>11. QED  BY <1>3, <1>5, <1>6, <1>7, <1>8, <1>9, <1>10

\* The host reads the next frame: it is the message, or it cannot be read.
LEMMA ServerFrameInv ==
    ASSUME Inv, ServerFrame
    PROVE  Inv'
  <1>1. /\ spc = "open" /\ toServer # << >> /\ toServer' = Tail(toServer)
        /\ UNCHANGED <<env, cpc, broken, hs, cRes, sRes, stream, sent, answers>>
    BY DEF ServerFrame
  <1>2. PhaseInv /\ FlightInv /\ AnswerInv /\ ReasonInv /\ BufferInv  BY DEF Inv
  <1>3. PICK m \in Message :
          /\ Len(got) + 1 \in 1 .. Len(sent) /\ m = sent[Len(got) + 1]
          /\ Head(toServer) = FrameOf(m)
          /\ cpc \in After /\ cRes = ClientResult /\ sRes = ServerResult
    BY <1>1, NextFrame
  <1>4. PICK f : f = FrameOf(m)  OBVIOUS
  <1>5. /\ f.type = (IF "seq" \in DOMAIN m THEN "StreamChunk" ELSE "Request")
        /\ Opens(f, ServerResult) <=> Fits(m)
        /\ Fits(m) /\ Len(m.endpoint) < Base => Decoded(f) = m
        /\ Fits(m) /\ Len(m.endpoint) >= Base => Decoded(f) = Bad
        /\ m.ok = TRUE /\ m.endpoint \in Seq(Letters)
    BY <1>2, <1>3, <1>4, MessageFacts
  <1>6. Len(m.endpoint) \in Nat /\ Base \in Nat  BY <1>5, Powers
  <1>7. Len(m.endpoint) < Base \/ Len(m.endpoint) >= Base  BY <1>6
  <1>8. IF Opens(f, sRes) /\ Decoded(f).ok
        THEN /\ got' = Append(got, Decoded(f)) /\ spc' = spc
             /\ toClient' = IF f.type = "Request" /\ ~Decoded(f).oneway
                            THEN Append(toClient, Sealed("Response", encode_response(Reply(Decoded(f))), sRes))
                            ELSE toClient
        ELSE spc' = "left" /\ UNCHANGED <<got, toClient>>
    BY <1>3, <1>4, Zenon DEF ServerFrame
  <1>9. ~Bad.ok  BY DEF Bad
  <1>10. \/ /\ Fits(m) /\ got' = Append(got, m) /\ spc' = "open"
            /\ toClient' = IF f.type = "Request" /\ ~m.oneway
                           THEN Append(toClient, Sealed("Response", encode_response(Reply(m)), ServerResult))
                           ELSE toClient
         \/ /\ spc' = "left" /\ got' = got /\ toClient' = toClient
            /\ ~Fits(m) \/ Len(m.endpoint) >= Base
    <2>1. CASE Fits(m) /\ Len(m.endpoint) < Base
      <3>1. Opens(f, sRes) /\ Decoded(f) = m /\ Decoded(f).ok  BY <1>3, <1>5, <2>1
      <3>2. QED  BY <1>1, <1>3, <1>8, <2>1, <3>1
    <2>2. CASE ~Fits(m)
      <3>1. ~Opens(f, sRes)  BY <1>3, <1>5, <2>2
      <3>2. QED  BY <1>8, <2>2, <3>1
    <2>3. CASE Fits(m) /\ Len(m.endpoint) >= Base
      <3>1. ~Decoded(f).ok  BY <1>5, <1>9, <2>3
      <3>2. QED  BY <1>8, <2>3, <3>1
    <2>4. QED  BY <1>7, <2>1, <2>2, <2>3
  <1> DEFINE R == Sealed("Response", encode_response(Reply(m)), ServerResult)
  <1>11. /\ Version' = Version /\ Welcome' = Welcome /\ HelloFrame' = HelloFrame
         /\ ClientResult' = ClientResult /\ ServerResult' = ServerResult
         /\ AckFrame' = AckFrame /\ (Heard' <=> Heard)
    BY <1>1, Stable, StableAck
  <1>12. /\ sent \in Seq(Message) /\ got \in Seq(Message)
         /\ toServer \in Seq(Frame) /\ toClient \in Seq(Frame)
         /\ Len(got) <= Len(sent) /\ \A i \in DOMAIN got : got[i] = sent[i]
    BY <1>2 DEF FlightInv, BufferInv, Dispatched
  <1>13. PhaseInv'
    <2>1. spc' \in {"open", "left"}  BY <1>10
    <2>2. QED  BY <1>1, <1>2, <1>3, <1>11, <2>1 DEF PhaseInv, Before, After
  <1>14. /\ toServer' \in Seq(Frame) /\ Len(toServer) \in Nat /\ Len(toServer') = Len(toServer) - 1
         /\ \A i \in 1 .. Len(toServer') : toServer'[i] = toServer[i + 1] /\ i + 1 \in 1 .. Len(toServer)
    BY <1>1, <1>12, Taken
  <1>15. FlightInv'
    <2>1. CASE spc' = "left"
      <3>1. got' = got  BY <1>10, <2>1
      <3>2. Dispatched'  BY <1>1, <1>2, <3>1 DEF FlightInv, Dispatched
      <3>3. QED  BY <1>1, <1>2, <2>1, <3>1, <3>2 DEF FlightInv
    <2>2. CASE spc' = "open"
      <3>1. got' = Append(got, m)  BY <1>10, <2>2
      <3>2. /\ got' \in Seq(Message) /\ Len(got) \in Nat /\ Len(got') = Len(got) + 1
            /\ got'[Len(got) + 1] = m /\ \A i \in 1 .. Len(got) : got'[i] = got[i]
        BY <1>12, <3>1, Added
      <3>3. Dispatched'
        <4>1. ASSUME NEW i \in DOMAIN got'  PROVE  got'[i] = sent[i]
          <5>1. i \in 1 .. Len(got) \/ i = Len(got) + 1  BY <3>2
          <5>2. ASSUME i \in 1 .. Len(got)  PROVE  got'[i] = sent[i]
            BY <1>12, <3>2, <5>2
          <5>3. ASSUME i = Len(got) + 1  PROVE  got'[i] = sent[i]
            BY <1>3, <3>2, <5>3
          <5>4. QED  BY <5>1, <5>2, <5>3
        <4>2. Len(got') <= Len(sent')  BY <1>1, <1>3, <3>2
        <4>3. QED  BY <1>1, <4>1, <4>2 DEF Dispatched
      <3>4. /\ Len(sent) = Len(got) + Len(toServer)
            /\ \A i \in 1 .. Len(toServer) : toServer[i] = FrameOf(sent[Len(got) + i])
        BY <1>1, <1>2 DEF FlightInv
      <3>5. Len(sent') = Len(got') + Len(toServer')  BY <1>1, <1>14, <3>2, <3>4
      <3>6. ASSUME NEW i \in 1 .. Len(toServer')
            PROVE  toServer'[i] = FrameOf(sent[Len(got) + i])'
        <4>1. PICK x : x = sent'[Len(got') + i]  OBVIOUS
        <4>2. Len(got') + i = Len(got) + (i + 1)  BY <1>14, <3>2
        <4>3. x = sent[Len(got) + (i + 1)]  BY <1>1, <4>1, <4>2
        <4>4. toServer'[i] = FrameOf(x)  BY <1>14, <3>4, <4>3
        <4>5. FrameOf(x)' = FrameOf(x)  BY <1>1, Stable
        <4>6. FrameOf(sent[Len(got) + i])' = FrameOf(x)'  BY <4>1 DEF FrameOf, Body
        <4>7. QED  BY <4>4, <4>5, <4>6
      <3>7. QED  BY <1>1, <1>2, <3>2, <3>3, <3>5, <3>6 DEF FlightInv
    <2>3. QED  BY <1>10, <2>1, <2>2
  <1>16. toClient' = toClient \/ (toClient' = Append(toClient, R) /\ R \in Frame /\ IsReply(R))
    <2>1. CASE Fits(m) /\ f.type = "Request" /\ ~m.oneway
      <3>1. m \in RequestMsg  BY <1>5, <2>1, Kinds DEF Message
      <3>2. R \in Frame  BY <1>2, <2>1, <3>1, ReplyFacts
      <3>3. IsReply(R)  BY <1>3, <2>1, <3>1 DEF IsReply
      <3>4. QED  BY <1>10, <2>1, <3>2, <3>3
    <2>2. QED  BY <1>10, <2>1
  <1> HIDE DEF R
  <1>17. Prefix(sent, sent')  BY <1>1, <1>12, PrefixFacts
  <1>18. AnswerInv'
    <2>1. ASSUME cpc' = "open", NEW i \in 1 .. Len(toClient')
          PROVE  IsReply(toClient[i])' \/ IsReason(toClient[i])'
      <3>1. PICK g : g = toClient'[i]  OBVIOUS
      <3>2. IsReply(g) \/ IsReason(g)
        <4>1. ASSUME toClient' = toClient  PROVE  IsReply(g) \/ IsReason(g)
          BY <1>1, <1>2, <2>1, <3>1, <4>1 DEF AnswerInv
        <4>2. ASSUME toClient' = Append(toClient, R), R \in Frame, IsReply(R)
              PROVE  IsReply(g) \/ IsReason(g)
          <5>1. /\ Len(toClient) \in Nat /\ Len(toClient') = Len(toClient) + 1
                /\ toClient'[Len(toClient) + 1] = R
                /\ \A j \in 1 .. Len(toClient) : toClient'[j] = toClient[j]
            BY <1>12, <4>2, Added
          <5>2. CASE i = Len(toClient) + 1
            <6>1. g = R  BY <3>1, <5>1, <5>2
            <6>2. QED  BY <4>2, <6>1
          <5>3. CASE i \in 1 .. Len(toClient)
            <6>1. g = toClient[i]  BY <3>1, <5>1, <5>3
            <6>2. QED  BY <1>1, <1>2, <2>1, <5>3, <6>1 DEF AnswerInv
          <5>4. QED  BY <5>1, <5>2, <5>3
        <4>3. QED  BY <1>16, <4>1, <4>2
      <3>3. IsReply(g)' \/ IsReason(g)'  BY <1>1, <1>2, <1>17, <3>2, AnswerStays
      <3>4. QED  BY <3>1, <3>3 DEF IsReply, IsReason
    <2>2. Answered'  BY <1>1, <1>2 DEF AnswerInv, Answered
    <2>3. QED  BY <1>1, <1>2, <2>1, <2>2 DEF AnswerInv
  <1>19. ReasonInv'
    <2>1. Gone(spc') => Excuse'
      <3>1. HAVE Gone(spc')
      <3>2. ~Fits(m) \/ Len(m.endpoint) >= Base  BY <1>10, <3>1 DEF Gone
      <3>3. Excuse  BY <1>2, <1>3, <3>2, Undecodable
      <3>4. QED  BY <1>1, <1>12, <1>17, <3>3, ExcuseStays
    <2>2. cpc' # "limited"  BY <1>1, <1>2 DEF ReasonInv
    <2>3. QED  BY <1>1, <1>12, <1>17, <2>1, <2>2, ReasonStays
  <1>20. BufferInv'
    <2>1. toClient' \in Seq(Frame)  BY <1>12, <1>16, Added
    <2>2. QED  BY <1>14, <2>1 DEF BufferInv
  <1>21. QED  BY <1>13, <1>15, <1>18, <1>19, <1>20 DEF Inv

\* The host answers a request too many with the reason and leaves.
LEMMA ServerLimitsInv ==
    ASSUME Inv, ServerLimits
    PROVE  Inv'
  <1> DEFINE R == Sealed("Error", encode_error([reason |-> kErrRateLimited, message |-> << >>]), ServerResult)
  <1>1. /\ spc = "open" /\ toServer # << >> /\ toServer' = Tail(toServer) /\ spc' = "limited"
        /\ UNCHANGED <<env, cpc, broken, hs, cRes, sRes, stream, sent, got, answers>>
    BY DEF ServerLimits
  <1>2. PhaseInv /\ FlightInv /\ AnswerInv /\ ReasonInv /\ BufferInv  BY DEF Inv
  <1>3. cpc \in After /\ cRes = ClientResult /\ sRes = ServerResult  BY <1>1, NextFrame
  <1>4. toClient' = Append(toClient, R)  BY <1>3 DEF ServerLimits
  <1>5. R \in Frame  BY <1>2, ReasonFacts
  <1>6. /\ Version' = Version /\ Welcome' = Welcome /\ HelloFrame' = HelloFrame
        /\ ClientResult' = ClientResult /\ ServerResult' = ServerResult
        /\ AckFrame' = AckFrame /\ (Heard' <=> Heard)
    BY <1>1, Stable, StableAck
  <1> HIDE DEF R
  <1>7. PhaseInv'  BY <1>1, <1>2, <1>3, <1>6 DEF PhaseInv, Before, After
  <1>8. FlightInv'
    <2>1. Dispatched'  BY <1>1, <1>2 DEF FlightInv, Dispatched
    <2>2. QED  BY <1>1, <1>2, <2>1 DEF FlightInv
  <1>9. sent \in Seq(Message) /\ toClient \in Seq(Frame) /\ toServer \in Seq(Frame)
    BY <1>2 DEF FlightInv, BufferInv
  <1>10. Prefix(sent, sent')  BY <1>1, <1>9, PrefixFacts
  <1>11. /\ toClient' \in Seq(Frame) /\ Len(toClient) \in Nat /\ Len(toClient') = Len(toClient) + 1
         /\ toClient'[Len(toClient) + 1] = R
         /\ \A j \in 1 .. Len(toClient) : toClient'[j] = toClient[j]
    BY <1>4, <1>5, <1>9, Added
  <1>12. AnswerInv'
    <2>1. ASSUME cpc' = "open", NEW i \in 1 .. Len(toClient')
          PROVE  IsReply(toClient[i])' \/ IsReason(toClient[i])'
      <3>1. PICK g : g = toClient'[i]  OBVIOUS
      <3>2. IsReply(g)' \/ IsReason(g)'
        <4>1. CASE i = Len(toClient) + 1
          <5>1. PICK r : r = R  OBVIOUS
          <5>2. g = r  BY <1>11, <3>1, <4>1, <5>1
          <5>3. IsReason(r)'  BY <1>1, <1>6, <5>1 DEF IsReason, R
          <5>4. QED  BY <5>2, <5>3
        <4>2. CASE i \in 1 .. Len(toClient)
          <5>1. g = toClient[i]  BY <1>11, <3>1, <4>2
          <5>2. IsReply(g) \/ IsReason(g)  BY <1>1, <1>2, <2>1, <4>2, <5>1 DEF AnswerInv
          <5>3. QED  BY <1>1, <1>2, <1>10, <5>2, AnswerStays
        <4>3. QED  BY <1>11, <4>1, <4>2
      <3>3. QED  BY <3>1, <3>2 DEF IsReply, IsReason
    <2>2. Answered'  BY <1>1, <1>2 DEF AnswerInv, Answered
    <2>3. QED  BY <1>1, <1>2, <2>1, <2>2 DEF AnswerInv
  <1>13. ReasonInv'
    <2>1. Excuse'  BY <1>1 DEF Excuse
    <2>2. GivesUpForAReason'  BY <2>1 DEF GivesUpForAReason, Excuse
    <2>3. QED  BY <1>1, <2>2 DEF ReasonInv
  <1>14. BufferInv'
    <2>1. toServer' \in Seq(Frame)  BY <1>1, <1>9, Taken
    <2>2. QED  BY <1>11, <2>1 DEF BufferInv
  <1>15. QED  BY <1>7, <1>8, <1>12, <1>13, <1>14 DEF Inv

\* The client reads the next frame: an answer or the reason.
LEMMA ClientFrameInv ==
    ASSUME Inv, ClientFrame
    PROVE  Inv'
  <1>1. /\ cpc = "open" /\ toClient # << >> /\ toClient' = Tail(toClient)
        /\ UNCHANGED <<env, spc, toServer, broken, hs, cRes, sRes, stream, sent, got>>
    BY DEF ClientFrame
  <1>2. PhaseInv /\ FlightInv /\ AnswerInv /\ ReasonInv /\ BufferInv  BY DEF Inv
  <1>3. cRes = ClientResult /\ spc \in After  BY <1>1, <1>2 DEF PhaseInv, After
  <1>4. sent \in Seq(Message) /\ toClient \in Seq(Frame) /\ toServer \in Seq(Frame)
        /\ answers \in Seq([id : Id, outcome : Outcomes]) /\ Answered
    BY <1>2 DEF FlightInv, BufferInv, AnswerInv
  <1>5. /\ toClient' \in Seq(Frame) /\ Len(toClient) \in Nat /\ Len(toClient) >= 1
        /\ Head(toClient) = toClient[1] /\ Len(toClient') = Len(toClient) - 1
        /\ \A i \in 1 .. Len(toClient') : toClient'[i] = toClient[i + 1] /\ i + 1 \in 1 .. Len(toClient)
    BY <1>1, <1>4, Taken
  <1>6. PICK f : f = Head(toClient)  OBVIOUS
  <1>7. PICK r : r = decode_response(Plain(f))  OBVIOUS
  <1>8. PICK x : x = decode_error(Plain(f))  OBVIOUS
  <1>9. /\ cpc' = (CASE ~Opens(f, cRes) -> "left"
                     [] Opens(f, cRes) /\ f.type = "Response" -> IF r.ok THEN cpc ELSE "left"
                     [] OTHER -> IF x.ok /\ x.reason = kErrRateLimited THEN "limited" ELSE "left")
        /\ answers' = IF Opens(f, cRes) /\ f.type = "Response" /\ r.ok
                      THEN Append(answers, [id |-> r.id, outcome |-> Outcome(r.status, r.data)])
                      ELSE answers
    BY <1>6, <1>7, <1>8, Zenon DEF ClientFrame
  <1>10. IsReply(f) \/ IsReason(f)
    <2>1. f = toClient[1] /\ 1 \in 1 .. Len(toClient)  BY <1>5, <1>6
    <2>2. QED  BY <1>1, <1>2, <2>1 DEF AnswerInv
  <1>11. \/ /\ cpc' = "open"
            /\ \E j \in 1 .. Len(sent) :
                 /\ sent[j] \in RequestMsg /\ ~sent[j].oneway
                 /\ Outcome(Status(sent[j].endpoint), sent[j].data) \in Outcomes
                 /\ answers' = Append(answers, [id |-> sent[j].id,
                                                outcome |-> Outcome(Status(sent[j].endpoint), sent[j].data)])
         \/ cpc' = "limited" /\ spc = "limited" /\ answers' = answers
    <2>1. CASE IsReply(f)
      <3>1. PICK j \in 1 .. Len(sent) :
              /\ sent[j] \in RequestMsg /\ ~sent[j].oneway /\ Fits(sent[j])
              /\ f = Sealed("Response", encode_response(Reply(sent[j])), ServerResult)
        BY <2>1 DEF IsReply
      <3>2. PICK m \in RequestMsg : m = sent[j]  BY <3>1
      <3>3. /\ f.type = "Response" /\ Opens(f, ClientResult)
            /\ decode_response(Plain(f)) = [ok |-> TRUE, id |-> m.id, status |-> Status(m.endpoint),
                                            data |-> Reply(m).data]
            /\ Outcome(Status(m.endpoint), Reply(m).data) = Outcome(Status(m.endpoint), m.data)
            /\ Outcome(Status(m.endpoint), m.data) \in Outcomes
        BY <1>2, <3>1, <3>2, ReplyFacts
      <3>4. r.ok /\ r.id = m.id /\ r.status = Status(m.endpoint) /\ r.data = Reply(m).data
        BY <1>7, <3>3
      <3>5. cpc' = "open"  BY <1>1, <1>3, <1>9, <3>3, <3>4
      <3>6. answers' = Append(answers, [id |-> m.id, outcome |-> Outcome(Status(m.endpoint), m.data)])
        BY <1>3, <1>9, <3>3, <3>4
      <3>7. QED  BY <3>1, <3>2, <3>3, <3>5, <3>6
    <2>2. CASE IsReason(f)
      <3>1. spc = "limited" /\ f = Sealed("Error", encode_error([reason |-> kErrRateLimited, message |-> << >>]), ServerResult)
        BY <2>2 DEF IsReason
      <3>2. /\ f.type = "Error" /\ Opens(f, ClientResult) /\ x.ok /\ x.reason = kErrRateLimited
        BY <1>2, <1>8, <3>1, ReasonFacts
      <3>3. cpc' = "limited" /\ answers' = answers  BY <1>3, <1>9, <3>2
      <3>4. QED  BY <3>1, <3>3
    <2>3. QED  BY <1>10, <2>1, <2>2
  <1>12. /\ Version' = Version /\ Welcome' = Welcome /\ HelloFrame' = HelloFrame
         /\ ClientResult' = ClientResult /\ ServerResult' = ServerResult
         /\ AckFrame' = AckFrame /\ (Heard' <=> Heard)
    BY <1>1, Stable, StableAck
  <1>13. cpc' = "open" \/ (cpc' = "limited" /\ spc = "limited")  BY <1>11
  <1>14. PhaseInv'  BY <1>1, <1>2, <1>3, <1>12, <1>13 DEF PhaseInv, Before, After
  <1>15. FlightInv'  BY <1>1, <1>2, FlightStays
  <1>16. Prefix(sent, sent')  BY <1>1, <1>4, PrefixFacts
  <1>17. AnswerInv'
    <2>1. ASSUME cpc' = "open", NEW i \in 1 .. Len(toClient')
          PROVE  IsReply(toClient[i])' \/ IsReason(toClient[i])'
      <3>1. PICK g : g = toClient'[i]  OBVIOUS
      <3>2. g = toClient[i + 1] /\ i + 1 \in 1 .. Len(toClient)  BY <1>5, <3>1
      <3>3. IsReply(g) \/ IsReason(g)  BY <1>1, <1>2, <3>2 DEF AnswerInv
      <3>4. IsReply(g)' \/ IsReason(g)'  BY <1>1, <1>2, <1>16, <3>3, AnswerStays
      <3>5. QED  BY <3>1, <3>4 DEF IsReply, IsReason
    <2>2. answers' \in Seq([id : Id, outcome : Outcomes]) /\ Answered'
      <3>1. CASE answers' = answers  BY <1>1, <1>4, <3>1 DEF Answered
      <3>2. ASSUME NEW j \in 1 .. Len(sent), sent[j] \in RequestMsg, ~sent[j].oneway,
                   Outcome(Status(sent[j].endpoint), sent[j].data) \in Outcomes,
                   answers' = Append(answers, [id |-> sent[j].id,
                                               outcome |-> Outcome(Status(sent[j].endpoint), sent[j].data)])
            PROVE  answers' \in Seq([id : Id, outcome : Outcomes]) /\ Answered'
        <4>1. PICK a : a = [id |-> sent[j].id, outcome |-> Outcome(Status(sent[j].endpoint), sent[j].data)]
          OBVIOUS
        <4>2. a \in [id : Id, outcome : Outcomes]
          <5>1. sent[j].id \in Id  BY <3>2 DEF RequestMsg
          <5>2. QED  BY <3>2, <4>1, <5>1
        <4>3. /\ answers' \in Seq([id : Id, outcome : Outcomes]) /\ Len(answers) \in Nat
              /\ Len(answers') = Len(answers) + 1 /\ answers'[Len(answers) + 1] = a
              /\ \A i \in 1 .. Len(answers) : answers'[i] = answers[i]
          BY <1>4, <3>2, <4>1, <4>2, Added
        <4>4. ASSUME NEW i \in DOMAIN answers'
              PROVE  \E k \in DOMAIN sent :
                       /\ sent[k].id = answers'[i].id /\ ~sent[k].oneway
                       /\ answers'[i].outcome = Outcome(Status(sent[k].endpoint), sent[k].data)
          <5>1. i = Len(answers) + 1 \/ i \in 1 .. Len(answers)  BY <4>3
          <5>2. CASE i = Len(answers) + 1
            <6>1. answers'[i] = a /\ j \in DOMAIN sent  BY <1>4, <4>3, <5>2
            <6>2. a.id = sent[j].id /\ a.outcome = Outcome(Status(sent[j].endpoint), sent[j].data)
              BY <4>1
            <6>3. QED  BY <3>2, <6>1, <6>2
          <5>3. CASE i \in 1 .. Len(answers)
            <6>1. answers'[i] = answers[i] /\ i \in DOMAIN answers  BY <1>4, <4>3, <5>3
            <6>2. QED  BY <1>4, <6>1 DEF Answered
          <5>4. QED  BY <5>1, <5>2, <5>3
        <4>5. QED  BY <1>1, <4>3, <4>4 DEF Answered
      <3>3. QED  BY <1>11, <3>1, <3>2
    <2>3. QED  BY <2>1, <2>2 DEF AnswerInv
  <1>18. ReasonInv'
    <2>1. Gone(cpc') => Excuse'  BY <1>1, <1>13 DEF Gone, Excuse
    <2>2. cpc' = "limited" => spc' = "limited"  BY <1>1, <1>13
    <2>3. QED  BY <1>1, <1>4, <1>16, <2>1, <2>2, ReasonStays
  <1>19. BufferInv'  BY <1>1, <1>4, <1>5 DEF BufferInv
  <1>20. QED  BY <1>14, <1>15, <1>17, <1>18, <1>19 DEF Inv

\* Nothing happens.
LEMMA StutterInv ==
    ASSUME Inv, UNCHANGED vars
    PROVE  Inv'
  <1>1. UNCHANGED <<env, cpc, spc, toServer, toClient, broken, hs, cRes, sRes, stream, sent, got, answers>>
    BY DEF vars
  <1>2. PhaseInv /\ FlightInv /\ AnswerInv /\ ReasonInv /\ BufferInv  BY DEF Inv
  <1>3. /\ Version' = Version /\ Welcome' = Welcome /\ HelloFrame' = HelloFrame
        /\ ClientResult' = ClientResult /\ ServerResult' = ServerResult
        /\ AckFrame' = AckFrame /\ (Heard' <=> Heard)
    BY <1>1, Stable, StableAck
  <1>4. PhaseInv'  BY <1>1, <1>2, <1>3 DEF PhaseInv
  <1>5. FlightInv'  BY <1>1, <1>2, FlightStays
  <1>6. sent \in Seq(Message)  BY <1>2 DEF FlightInv
  <1>7. AnswerInv'  BY <1>1, <1>2, <1>6, AnswersStay
  <1>8. ReasonInv'
    <2>1. Prefix(sent, sent') /\ sent' \in Seq(Message)  BY <1>1, <1>6, PrefixFacts
    <2>2. cpc' = "limited" => spc' = "limited"  BY <1>1, <1>2 DEF ReasonInv
    <2>3. QED  BY <1>1, <2>1, <2>2, ReasonStays
  <1>9. BufferInv'  BY <1>1, <1>2 DEF BufferInv
  <1>10. QED  BY <1>4, <1>5, <1>7, <1>8, <1>9 DEF Inv

\* Every step keeps the invariant.
LEMMA NextInv ==
    Inv /\ [Next]_vars => Inv'
  <1> SUFFICES ASSUME Inv, [Next]_vars  PROVE  Inv'
    OBVIOUS
  <1>1. CASE ClientHello  BY <1>1, ClientHelloInv
  <1>2. CASE ClientAck  BY <1>2, ClientAckInv
  <1>3. CASE ServerHello  BY <1>3, ServerHelloInv
  <1>4. CASE ServerAck  BY <1>4, ServerAckInv
  <1>5. CASE ClientEnds  BY <1>5, ClientEndsInv
  <1>6. CASE ServerEnds  BY <1>6, ServerEndsInv
  <1>7. CASE \E e \in Names, d \in Datas : get(e, d) \/ send(e, d)
    <2>1. PICK e \in Names, d \in Datas : get(e, d) \/ send(e, d)  BY <1>7
    <2>2. \E w \in BOOLEAN : Request(e, d, w)  BY <2>1 DEF get, send
    <2>3. QED  BY <2>1, <2>2, RequestInv
  <1>8. CASE \E e \in Names : OpenStream(e)  BY <1>8, OpenStreamInv
  <1>9. CASE \E d \in Datas, last \in BOOLEAN : StreamWrite(d, last)  BY <1>9, StreamWriteInv
  <1>10. CASE ServerFrame  BY <1>10, ServerFrameInv
  <1>11. CASE ServerLimits  BY <1>11, ServerLimitsInv
  <1>12. CASE ClientFrame  BY <1>12, ClientFrameInv
  <1>13. CASE UNCHANGED vars  BY <1>13, StutterInv
  <1>14. QED
    BY <1>1, <1>2, <1>3, <1>4, <1>5, <1>6, <1>7, <1>8, <1>9, <1>10, <1>11, <1>12, <1>13 DEF Next

---------------------------------------------------------------------------
(* The theorems.                                                           *)

\* The handshakes of the two sides, the frames under way and the answers
\* keep the invariant in every step of either side (handshake.cpp,
\* protocol.cpp, framing.cpp).
THEOREM InvHolds == Spec => []Inv
  <1>1. Init => Inv  BY InitInv
  <1>2. Inv /\ [Next]_vars => Inv'  BY NextInv
  <1>3. QED  BY <1>1, <1>2, PTL DEF Spec

\* The two sides take their steps in order, and have a result exactly when
\* they have come through the handshake (handshake.cpp's optional<Result>).
THEOREM TypeCorrect == Spec => []TypeOK
  <1>1. Inv => TypeOK
    <2> SUFFICES ASSUME Inv  PROVE  TypeOK
      OBVIOUS
    <2>1. PhaseInv /\ FlightInv /\ BufferInv  BY DEF Inv
    <2>2. cpc \in Before \cup After /\ spc \in Before \cup After  BY <2>1 DEF PhaseInv
    <2>3. ClientResult # None /\ ServerResult # None  BY <2>1, ResultFacts
    <2>4. /\ cpc \in Before => cRes = None
          /\ cpc \in After => cRes = ClientResult
          /\ spc \in Before => sRes = None
          /\ spc \in After => sRes = ServerResult
      BY <2>1 DEF PhaseInv
    <2>5. (cRes # None) <=> cpc \in {"open", "left", "limited"}
      BY <2>2, <2>3, <2>4 DEF Before, After
    <2>6. (sRes # None) <=> spc \in {"open", "left", "limited"}
      BY <2>2, <2>3, <2>4 DEF Before, After
    <2>7. Len(sent) <= MaxMsgs /\ stream.seq <= MaxMsgs
      <3>1. /\ Len(sent) <= MaxMsgs /\ stream.seq <= Len(sent) /\ sent \in Seq(Message)
            /\ stream \in [id : 0 .. 1, seq : Nat, open : BOOLEAN, endpoint : Names \cup {<< >>}]
        BY <2>1 DEF FlightInv
      <3>2. stream.seq \in Nat /\ Len(sent) \in Nat /\ MaxMsgs \in Nat  BY <3>1, Powers
      <3>3. QED  BY <3>1, <3>2
    <2>8. /\ \A i \in DOMAIN toServer : toServer[i].type \in FrameType
          /\ \A i \in DOMAIN toClient : toClient[i].type \in FrameType
      <3>1. \A f \in Frame : f.type \in FrameType  BY DEF Frame
      <3>2. toServer \in Seq(Frame) /\ toClient \in Seq(Frame)  BY <2>1 DEF BufferInv
      <3>3. \A i \in DOMAIN toServer : toServer[i] \in Frame  BY <3>2
      <3>4. \A i \in DOMAIN toClient : toClient[i] \in Frame  BY <3>2
      <3>5. QED  BY <3>1, <3>3, <3>4
    <2>9. QED  BY <2>2, <2>5, <2>6, <2>7, <2>8 DEF TypeOK, Before, After
  <1>2. QED  BY <1>1, InvHolds, PTL

\* A client that comes through client_handshake (handshake.cpp:67-71) has the
\* host it asked for at the other end, and that host has come through with
\* the same version, the smaller of the two maxima, with the keys crossed and
\* with this client as its peer: for every byte size, cap and service name.
THEOREM AgreementHolds == Spec => []Agreement
  <1>1. Inv => Agreement
    <2> SUFFICES ASSUME Inv, cRes # None  PROVE  Agreement
      BY DEF Agreement
    <2>1. PhaseInv  BY DEF Inv
    <2>2. cpc \in After  BY <2>1 DEF PhaseInv
    <2>3. cRes = ClientResult /\ sRes = ServerResult /\ env.asked = Service
      BY <2>1, <2>2 DEF PhaseInv, Welcome
    <2>4. sRes # None  BY <2>1, <2>3, ResultFacts
    <2>5. QED  BY <2>3, <2>4 DEF Agreement, ClientResult, ServerResult, Version
  <1>2. QED  BY <1>1, InvHolds, PTL

\* Two honest peers that trust each other get a session whatever their
\* versions, and keep it (handshake.cpp, host.cpp:597-627): a side gives up
\* only for a failure, a trust or a name that does not fit, a frame over the
\* reader's cap (framing.cpp:26), a name over its length byte
\* (protocol.cpp:16) or a request too many.
THEOREM GivesUpForAReasonHolds == Spec => []GivesUpForAReason
  <1>1. Inv => GivesUpForAReason  BY DEF Inv, ReasonInv
  <1>2. QED  BY <1>1, InvHolds, PTL

\* What the host decodes (protocol.cpp:183-239) is what the client sent, in
\* order, and what get() returns (client.cpp:504-518) is what its endpoint
\* answered, for all names, data and numbers of messages.
THEOREM EndToEndHolds == Spec => []EndToEnd
  <1>1. Inv => EndToEnd  BY DEF Inv, FlightInv, AnswerInv, EndToEnd
  <1>2. QED  BY <1>1, InvHolds, PTL
==============================================================================

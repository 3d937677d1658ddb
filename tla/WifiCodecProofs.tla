--------------------------- MODULE WifiCodecProofs ---------------------------
(***************************************************************************)
(* Proofs, for every field width, alphabet and string bound, of the type   *)
(* invariant of WifiCodec and of SsidWithinField, which the run            *)
(* WifiCodec_roundtrip checks with 2-byte fields.                          *)
(*                                                                         *)
(* The config starts as anything NVS held, so the proofs are about every   *)
(* byte array: a read up to the first NUL (CStr) of a finite array is the  *)
(* field-bounded string FieldString, and getDetails' strncpy and           *)
(* buf[32] = 0 give exactly that string for the SSID field.  The first     *)
(* NUL of an array exists when some NUL does: that is the well-foundedness *)
(* of < on Nat (WFMin).  TypeOK /\ SsidWithinField is then inductive as it *)
(* stands.                                                                 *)
(***************************************************************************)
EXTENDS WifiCodec, SequenceTheorems, WellFoundedInduction, TLAPS

USE CodecAssumption

-----------------------------------------------------------------------------
(* Lemmas on the C-string operators.                                       *)

\* The JS bytes are bytes.
LEMMA CharsBytes == Seq(Chars) \subseteq Seq(Bytes)
<1>1. Chars \subseteq Bytes
  BY DEF Bytes
<1>. QED  BY <1>1, SeqMonotonic

\* CStr stops at the first NUL: when m[k] is NUL and no byte before it is,
\* the C string is the k - 1 bytes before it.
LEMMA CStrAt ==
  ASSUME NEW m \in Seq(Bytes), NEW k \in 1 .. Len(m), m[k] = NUL,
         \A i \in 1 .. k - 1 : m[i] # NUL
  PROVE  CStr(m) = SubSeq(m, 1, k - 1)
<1>. DEFINE nuls == {i \in 1 .. Len(m) : m[i] = NUL}
<1>1. k \in nuls /\ \A j \in nuls : k <= j
  BY DEF NUL
<1>2. (CHOOSE i \in nuls : \A j \in nuls : i <= j) = k
  BY <1>1
<1>. QED  BY <1>1, <1>2 DEF CStr

\* Without a NUL the read runs over all of m.
LEMMA CStrNone ==
  ASSUME NEW m \in Seq(Bytes), \A i \in 1 .. Len(m) : m[i] # NUL
  PROVE  CStr(m) = m
<1>1. {i \in 1 .. Len(m) : m[i] = NUL} = {}
  OBVIOUS
<1>2. CStr(m) = SubSeq(m, 1, Len(m))
  BY <1>1 DEF CStr
<1>. QED  BY <1>2, SubSeqFull

\* A string of JS bytes followed by a NUL reads back as itself.
LEMMA CStrPrefix ==
  ASSUME NEW ls \in Seq(Chars), NEW t \in Seq(Bytes), t # << >>, t[1] = NUL
  PROVE  CStr(ls \o t) = ls
<1>1. ls \in Seq(Bytes)
  BY CharsBytes
<1>2. /\ ls \o t \in Seq(Bytes)
      /\ Len(ls \o t) = Len(ls) + Len(t)
      /\ \A i \in 1 .. Len(ls) + Len(t) :
           (ls \o t)[i] = IF i <= Len(ls) THEN ls[i] ELSE t[i - Len(ls)]
  BY <1>1, ConcatProperties
<1>3. Len(t) \in Nat \ {0} /\ Len(ls) \in Nat
  BY EmptySeq, LenProperties
<1>4. \A i \in 1 .. Len(ls) : ls[i] \in Chars
  BY ElementOfSeq
<1>5. CStr(ls \o t) = SubSeq(ls \o t, 1, Len(ls))
  <2>1. (ls \o t)[Len(ls) + 1] = NUL
    BY <1>2, <1>3
  <2>2. \A i \in 1 .. Len(ls) : (ls \o t)[i] # NUL
    BY <1>2, <1>3, <1>4 DEF NUL
  <2>3. /\ Len(ls) + 1 \in 1 .. Len(ls \o t)
        /\ \A i \in 1 .. (Len(ls) + 1) - 1 : (ls \o t)[i] # NUL
    BY <1>2, <1>3, <2>2
  <2>4. CStr(ls \o t) = SubSeq(ls \o t, 1, (Len(ls) + 1) - 1)
    BY <1>2, <2>1, <2>3, CStrAt
  <2>. QED  BY <1>3, <2>4
<1>6. /\ SubSeq(ls \o t, 1, Len(ls)) \in Seq(Bytes)
      /\ Len(SubSeq(ls \o t, 1, Len(ls))) = Len(ls)
      /\ \A i \in 1 .. Len(ls) : SubSeq(ls \o t, 1, Len(ls))[i] = ls[i]
  <2>1. \A i \in 1 .. Len(ls) : (ls \o t)[i] \in Bytes
    BY <1>2, <1>3, ElementOfSeq
  <2>2. /\ SubSeq(ls \o t, 1, Len(ls)) \in Seq(Bytes)
        /\ Len(SubSeq(ls \o t, 1, Len(ls))) = Len(ls)
        /\ \A i \in 1 .. Len(ls) : SubSeq(ls \o t, 1, Len(ls))[i] = (ls \o t)[i]
    BY <1>3, <2>1, SubSeqProperties
  <2>. QED  BY <1>2, <2>2
<1>. QED  BY <1>1, <1>5, <1>6, SeqEqual

\* The JS strings a script passes are sequences of JS bytes, at most n long.
LEMMA StrsSeq ==
  ASSUME NEW n \in Nat, NEW s \in Strs(n)
  PROVE  s \in Seq(Chars) /\ Len(s) <= n
<1>1. PICK k \in 0 .. n : s \in [1 .. k -> Chars]
  BY DEF Strs
<1>. QED  BY <1>1

\* The bytes jsvGetString(s, buf, n) writes before its NUL are the first
\* min(Len(s), n - 1) bytes of s.
LEMMA GetStringCopyProps ==
  ASSUME NEW s \in Seq(Chars), NEW n \in Nat \ {0}
  PROVE  /\ GetStringCopy(s, n) \in Seq(Chars)
         /\ Len(GetStringCopy(s, n)) = IF Len(s) < n THEN Len(s) ELSE n - 1
         /\ Len(GetStringCopy(s, n)) < n
         /\ \A i \in 1 .. Len(GetStringCopy(s, n)) : GetStringCopy(s, n)[i] = s[i]
<1>. DEFINE k == IF Len(s) < n THEN Len(s) ELSE n - 1
<1>1. k \in 0 .. Len(s) /\ k < n
  BY LenProperties
<1>2. \A i \in 1 .. k : s[i] \in Chars
  BY <1>1, ElementOfSeq
<1>. QED  BY <1>1, <1>2, SubSeqProperties DEF GetStringCopy

\* NUL padding of k bytes.
NULs(k) == [i \in 1 .. k |-> NUL]

\* The padding is a sequence of k NUL bytes (none when k is not positive).
LEMMA NULsProps ==
  ASSUME NEW k \in Int
  PROVE  /\ NULs(k) \in Seq(Bytes)
         /\ Len(NULs(k)) = IF k > 0 THEN k ELSE 0
         /\ \A i \in 1 .. k : NULs(k)[i] = NUL
<1>1. CASE k > 0
  <2>1. NULs(k) \in [1 .. k -> Bytes]
    BY DEF NULs, Bytes
  <2>. QED  BY <1>1, <2>1 DEF NULs
<1>2. CASE ~(k > 0)
  <2>1. 1 .. k = {}
    BY <1>2
  <2>2. NULs(k) = << >>
    BY <2>1 DEF NULs
  <2>. QED  BY <1>2, <2>1, <2>2, EmptySeq
<1>. QED  BY <1>1, <1>2

\* strncpy of a string of at most n JS bytes followed by a NUL (or by
\* nothing when it fills n) gives the string padded with NULs to n.
LEMMA StrncpyShort ==
  ASSUME NEW ls \in Seq(Chars), NEW n \in Nat, Len(ls) <= n,
         NEW src \in Seq(Bytes), CStr(src) = ls
  PROVE  strncpy(src, n) = ls \o NULs(n - Len(ls))
<1>1. (IF Len(ls) < n THEN ls ELSE SubSeq(ls, 1, n)) = ls
  <2>1. CASE Len(ls) = n
    BY <2>1, SubSeqFull
  <2>. QED  BY <2>1
<1>. QED  BY <1>1 DEF strncpy, NULs

\* A string of JS bytes followed by a non-empty NUL padding and anything
\* reads back as itself.
LEMMA PaddedPrefix ==
  ASSUME NEW ls \in Seq(Chars), NEW k \in Nat \ {0}, NEW u \in Seq(Bytes)
  PROVE  CStr(ls \o (NULs(k) \o u)) = ls
<1>1. NULs(k) \in Seq(Bytes) /\ Len(NULs(k)) = k /\ NULs(k)[1] = NUL
  BY NULsProps
<1>2. /\ NULs(k) \o u \in Seq(Bytes)
      /\ Len(NULs(k) \o u) = k + Len(u)
      /\ (NULs(k) \o u)[1] = NUL
  <2>1. Len(u) \in Nat
    BY LenProperties
  <2>2. /\ NULs(k) \o u \in Seq(Bytes)
        /\ Len(NULs(k) \o u) = Len(NULs(k)) + Len(u)
        /\ \A i \in 1 .. Len(NULs(k)) + Len(u) :
             (NULs(k) \o u)[i] = IF i <= Len(NULs(k)) THEN NULs(k)[i]
                                  ELSE u[i - Len(NULs(k))]
    BY <1>1, ConcatProperties
  <2>3. 1 \in 1 .. k + Len(u) /\ 1 <= k
    BY <2>1
  <2>. QED  BY <1>1, <2>2, <2>3
<1>3. NULs(k) \o u # << >>
  BY <1>2
<1>. QED  BY <1>2, <1>3, CStrPrefix

\* An array holding a NUL has a first one: the least element of the set of
\* NUL positions, by the well-foundedness of < on Nat.
LEMMA FirstNul ==
  ASSUME NEW m \in Seq(Bytes), \E i \in 1 .. Len(m) : m[i] = NUL
  PROVE  \E k \in 1 .. Len(m) : m[k] = NUL /\ \A i \in 1 .. k - 1 : m[i] # NUL
<1>. DEFINE T == {i \in 1 .. Len(m) : m[i] = NUL}
<1>1. T \subseteq Nat /\ T # {}
  OBVIOUS
<1>2. PICK k \in T : \A y \in T : ~(<<y, k>> \in OpToRel(<, Nat))
  BY <1>1, NatLessThanWellFounded, WFMin
<1>3. \A y \in T : ~(y < k)
  BY <1>1, <1>2 DEF OpToRel
<1>. QED  BY <1>3

\* FieldString picks the prefix of j bytes when those bytes hold no NUL
\* and the field ends or has a NUL right after them.
LEMMA FieldStringAt ==
  ASSUME NEW m \in Seq(Bytes), NEW j \in 0 .. Len(m),
         \A i \in 1 .. j : m[i] # NUL,
         j = Len(m) \/ m[j + 1] = NUL
  PROVE  FieldString(m) = SubSeq(m, 1, j)
<1>. DEFINE Ok(t) == /\ \A i \in 1 .. Len(t) : t[i] # NUL
                     /\ Len(t) = Len(m) \/ m[Len(t) + 1] = NUL
            C == {SubSeq(m, 1, k) : k \in 0 .. Len(m)}
<1>1. \A k \in 0 .. Len(m) :
        Len(SubSeq(m, 1, k)) = k /\ \A i \in 1 .. k : SubSeq(m, 1, k)[i] = m[i]
  BY SubSeqProperties
<1>2. SubSeq(m, 1, j) \in C /\ Ok(SubSeq(m, 1, j))
  BY <1>1
<1>3. \A t \in C : Ok(t) => t = SubSeq(m, 1, j)
  <2>. SUFFICES ASSUME NEW k \in 0 .. Len(m), Ok(SubSeq(m, 1, k))
                PROVE  SubSeq(m, 1, k) = SubSeq(m, 1, j)
    OBVIOUS
  <2>1. ~(k < j)
    <3>. SUFFICES ASSUME k < j PROVE FALSE
      OBVIOUS
    <3>1. m[k + 1] = NUL
      BY <1>1
    <3>. QED  BY <3>1
  <2>2. ~(j < k)
    <3>. SUFFICES ASSUME j < k PROVE FALSE
      OBVIOUS
    <3>1. SubSeq(m, 1, k)[j + 1] # NUL /\ SubSeq(m, 1, k)[j + 1] = m[j + 1]
      BY <1>1
    <3>. QED  BY <3>1
  <2>. QED  BY <2>1, <2>2
<1>. QED  BY <1>2, <1>3 DEF FieldString

\* Read up to its first NUL, a finite array gives its field-bounded string,
\* a string of JS bytes no longer than the array.
LEMMA CStrField ==
  ASSUME NEW m \in Seq(Bytes)
  PROVE  /\ CStr(m) = FieldString(m)
         /\ CStr(m) \in Seq(Chars)
         /\ Len(CStr(m)) <= Len(m)
<1>1. PICK j \in 0 .. Len(m) :
        /\ \A i \in 1 .. j : m[i] # NUL
        /\ j = Len(m) \/ m[j + 1] = NUL
        /\ CStr(m) = SubSeq(m, 1, j)
  <2>1. CASE \A i \in 1 .. Len(m) : m[i] # NUL
    <3>1. CStr(m) = SubSeq(m, 1, Len(m))
      BY <2>1, CStrNone, SubSeqFull
    <3>. QED  BY <2>1, <3>1, LenProperties
  <2>2. CASE \E i \in 1 .. Len(m) : m[i] = NUL
    <3>1. PICK k \in 1 .. Len(m) : m[k] = NUL /\ \A i \in 1 .. k - 1 : m[i] # NUL
      BY <2>2, FirstNul
    <3>2. CStr(m) = SubSeq(m, 1, k - 1)
      BY <3>1, CStrAt
    <3>. QED  BY <3>1, <3>2
  <2>. QED  BY <2>1, <2>2
<1>2. CStr(m) = FieldString(m)
  BY <1>1, FieldStringAt
<1>3. SubSeq(m, 1, j) \in Seq(Chars) /\ Len(SubSeq(m, 1, j)) = j
  <2>1. \A i \in 1 .. j : m[i] \in Chars
    BY <1>1, ElementOfSeq DEF Bytes
  <2>. QED  BY <1>1, <2>1, SubSeqProperties
<1>. QED  BY <1>1, <1>2, <1>3


\* getDetails' decode of an SSID field, strncpy(buf, raw, 32) then
\* buf[32] = 0 and the read up to the first NUL, is the read of the field
\* itself: a full field gets its terminator from buf[32].
LEMMA DecodeField ==
  ASSUME NEW f \in Arr(SsidW)
  PROVE  DecodeSsid(f) = CStr(f)
<1>. DEFINE ls == CStr(f)
<1>1. f \in Seq(Bytes) /\ Len(f) = SsidW
  BY DEF Arr
<1>2. ls \in Seq(Chars) /\ Len(ls) <= SsidW /\ Len(ls) \in Nat
  BY <1>1, CStrField, LenProperties
<1>3. strncpy(f, SsidW) = ls \o NULs(SsidW - Len(ls))
  BY <1>1, <1>2, StrncpyShort
<1>4. NULs(SsidW - Len(ls)) \in Seq(Bytes) /\ <<NUL>> \in Seq(Bytes)
  BY <1>2, NULsProps DEF Bytes
<1>5. ls \in Seq(Bytes)
  BY <1>2, CharsBytes
<1>6. DecodeSsid(f) = CStr(ls \o (NULs(SsidW - Len(ls)) \o <<NUL>>))
  <2>1. (ls \o NULs(SsidW - Len(ls))) \o <<NUL>>
          = ls \o (NULs(SsidW - Len(ls)) \o <<NUL>>)
    BY <1>4, <1>5, ConcatAssociative
  <2>. QED  BY <1>3, <2>1 DEF DecodeSsid
<1>7. CASE Len(ls) < SsidW
  <2>1. SsidW - Len(ls) \in Nat \ {0}
    BY <1>2, <1>7
  <2>. QED  BY <1>2, <1>4, <1>6, <2>1, PaddedPrefix
<1>8. CASE Len(ls) = SsidW
  <2>1. NULs(SsidW - Len(ls)) = << >>
    BY <1>8, NULsProps, EmptySeq
  <2>2. NULs(SsidW - Len(ls)) \o <<NUL>> = <<NUL>>
    BY <1>4, <2>1, ConcatEmptySeq
  <2>. QED  BY <1>2, <1>4, <1>6, <2>2, CStrPrefix
<1>. QED  BY <1>2, <1>7, <1>8

\* connect's ssid[33] gives a full 32-byte field whatever the stack held.
LEMMA SsidBufType ==
  ASSUME NEW s \in Seq(Chars), NEW junk \in Arr(SsidW)
  PROVE  SsidBuf(s, junk) \in Arr(SsidW)
<1>1. \A i \in 1 .. Len(GetStringCopy(s, SsidW)) : GetStringCopy(s, SsidW)[i] \in Chars
  BY GetStringCopyProps, ElementOfSeq
<1>. QED  BY <1>1 DEF SsidBuf, Arr, Bytes

\* connect's zeroed password[65] gives a full 64-byte field.
LEMMA PasswordBufType ==
  ASSUME NEW p \in Seq(Chars)
  PROVE  PasswordBuf(p) \in Arr(PwW)
<1>. DEFINE c == GetStringCopy(p, PwW)
<1>1. c \in Seq(Bytes) /\ Len(c) \in Nat /\ Len(c) < PwW
  BY GetStringCopyProps, CharsBytes, LenProperties
<1>2. /\ NULs(PwW - Len(c)) \in Seq(Bytes)
      /\ Len(NULs(PwW - Len(c))) = PwW - Len(c)
  <2>1. PwW - Len(c) \in Int /\ PwW - Len(c) > 0
    BY <1>1
  <2>. QED  BY <2>1, NULsProps
<1>3. /\ c \o NULs(PwW - Len(c)) \in Seq(Bytes)
      /\ Len(c \o NULs(PwW - Len(c))) = Len(c) + Len(NULs(PwW - Len(c)))
  BY <1>1, <1>2, ConcatProperties
<1>4. PasswordBuf(p) = c \o NULs(PwW - Len(c))
  BY DEF PasswordBuf, NULs
<1>5. PasswordBuf(p) \in Seq(Bytes) /\ Len(PasswordBuf(p)) = PwW
  BY <1>1, <1>2, <1>3, <1>4
<1>. QED  BY <1>5, LenProperties DEF Arr

-----------------------------------------------------------------------------
(* The inductive invariant.                                                *)

\* The inductive invariant: the property itself with the types it needs.
IInv == TypeOK /\ SsidWithinField

\* Whatever config NVS held, the initial state satisfies IInv.
LEMMA InitIInv == Init => IInv
<1>. SUFFICES ASSUME Init PROVE IInv
  OBVIOUS
<1>1. << >> \in Strs(MaxLen)
  <2>1. << >> \in [1 .. 0 -> Chars]
    OBVIOUS
  <2>. QED  BY <2>1 DEF Strs
<1>2. TypeOK
  BY <1>1, EmptySeq DEF Init, TypeOK, None
<1>. QED  BY <1>2 DEF IInv, Init, SsidWithinField, None

\* connect stores full fields and forgets the details read before it.
LEMMA ConnectIInv ==
  ASSUME IInv, NEW s \in Strs(MaxLen), NEW p \in Strs(MaxLen), connect(s, p)
  PROVE  IInv'
<1>1. s \in Seq(Chars) /\ p \in Seq(Chars)
  BY StrsSeq
<1>2. staSsid' \in Arr(SsidW)
  BY <1>1, SsidBufType DEF connect
<1>3. staPw' \in Arr(PwW)
  BY <1>1, PasswordBufType DEF connect
<1>4. TypeOK'
  BY <1>2, <1>3, EmptySeq DEF connect, TypeOK, None
<1>5. SsidWithinField'
  BY DEF connect, SsidWithinField, None
<1>. QED  BY <1>4, <1>5 DEF IInv

\* getDetails returns the field-bounded SSID and a string of JS bytes for
\* the password, however far its read runs.
LEMMA GetDetailsIInv ==
  ASSUME IInv, getDetails
  PROVE  IInv'
<1>1. staSsid \in Arr(SsidW) /\ staSsid \in Seq(Bytes)
  BY DEF IInv, TypeOK, Arr
<1>2. DecodeSsid(staSsid) = FieldString(staSsid)
      /\ DecodeSsid(staSsid) \in Seq(Chars)
  BY <1>1, DecodeField, CStrField
<1>3. CStr(staPw \o <<after, NUL>>) \in Seq(Chars)
  <2>1. staPw \in Seq(Bytes) /\ <<after, NUL>> \in Seq(Bytes)
    BY DEF IInv, TypeOK, Arr, Bytes
  <2>2. staPw \o <<after, NUL>> \in Seq(Bytes)
    BY <2>1, ConcatProperties
  <2>. QED  BY <2>2, CStrField
<1>4. TypeOK'
  BY <1>2, <1>3 DEF IInv, TypeOK, getDetails
<1>5. SsidWithinField'
  BY <1>2 DEF getDetails, SsidWithinField
<1>. QED  BY <1>4, <1>5 DEF IInv

\* Every step keeps IInv: connect, getDetails or a stutter.
LEMMA StepIInv ==
  ASSUME IInv, [Next]_vars
  PROVE  IInv'
<1>1. CASE \E s \in Strs(MaxLen), p \in Strs(MaxLen) : connect(s, p)
  BY <1>1, ConnectIInv
<1>2. CASE getDetails
  BY <1>2, GetDetailsIInv
<1>3. CASE UNCHANGED vars
  BY <1>3 DEF vars, IInv, TypeOK, SsidWithinField
<1>. QED  BY <1>1, <1>2, <1>3 DEF Next

-----------------------------------------------------------------------------
(* The theorems.                                                           *)

\* IInv holds in every reachable state of WifiCodec.
THEOREM IInvHolds == Spec => []IInv
BY InitIInv, StepIInv, PTL DEF Spec

\* Type correctness of the codec: connect leaves 32 and 64 bytes in the
\* driver's fields, and getDetails returns strings of non-NUL bytes, for
\* any config NVS held at start.
THEOREM CodecTypeOK == Spec => []TypeOK
BY IInvHolds, PTL DEF IInv

\* For every field width, getDetails returns the SSID field as the spec
\* decodes it: a full field without NUL as all its bytes, one with a NUL
\* at k as its first k bytes, whatever NVS or connect's stack junk left.
THEOREM CodecSsidWithinField == Spec => []SsidWithinField
BY IInvHolds, PTL DEF IInv

=============================================================================

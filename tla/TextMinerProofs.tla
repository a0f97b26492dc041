-------------------------- MODULE TextMinerProofs --------------------------
(***************************************************************************)
(* Proofs about the document pipeline, for any number of miners, of        *)
(* documents and of failures, and for all parameters: every document that  *)
(* is obtained is put out or reported, once, and what was put out stays.   *)
(*                                                                         *)
(* The invariant follows a document on its way: the reader has not come to *)
(* it, or one miner holds it and nothing has been said of it, or it has    *)
(* been put out or reported.                                               *)
(***************************************************************************)
EXTENDS TextMiner, FiniteSetTheorems, TLAPS

USE MinerAssumption

-----------------------------------------------------------------------------
(***************************************************************************)
(* How often a value is in a sequence.                                     *)
(***************************************************************************)

LEMMA TimesType ==
    ASSUME NEW X, NEW s \in Seq(X), NEW x
    PROVE  IsFiniteSet({k \in DOMAIN s : s[k] = x}) /\ Times(s, x) \in Nat
<1>1. DOMAIN s = 1..Len(s) /\ Len(s) \in Nat
  OBVIOUS
<1>2. IsFiniteSet(1..Len(s))
  BY <1>1, FS_Interval
<1>3. {k \in DOMAIN s : s[k] = x} \in SUBSET (1..Len(s))
  BY <1>1
<1> QED
  BY <1>2, <1>3, FS_Subset, FS_CardinalityType DEF Times

LEMMA TimesEmpty ==
    ASSUME NEW x
    PROVE  Times(<<>>, x) = 0
<1>1. {k \in DOMAIN <<>> : <<>>[k] = x} = {}
  OBVIOUS
<1> QED
  BY <1>1, FS_EmptySet DEF Times

LEMMA TimesAppend ==
    ASSUME NEW X, NEW s \in Seq(X), NEW y \in X, NEW x
    PROVE  Times(Append(s, y), x) = IF y = x THEN Times(s, x) + 1 ELSE Times(s, x)
<1> DEFINE t == Append(s, y)
           A == {k \in DOMAIN s : s[k] = x}
           B == {k \in DOMAIN t : t[k] = x}
<1>1. /\ DOMAIN s = 1..Len(s) /\ Len(s) \in Nat /\ DOMAIN t = 1..(Len(s) + 1)
      /\ t[Len(s) + 1] = y
      /\ \A k \in 1..Len(s) : t[k] = s[k]
  OBVIOUS
<1>2. IsFiniteSet(A) /\ Len(s) + 1 \notin A
  <2>1. A \in SUBSET (1..Len(s)) /\ IsFiniteSet(1..Len(s))
    BY <1>1, FS_Interval
  <2>2. IsFiniteSet(A)
    BY <2>1, FS_Subset
  <2> QED
    BY <1>1, <2>2
<1>3. CASE y = x
  <2>1. B = A \cup {Len(s) + 1}
    BY <1>1, <1>3
  <2>2. Cardinality(A \cup {Len(s) + 1}) = Cardinality(A) + 1
    <3> HIDE DEF A
    <3> QED
      BY <1>2, FS_AddElement
  <2> QED
    BY <1>3, <2>1, <2>2 DEF Times
<1>4. CASE y # x
  <2>1. B = A
    BY <1>1, <1>4
  <2> QED
    BY <1>4, <2>1 DEF Times
<1> QED
  BY <1>3, <1>4

LEMMA TimesConcat ==
    ASSUME NEW X, NEW s \in Seq(X), NEW t \in Seq(X), NEW x
    PROVE  Times(s \o t, x) = Times(s, x) + Times(t, x)
<1> DEFINE u == s \o t
           A == {k \in DOMAIN s : s[k] = x}
           B == {k \in DOMAIN t : t[k] = x}
           C == {k \in DOMAIN u : k > Len(s) /\ u[k] = x}
           f == [k \in B |-> k + Len(s)]
<1>1. /\ DOMAIN s = 1..Len(s) /\ Len(s) \in Nat
      /\ DOMAIN t = 1..Len(t) /\ Len(t) \in Nat
      /\ DOMAIN u = 1..(Len(s) + Len(t))
      /\ \A k \in DOMAIN u : u[k] = IF k <= Len(s) THEN s[k] ELSE t[k - Len(s)]
  OBVIOUS
<1>2. IsFiniteSet(A) /\ IsFiniteSet(B)
  <2>1. \A n \in Nat : IsFiniteSet(1..n)
    BY ONLY FS_Interval
  <2>2. A \in SUBSET (1..Len(s))
    BY <1>1
  <2>3. B \in SUBSET (1..Len(t))
    BY <1>1
  <2>4. IsFiniteSet(1..Len(s)) /\ IsFiniteSet(1..Len(t))
    BY <1>1, <2>1
  <2> HIDE DEF A, B
  <2> QED
    BY <2>2, <2>3, <2>4, FS_Subset
<1>3. f \in Bijection(B, C)
  <2>0. \A b \in B : b \in 1..Len(t) /\ b + Len(s) \in C
    BY <1>1
  <2>1. f \in [B -> C] /\ DOMAIN f = B /\ \A a, b \in B : f[a] = f[b] => a = b
    <3> HIDE DEF B, C
    <3> QED
      BY <1>1, <2>0
  <2>2. ASSUME NEW c \in C PROVE \E b \in B : f[b] = c
    <3>1. c - Len(s) \in B /\ f[c - Len(s)] = c
      BY <1>1
    <3> QED
      BY <3>1
  <2> HIDE DEF B, C, f
  <2> QED
    BY <2>1, <2>2, Zenon DEF Bijection, Injection, Surjection, IsInjective
<1>4. ExistsBijection(B, C)
  BY <1>3 DEF ExistsBijection
<1>5. IsFiniteSet(C) /\ Cardinality(C) = Cardinality(B)
  BY <1>2, <1>4, FS_Bijection
<1>6. {k \in DOMAIN u : u[k] = x} = A \cup C /\ A \cap C = {}
  BY <1>1
<1>7. Cardinality(A \cup C) = Cardinality(A) + Cardinality(C)
  <2> HIDE DEF A, C
  <2>1. /\ Cardinality(A \cup C) = Cardinality(A) + Cardinality(C) - Cardinality(A \cap C)
        /\ Cardinality(A) \in Nat /\ Cardinality(C) \in Nat
    BY <1>2, <1>5, FS_Union, FS_CardinalityType
  <2>2. Cardinality(A \cap C) = 0
    BY <1>6, FS_EmptySet
  <2> QED
    BY <2>1, <2>2
<1> QED
  BY <1>5, <1>6, <1>7 DEF Times
-----------------------------------------------------------------------------
(***************************************************************************)
(* The invariant.                                                          *)
(***************************************************************************)

Messages == {"input", "warning", "failed"} \X (Docs \cup {None})

\* A miner reads, under InputLock; it analyses or writes a document; it holds
\* a document.
Reading == {"info", "body", "copy"}
Analysing == {"resolve", "insert", "proceed", "output", "write"}
Holding == {"body", "copy", "report"} \cup Analysing

TypeInv ==
    /\ setup \in Setups
    /\ kind \in [Docs -> DocKinds]
    /\ m_iCurPath \in 1..(DocCount + 1)
    /\ DocBody \in Docs \cup {None}
    /\ mpc \in [Miners -> {"input", "stopped"} \cup Reading \cup Holding]
    /\ docAttr \in [Miners -> Docs \cup {None}]
    /\ text \in [Miners -> Docs \cup {None}]
    /\ ErrorStream \in [Miners -> Seq(Messages)]
    /\ Errors \in Seq(Messages)
    /\ done \subseteq Docs

\* How often the failure of a document is in the reports and in a miner's
\* stream.
Reported(d) == Times(Errors, <<"failed", d>>)
Noted(m, d) == Times(ErrorStream[m], <<"failed", d>>)

Over(d) == d \in done \/ Reported(d) = 1

LockInv == \A m \in Miners : mpc[m] \in Reading => InputLock = m

\* A document that is held has been read, is nobody else's, and is not over.
HoldInv ==
    \A m \in Miners : mpc[m] \in Holding =>
        /\ docAttr[m] \in 1..(m_iCurPath - 1)
        /\ docAttr[m] \notin done /\ Reported(docAttr[m]) = 0
        /\ \A n \in Miners : mpc[n] \in Holding /\ n # m => docAttr[n] # docAttr[m]
        /\ mpc[m] # "body" => kind[docAttr[m]] # "skipped"
        /\ mpc[m] = "copy" => DocBody = docAttr[m]
        /\ mpc[m] \in Analysing => text[m] = docAttr[m]

\* A stream holds a failure only while its miner is about to report it.
StreamInv ==
    \A m \in Miners, d \in Docs :
        Noted(m, d) = IF mpc[m] = "report" /\ docAttr[m] = d THEN 1 ELSE 0

\* A document is over once at most, and only after it was read; one that was
\* read is over, held or passed over.
DocInv ==
    \A d \in Docs :
        /\ Reported(d) \in {0, 1}
        /\ d \in done => Reported(d) = 0
        /\ Over(d) => d < m_iCurPath /\ kind[d] # "skipped"
        /\ d < m_iCurPath =>
               /\ kind[d] # "throws"
               /\ \/ kind[d] = "skipped" \/ Over(d)
                  \/ \E m \in Miners : mpc[m] \in Holding /\ docAttr[m] = d

\* A miner stops when there is nothing left to read.
NothingLeft == m_iCurPath \in Docs => kind[m_iCurPath] = "throws"

EndInv ==
    /\ \A m \in setup.miners : mpc[m] = "stopped" => NothingLeft
    /\ saved # None => \A m \in Miners : mpc[m] = "stopped"

IInv == TypeInv /\ LockInv /\ HoldInv /\ StreamInv /\ DocInv /\ EndInv

-----------------------------------------------------------------------------
(***************************************************************************)
(* Messages.                                                               *)
(***************************************************************************)

\* A failure is noted for the miner's document; other messages are not counted.
LEMMA MessageNoted ==
    ASSUME TypeInv, NEW m \in Miners, NEW what \in {"input", "warning", "failed"},
           Message(m, what)
    PROVE  /\ ErrorStream' \in [Miners -> Seq(Messages)]
           /\ \A n \in Miners, d \in Docs :
                  Noted(n, d)' = IF n = m /\ what = "failed" /\ docAttr[m] = d
                                 THEN Noted(n, d) + 1 ELSE Noted(n, d)
<1> DEFINE y == <<what, docAttr[m]>>
<1>1. y \in Messages /\ ErrorStream \in [Miners -> Seq(Messages)]
  BY DEF TypeInv, Messages
<1>2. ErrorStream' = [ErrorStream EXCEPT ![m] = Append(ErrorStream[m], y)]
  BY DEF Message
<1>3. ErrorStream' \in [Miners -> Seq(Messages)]
  <2> HIDE DEF y
  <2>1. Append(ErrorStream[m], y) \in Seq(Messages)
    BY <1>1
  <2> QED
    BY <1>1, <1>2, <2>1
<1>4. ASSUME NEW n \in Miners, NEW d \in Docs
      PROVE  Noted(n, d)' = IF n = m /\ what = "failed" /\ docAttr[m] = d
                            THEN Noted(n, d) + 1 ELSE Noted(n, d)
  <2>1. CASE n # m
    <3>1. ErrorStream'[n] = ErrorStream[n]
      BY <1>1, <1>2, <2>1
    <3> QED
      BY <2>1, <3>1 DEF Noted
  <2>2. CASE n = m
    <3>1. ErrorStream'[m] = Append(ErrorStream[m], y)
      BY <1>1, <1>2
    <3>2. y = <<"failed", d>> <=> what = "failed" /\ docAttr[m] = d
      OBVIOUS
    <3>3. Times(Append(ErrorStream[m], y), <<"failed", d>>) =
            IF y = <<"failed", d>> THEN Times(ErrorStream[m], <<"failed", d>>) + 1
                                   ELSE Times(ErrorStream[m], <<"failed", d>>)
      <4> HIDE DEF y
      <4> QED
        BY <1>1, TimesAppend
    <3> QED
      BY <2>2, <3>1, <3>2, <3>3 DEF Noted
  <2> QED
    BY <2>1, <2>2
<1> QED
  BY <1>3, <1>4

-----------------------------------------------------------------------------
(***************************************************************************)
(* The steps.                                                              *)
(***************************************************************************)

\* Steps of the analysis and of the output that leave the miner with its
\* document.
LEMMA KeepsDocument ==
    ASSUME IInv, NEW m \in Miners, NEW pc \in Analysing,
           mpc[m] \in Analysing, mpc' = [mpc EXCEPT ![m] = pc],
           UNCHANGED <<params, inputVars, done, Errors, saved>>,
           ErrorStream' \in [Miners -> Seq(Messages)],
           \A n \in Miners, d \in Docs : Noted(n, d)' = Noted(n, d)
    PROVE  IInv'
<1> USE DEF IInv
<1>1. /\ UNCHANGED <<setup, kind, m_iCurPath, DocBody, InputLock, docAttr, text, done, saved>>
      /\ \A d : Over(d)' = Over(d) /\ Reported(d)' = Reported(d)
  BY DEF params, inputVars, Reported, Over
<1>2. \A n \in Miners :
          /\ mpc'[n] \in Holding <=> mpc[n] \in Holding
          /\ mpc'[n] \in Analysing <=> mpc[n] \in Analysing
          /\ mpc'[n] \in Reading <=> mpc[n] \in Reading
          /\ \A x \in {"stopped", "report", "body", "copy"} : mpc'[n] = x <=> mpc[n] = x
  BY DEF TypeInv, Holding, Analysing, Reading
<1>3. TypeInv'
  BY <1>1 DEF TypeInv, Holding
<1>4. LockInv'
  BY <1>1, <1>2 DEF LockInv
<1>5. HoldInv'
  BY <1>1, <1>2 DEF HoldInv
<1>6. StreamInv'
  BY <1>1, <1>2 DEF StreamInv
<1>7. DocInv'
  BY <1>1, <1>2 DEF DocInv
<1>8. EndInv'
  BY <1>1, <1>2, MinerAssumption DEF EndInv, NothingLeft, TypeInv
<1> QED
  BY <1>3, <1>4, <1>5, <1>6, <1>7, <1>8

\* The analysis or a writer throws.
LEMMA Fails ==
    ASSUME IInv, NEW m \in Miners,
           mpc[m] \in Analysing, mpc' = [mpc EXCEPT ![m] = "report"],
           UNCHANGED <<params, inputVars, done, Errors, saved>>,
           Message(m, "failed")
    PROVE  IInv'
<1> USE DEF IInv, params, inputVars, Reported, Over
<1>1. \A n \in Miners : mpc'[n] = IF n = m THEN "report" ELSE mpc[n]
  BY DEF TypeInv
<1>2. /\ mpc[m] \in Holding /\ "report" \in Holding
      /\ mpc[m] \notin Reading \cup {"stopped", "report", "input", "body", "copy"}
      /\ "report" \notin Reading \cup Analysing
  BY DEF Holding, Analysing, Reading
<1>3. /\ ErrorStream' \in [Miners -> Seq(Messages)]
      /\ \A n \in Miners, d \in Docs :
             Noted(n, d)' = IF n = m /\ docAttr[m] = d
                            THEN Noted(n, d) + 1 ELSE Noted(n, d)
  BY MessageNoted
<1>4. TypeInv'
  BY <1>2, <1>3 DEF TypeInv
<1>5. LockInv'
  BY <1>1, <1>2 DEF LockInv
<1>6. HoldInv'
  BY <1>1, <1>2 DEF HoldInv
<1>7. StreamInv'
  BY <1>1, <1>2, <1>3 DEF StreamInv
<1>8. DocInv'
  <2>1. \A n \in Miners : mpc[n] \in Holding => mpc'[n] \in Holding
    BY <1>1, <1>2
  <2> QED
    BY <2>1 DEF DocInv
<1>9. EndInv'
  BY <1>1, <1>2 DEF EndInv, NothingLeft
<1> QED
  BY <1>4, <1>5, <1>6, <1>7, <1>8, <1>9
\* A miner takes InputLock.
LEMMA NextDocumentStep ==
    ASSUME IInv, NEW m \in Miners, NextDocument(m)
    PROVE  IInv'
<1> USE DEF IInv
<1>1. /\ mpc[m] = "input" /\ mpc' = [mpc EXCEPT ![m] = "info"]
      /\ InputLock = None /\ InputLock' = m
      /\ UNCHANGED <<setup, kind, m_iCurPath, DocBody, docAttr, text, done,
                     ErrorStream, Errors, saved>>
  BY DEF NextDocument, LockInput, Goto, params, outputVars, errorVars
<1>2. \A n \in Miners : /\ mpc'[n] = IF n = m THEN "info" ELSE mpc[n]
                        /\ mpc'[n] \in Holding <=> mpc[n] \in Holding
                        /\ mpc[n] \notin Reading
  BY <1>1 DEF TypeInv, LockInv, Holding, Analysing
<1>3. \A d : /\ Over(d)' = Over(d) /\ Reported(d)' = Reported(d)
             /\ \A n : Noted(n, d)' = Noted(n, d)
  BY <1>1 DEF Reported, Over, Noted
<1>4. TypeInv'
  BY <1>1 DEF TypeInv, Reading
<1>5. LockInv'
  BY <1>1, <1>2 DEF LockInv
<1>6. HoldInv'
  BY <1>1, <1>2, <1>3 DEF HoldInv, Analysing
<1>7. StreamInv'
  BY <1>1, <1>2, <1>3 DEF StreamInv
<1>8. DocInv'
  BY <1>1, <1>2, <1>3 DEF DocInv
<1>9. EndInv'
  BY <1>1, <1>2 DEF EndInv, NothingLeft, TypeInv
<1> QED
  BY <1>4, <1>5, <1>6, <1>7, <1>8, <1>9

\* The end of the folder, or a document that the reader cannot get past.
LEMMA StopsStep ==
    ASSUME IInv, NEW m \in Miners, NoNextDoc(m) \/ InputThrows(m)
    PROVE  IInv'
<1> USE DEF IInv
<1>1. /\ mpc[m] = "info" /\ mpc' = [mpc EXCEPT ![m] = "stopped"]
      /\ InputLock' = None /\ NothingLeft
      /\ UNCHANGED <<setup, kind, m_iCurPath, DocBody, docAttr, text, done, Errors, saved>>
  BY DEF NoNextDoc, InputThrows, NothingLeft, Docs, Goto, params, outputVars, errorVars,
      TypeInv
<1>2. /\ ErrorStream' \in [Miners -> Seq(Messages)]
      /\ \A n \in Miners, d \in Docs : Noted(n, d)' = Noted(n, d)
  <2>1. CASE NoNextDoc(m)
    BY <2>1 DEF NoNextDoc, errorVars, Noted, TypeInv
  <2>2. CASE InputThrows(m)
    BY <2>2, MessageNoted DEF InputThrows
  <2> QED
    BY <2>1, <2>2
<1>3. InputLock = m /\ "info" \in Reading
  BY <1>1 DEF LockInv, Reading
<1>4. \A n \in Miners : /\ mpc'[n] = IF n = m THEN "stopped" ELSE mpc[n]
                        /\ mpc'[n] \in Holding <=> mpc[n] \in Holding
                        /\ mpc'[n] \notin Reading
  BY <1>1, <1>3 DEF TypeInv, LockInv, Holding, Analysing, Reading
<1>5. \A d : Over(d)' = Over(d) /\ Reported(d)' = Reported(d)
  BY <1>1 DEF Reported, Over
<1>6. TypeInv'
  BY <1>1, <1>2 DEF TypeInv
<1>7. LockInv'
  BY <1>4 DEF LockInv
<1>8. HoldInv'
  BY <1>1, <1>4, <1>5 DEF HoldInv, Analysing
<1>9. StreamInv'
  BY <1>1, <1>2, <1>4 DEF StreamInv
<1>10. DocInv'
  BY <1>1, <1>4, <1>5 DEF DocInv
<1>11. EndInv'
  BY <1>1, <1>4 DEF EndInv, NothingLeft, TypeInv
<1> QED
  BY <1>6, <1>7, <1>8, <1>9, <1>10, <1>11

\* The next document of the folder becomes the miner's.
LEMMA GetNextDocInfoStep ==
    ASSUME IInv, NEW m \in Miners, GetNextDocInfo(m)
    PROVE  IInv'
<1> USE DEF IInv
<1>1. /\ mpc[m] = "info" /\ mpc' = [mpc EXCEPT ![m] = "body"]
      /\ m_iCurPath \in Docs /\ kind[m_iCurPath] # "throws"
      /\ m_iCurPath' = m_iCurPath + 1 /\ DocBody' = None
      /\ docAttr' = [docAttr EXCEPT ![m] = m_iCurPath]
      /\ UNCHANGED <<setup, kind, InputLock, text, done, ErrorStream, Errors, saved>>
  BY DEF GetNextDocInfo, Goto, params, outputVars, errorVars
<1>2. /\ \A n \in Miners : /\ mpc'[n] = IF n = m THEN "body" ELSE mpc[n]
                           /\ docAttr'[n] = IF n = m THEN m_iCurPath ELSE docAttr[n]
                           /\ n # m => mpc[n] \notin Reading
      /\ mpc[m] \notin Holding /\ "body" \in Holding
  BY <1>1 DEF TypeInv, LockInv, Holding, Analysing, Reading
<1>3. \A d : /\ Over(d)' = Over(d) /\ Reported(d)' = Reported(d)
             /\ \A n : Noted(n, d)' = Noted(n, d)
  BY <1>1 DEF Reported, Over, Noted
<1>4. m_iCurPath \notin done /\ Reported(m_iCurPath) = 0
  BY <1>1 DEF DocInv, Over, Docs
<1>5. TypeInv'
  BY <1>1 DEF TypeInv, Holding, Docs
<1>6. LockInv'
  BY <1>1, <1>2 DEF LockInv, Reading
<1>7. HoldInv'
  <2> SUFFICES ASSUME NEW n \in Miners, mpc'[n] \in Holding
               PROVE  /\ docAttr'[n] \in 1..(m_iCurPath' - 1)
                      /\ docAttr'[n] \notin done' /\ Reported(docAttr[n])' = 0
                      /\ \A k \in Miners :
                             mpc'[k] \in Holding /\ k # n => docAttr'[k] # docAttr'[n]
                      /\ mpc'[n] # "body" => kind'[docAttr'[n]] # "skipped"
                      /\ mpc'[n] = "copy" => DocBody' = docAttr'[n]
                      /\ mpc'[n] \in Analysing => text'[n] = docAttr'[n]
    BY DEF HoldInv
  <2>1. \A k \in Miners : k # m /\ mpc[k] \in Holding => docAttr[k] \in 1..(m_iCurPath - 1)
    BY DEF HoldInv
  <2>2. Reported(docAttr[n])' = Reported(docAttr'[n])
    BY <1>1 DEF Reported
  <2>3. CASE n = m
    BY <1>1, <1>2, <1>4, <2>1, <2>2, <2>3 DEF Analysing, TypeInv, Docs
  <2>4. CASE n # m
    BY <1>1, <1>2, <2>1, <2>2, <2>4 DEF HoldInv, Reading, TypeInv, Docs
  <2> QED
    BY <2>3, <2>4
<1>8. StreamInv'
  BY <1>1, <1>2, <1>3 DEF StreamInv
<1>9. DocInv'
  <2> SUFFICES ASSUME NEW d \in Docs
               PROVE  /\ Reported(d) \in {0, 1}
                      /\ d \in done => Reported(d) = 0
                      /\ Over(d) => d < m_iCurPath' /\ kind[d] # "skipped"
                      /\ d < m_iCurPath' =>
                             /\ kind[d] # "throws"
                             /\ \/ kind[d] = "skipped" \/ Over(d)
                                \/ \E n \in Miners : mpc'[n] \in Holding /\ docAttr'[n] = d
    BY <1>1, <1>3 DEF DocInv
  <2>1. d < m_iCurPath' => d < m_iCurPath \/ d = m_iCurPath
    BY <1>1 DEF TypeInv, Docs
  <2>2. d < m_iCurPath => d < m_iCurPath'
    BY <1>1 DEF TypeInv, Docs
  <2> QED
    BY <1>1, <1>2, <2>1, <2>2 DEF DocInv
<1>10. EndInv'
  BY <1>1, <1>2 DEF EndInv, NothingLeft, TypeInv
<1> QED
  BY <1>5, <1>6, <1>7, <1>8, <1>9, <1>10

\* The document is read, or passed over.
LEMMA GetDocBodyStep ==
    ASSUME IInv, NEW m \in Miners, GetDocBodyByAdress(m)
    PROVE  IInv'
<1> USE DEF IInv
<1>1. /\ mpc[m] = "body"
      /\ \/ /\ kind[docAttr[m]] = "skipped"
            /\ DocBody' = DocBody /\ mpc' = [mpc EXCEPT ![m] = "info"]
         \/ /\ kind[docAttr[m]] # "skipped"
            /\ DocBody' = docAttr[m] /\ mpc' = [mpc EXCEPT ![m] = "copy"]
      /\ UNCHANGED <<setup, kind, m_iCurPath, InputLock, docAttr, text, done,
                     ErrorStream, Errors, saved>>
  BY DEF GetDocBodyByAdress, Goto, params, outputVars, errorVars
<1>2. /\ \A n \in Miners : n # m => mpc'[n] = mpc[n] /\ mpc[n] \notin Reading
      /\ mpc'[m] = IF kind[docAttr[m]] = "skipped" THEN "info" ELSE "copy"
      /\ InputLock = m
  BY <1>1 DEF TypeInv, LockInv, Reading
<1>3. \A d : /\ Over(d)' = Over(d) /\ Reported(d)' = Reported(d)
             /\ \A n : Noted(n, d)' = Noted(n, d)
  BY <1>1 DEF Reported, Over, Noted
<1>4. mpc[m] \in Holding /\ "info" \notin Holding /\ {"info", "copy"} \subseteq Reading
  BY <1>1 DEF Holding, Analysing, Reading
<1>5. TypeInv'
  BY ZenonT(40), <1>1 DEF TypeInv, Holding, Reading
<1>6. LockInv'
  BY <1>1, <1>2 DEF LockInv
<1>7. HoldInv'
  <2>1. ASSUME NEW n \in Miners, mpc'[n] \in Holding
        PROVE  mpc[n] \in Holding /\ (n # m => mpc'[n] = mpc[n] /\ mpc[n] # "copy")
    BY <1>2, <1>4, <2>1 DEF Reading
  <2>2. mpc'[m] \in Holding => mpc'[m] = "copy" /\ DocBody' = docAttr[m]
                                /\ kind[docAttr[m]] # "skipped"
    BY <1>1, <1>2, <1>4
  <2>3. "copy" \notin Analysing
    BY DEF Analysing
  <2> QED
    BY <1>1, <1>3, <2>1, <2>2, <2>3 DEF HoldInv
<1>8. StreamInv'
  BY <1>1, <1>2, <1>3 DEF StreamInv
<1>9. DocInv'
  <2>1. \A d \in Docs, n \in Miners :
            mpc[n] \in Holding /\ docAttr[n] = d =>
                kind[d] = "skipped" \/ (mpc'[n] \in Holding /\ docAttr'[n] = d)
    BY <1>1, <1>2 DEF Holding
  <2> QED
    BY <1>1, <1>3, <2>1 DEF DocInv
<1>10. EndInv'
  BY <1>1, <1>2 DEF EndInv, NothingLeft, TypeInv
<1> QED
  BY <1>5, <1>6, <1>7, <1>8, <1>9, <1>10

\* The text is the document's, and InputLock is given back.
LEMMA CopyBodyStep ==
    ASSUME IInv, NEW m \in Miners, CopyBody(m)
    PROVE  IInv'
<1> USE DEF IInv
<1>1. /\ mpc[m] = "copy" /\ mpc' = [mpc EXCEPT ![m] = "resolve"]
      /\ InputLock' = None /\ text' = [text EXCEPT ![m] = DocBody]
      /\ UNCHANGED <<setup, kind, m_iCurPath, DocBody, docAttr, done,
                     ErrorStream, Errors, saved>>
  BY DEF CopyBody, Goto, params, outputVars, errorVars
<1>2. /\ \A n \in Miners : /\ mpc'[n] = IF n = m THEN "resolve" ELSE mpc[n]
                           /\ text'[n] = IF n = m THEN DocBody ELSE text[n]
                           /\ n # m => mpc[n] \notin Reading
                           /\ mpc'[n] \in Holding <=> mpc[n] \in Holding
      /\ mpc[m] \in Holding
  BY <1>1 DEF TypeInv, LockInv, Holding, Analysing, Reading
<1>3. \A d : /\ Over(d)' = Over(d) /\ Reported(d)' = Reported(d)
             /\ \A n : Noted(n, d)' = Noted(n, d)
  BY <1>1 DEF Reported, Over, Noted
<1>4. TypeInv'
  BY <1>1 DEF TypeInv, Holding, Analysing
<1>5. LockInv'
  BY <1>1, <1>2 DEF LockInv, Reading
<1>6. HoldInv'
  BY <1>1, <1>2, <1>3 DEF HoldInv
<1>7. StreamInv'
  BY <1>1, <1>2, <1>3 DEF StreamInv
<1>8. DocInv'
  BY <1>1, <1>2, <1>3 DEF DocInv
<1>9. EndInv'
  BY <1>1, <1>2 DEF EndInv, NothingLeft, TypeInv
<1> QED
  BY <1>4, <1>5, <1>6, <1>7, <1>8, <1>9
\* The document has been put out.
LEMMA OutputEndsStep ==
    ASSUME IInv, NEW m \in Miners, OutputEnds(m)
    PROVE  IInv'
<1> USE DEF IInv
<1>1. /\ mpc[m] = "write" /\ mpc' = [mpc EXCEPT ![m] = "input"]
      /\ done' = done \cup {text[m]}
      /\ UNCHANGED <<setup, kind, m_iCurPath, InputLock, DocBody, docAttr, text,
                     ErrorStream, Errors, saved>>
  BY DEF OutputEnds, Goto, params, inputVars, errorVars
<1>2. /\ \A n \in Miners : mpc'[n] = IF n = m THEN "input" ELSE mpc[n]
      /\ mpc[m] \in Holding /\ "input" \notin Holding
  BY <1>1 DEF TypeInv, Holding, Analysing
<1>3. /\ text[m] = docAttr[m] /\ docAttr[m] \in 1..(m_iCurPath - 1)
      /\ Reported(docAttr[m]) = 0 /\ kind[docAttr[m]] # "skipped"
  BY <1>1, <1>2 DEF HoldInv, Analysing
<1>4. \A d : /\ Reported(d)' = Reported(d)
             /\ Over(d)' <=> Over(d) \/ d = docAttr[m]
             /\ \A n : Noted(n, d)' = Noted(n, d)
  BY <1>1, <1>3 DEF Reported, Over, Noted
<1>5. docAttr[m] \in Docs
  BY <1>3 DEF TypeInv, Docs
<1>6. TypeInv'
  BY <1>1, <1>3, <1>5 DEF TypeInv
<1>7. LockInv'
  BY <1>1, <1>2 DEF LockInv, Reading
<1>8. HoldInv'
  BY <1>1, <1>2, <1>3, <1>4 DEF HoldInv
<1>9. StreamInv'
  BY <1>1, <1>2, <1>4 DEF StreamInv
<1>10. DocInv'
  <2>1. \A d \in Docs, n \in Miners :
            mpc[n] \in Holding /\ docAttr[n] = d =>
                d = docAttr[m] \/ (mpc'[n] \in Holding /\ docAttr'[n] = d)
    BY <1>1, <1>2
  <2>2. docAttr[m] < m_iCurPath
    BY <1>3 DEF TypeInv
  <2> QED
    BY <1>1, <1>3, <1>4, <2>1, <2>2 DEF DocInv
<1>11. EndInv'
  BY <1>1, <1>2 DEF EndInv, NothingLeft, TypeInv
<1> QED
  BY <1>6, <1>7, <1>8, <1>9, <1>10, <1>11

\* The failure is reported and the stream is cleared.
LEMMA OutputErrorStep ==
    ASSUME IInv, NEW m \in Miners, OutputError(m)
    PROVE  IInv'
<1> USE DEF IInv
<1>1. /\ mpc[m] = "report" /\ mpc' = [mpc EXCEPT ![m] = "input"]
      /\ Errors' = Errors \o ErrorStream[m]
      /\ ErrorStream' = [ErrorStream EXCEPT ![m] = <<>>]
      /\ UNCHANGED <<setup, kind, m_iCurPath, InputLock, DocBody, docAttr, text, done, saved>>
  BY DEF OutputError, Goto, params, inputVars, outputVars
<1>2. /\ \A n \in Miners : mpc'[n] = IF n = m THEN "input" ELSE mpc[n]
      /\ mpc[m] \in Holding /\ "input" \notin Holding
  BY <1>1 DEF TypeInv, Holding, Analysing
<1>3. /\ docAttr[m] \in 1..(m_iCurPath - 1) /\ docAttr[m] \notin done
      /\ Reported(docAttr[m]) = 0 /\ kind[docAttr[m]] # "skipped"
  BY <1>1, <1>2 DEF HoldInv
<1>4. docAttr[m] \in Docs
  BY <1>3 DEF TypeInv, Docs
<1>5. ASSUME NEW d \in Docs
      PROVE  Reported(d)' = IF d = docAttr[m] THEN 1 ELSE Reported(d)
  <2>1. Reported(d)' = Reported(d) + Noted(m, d)
    BY <1>1, TimesConcat DEF Reported, Noted, TypeInv
  <2>2. Noted(m, d) = IF d = docAttr[m] THEN 1 ELSE 0
    BY <1>1 DEF StreamInv
  <2>3. Reported(d) \in Nat
    BY TimesType DEF Reported, TypeInv
  <2> QED
    BY <1>3, <2>1, <2>2, <2>3
<1>6. ASSUME NEW n \in Miners, NEW d \in Docs
      PROVE  Noted(n, d)' = IF n = m THEN 0 ELSE Noted(n, d)
  BY <1>1, TimesEmpty DEF Noted, TypeInv
<1>7. \A d \in Docs : Over(d)' <=> Over(d) \/ d = docAttr[m]
  BY <1>1, <1>5 DEF Over
<1>8. TypeInv'
  BY <1>1 DEF TypeInv
<1>9. LockInv'
  BY <1>1, <1>2 DEF LockInv, Reading
<1>10. HoldInv'
  <2>1. \A n \in Miners : mpc[n] \in Holding => docAttr[n] \in Docs
    BY DEF HoldInv, TypeInv, Docs
  <2>2. \A n \in Miners : Reported(docAttr[n])' = Times(Errors', <<"failed", docAttr[n]>>)
    BY <1>1 DEF Reported
  <2>3. \A d \in Docs : Reported(d)' = Times(Errors', <<"failed", d>>)
    BY DEF Reported
  <2>4. ASSUME NEW n \in Miners, mpc[n] \in Holding, n # m
        PROVE  Reported(docAttr[n])' = 0
    <3>1. /\ docAttr[n] \in Docs /\ docAttr[n] # docAttr[m]
          /\ Times(Errors, <<"failed", docAttr[n]>>) = 0
      BY <1>2, <2>1, <2>4 DEF HoldInv, Reported
    <3>2. \A d \in Docs : d # docAttr[m] =>
              Times(Errors', <<"failed", d>>) = Times(Errors, <<"failed", d>>)
      BY <1>5, <2>3 DEF Reported
    <3> QED
      BY <2>2, <3>1, <3>2
  <2> QED
    BY <1>1, <1>2, <2>4 DEF HoldInv
<1>11. StreamInv'
  BY <1>1, <1>2, <1>6 DEF StreamInv
<1>12. DocInv'
  <2>1. \A d \in Docs, n \in Miners :
            mpc[n] \in Holding /\ docAttr[n] = d =>
                d = docAttr[m] \/ (mpc'[n] \in Holding /\ docAttr'[n] = d)
    BY <1>1, <1>2
  <2>2. docAttr[m] < m_iCurPath
    BY <1>3 DEF TypeInv
  <2> QED
    BY <1>1, <1>3, <1>5, <1>7, <2>1, <2>2 DEF DocInv
<1>13. EndInv'
  BY <1>1, <1>2 DEF EndInv, NothingLeft, TypeInv
<1> QED
  BY <1>8, <1>9, <1>10, <1>11, <1>12, <1>13

\* The steps of one miner.
LEMMA MinerStepIInv ==
    ASSUME IInv, NEW m \in Miners, MinerStep(m)
    PROVE  IInv'
<1>1. mpc \in [Miners -> {"input", "stopped"} \cup Reading \cup Holding]
  BY DEF IInv, TypeInv
<1>2. CASE \/ ResolveOptionArticles(m) \/ ResolveEnds(m)
           \/ OutputFacts(m) \/ Write(m) \/ WriteUnnoticed(m)
  <2>1. PICK pc \in Analysing : mpc' = [mpc EXCEPT ![m] = pc]
    <3>1. CASE Write(m) \/ WriteUnnoticed(m)
      <4>1. "write" \in Analysing /\ mpc' = [mpc EXCEPT ![m] = "write"]
        BY <1>1, <3>1 DEF Write, WriteUnnoticed, Analysing
      <4> QED
        BY <4>1
    <3>2. CASE ~(Write(m) \/ WriteUnnoticed(m))
      BY <1>2, <3>2 DEF ResolveOptionArticles, ResolveEnds, OutputFacts, Goto, Analysing
    <3> QED
      BY <3>1, <3>2
  <2>2. /\ UNCHANGED <<params, inputVars, done, ErrorStream, Errors, saved>>
        /\ mpc[m] \in Analysing
    BY <1>2 DEF ResolveOptionArticles, ResolveEnds, OutputFacts, Write, WriteUnnoticed,
        outputVars, errorVars, Analysing
  <2>3. /\ ErrorStream' \in [Miners -> Seq(Messages)]
        /\ \A n \in Miners, d \in Docs : Noted(n, d)' = Noted(n, d)
    BY <2>2 DEF IInv, TypeInv, Noted
  <2> QED
    BY <2>1, <2>2, <2>3, KeepsDocument
<1>3. CASE Proceed(m)
  <2>1. /\ UNCHANGED <<params, inputVars, done, Errors, saved>>
        /\ mpc[m] \in Analysing /\ "output" \in Analysing
        /\ mpc' = [mpc EXCEPT ![m] = "output"]
        /\ ErrorStream' = ErrorStream \/ Message(m, "warning")
    BY <1>3 DEF Proceed, Goto, outputVars, Analysing
  <2>2. /\ ErrorStream' \in [Miners -> Seq(Messages)]
        /\ \A n \in Miners, d \in Docs : Noted(n, d)' = Noted(n, d)
    BY <2>1, MessageNoted DEF IInv, TypeInv, Noted
  <2> QED
    BY <2>1, <2>2, KeepsDocument
<1>4. CASE ProceedThrows(m) \/ WriteThrows(m)
  BY <1>4, Fails DEF ProceedThrows, WriteThrows, Goto, outputVars, Analysing
<1> QED
  BY <1>2, <1>3, <1>4, NextDocumentStep, StopsStep, GetNextDocInfoStep, GetDocBodyStep,
      CopyBodyStep, OutputEndsStep, OutputErrorStep DEF MinerStep

-----------------------------------------------------------------------------
LEMMA InitIInv == Init => IInv
<1> SUFFICES ASSUME Init PROVE IInv
  OBVIOUS
<1>1. \A d : Reported(d) = 0 /\ \A m \in Miners : Noted(m, d) = 0
  BY TimesEmpty DEF Init, Reported, Noted
<1>2. TypeInv
  BY DEF Init, TypeInv
<1>3. LockInv /\ HoldInv
  BY DEF Init, LockInv, HoldInv, Reading, Holding, Analysing
<1>4. StreamInv
  BY <1>1 DEF Init, StreamInv
<1>5. DocInv
  BY <1>1 DEF Init, DocInv, Over, Docs
<1>6. EndInv
  BY DEF Init, EndInv
<1> QED
  BY <1>2, <1>3, <1>4, <1>5, <1>6 DEF IInv

LEMMA SaveStep ==
    ASSUME IInv, SaveToFile
    PROVE  IInv'
<1> USE DEF IInv
<1>1. /\ \A m \in Miners : mpc[m] = "stopped"
      /\ UNCHANGED <<setup, kind, m_iCurPath, DocBody, InputLock, docAttr, text, done,
                     ErrorStream, Errors, mpc>>
  BY DEF SaveToFile, params, inputVars, outputVars, errorVars
<1> QED
  BY <1>1 DEF TypeInv, LockInv, HoldInv, StreamInv, DocInv, EndInv, NothingLeft, Over,
      Reported, Noted

LEMMA NextIInv == IInv /\ [Next]_vars => IInv'
<1> SUFFICES ASSUME IInv, [Next]_vars PROVE IInv'
  OBVIOUS
<1>1. CASE UNCHANGED vars
  BY <1>1 DEF vars, params, inputVars, outputVars, errorVars, IInv, TypeInv, LockInv,
      HoldInv, StreamInv, DocInv, EndInv, NothingLeft, Over, Reported, Noted
<1> QED
  BY <1>1, MinerStepIInv, SaveStep DEF Next

LEMMA Invariance == Spec => []IInv
BY InitIInv, NextIInv, PTL DEF Spec

\* When the program has ended, the documents that are over are the ones that
\* were to be obtained.
LEMMA EndIsComplete ==
    ASSUME IInv, saved # None, NEW d \in Docs
    PROVE  d \in Obtained <=> Over(d)
<1> USE DEF IInv
<1>1. \A m \in Miners : mpc[m] = "stopped" /\ mpc[m] \notin Holding
  BY DEF EndInv, Holding, Analysing
<1>2. NothingLeft
  BY <1>1 DEF EndInv, TypeInv
<1>3. CASE d < m_iCurPath
  <2>1. Over(d) <=> kind[d] # "skipped"
    BY <1>1, <1>3 DEF DocInv
  <2>2. \A e \in 1..d : e \in Docs /\ e < m_iCurPath
    BY <1>3 DEF Docs, TypeInv
  <2>3. \A e \in 1..d : kind[e] # "throws"
    BY <2>2 DEF DocInv
  <2> QED
    BY <2>1, <2>3 DEF Obtained
<1>4. CASE ~(d < m_iCurPath)
  <2>1. m_iCurPath \in 1..d /\ m_iCurPath \in Docs
    BY <1>4 DEF Docs, TypeInv
  <2>2. kind[m_iCurPath] = "throws"
    BY <1>2, <2>1 DEF NothingLeft
  <2> QED
    BY <1>4, <2>1, <2>2 DEF Obtained, DocInv
<1> QED
  BY <1>3, <1>4

\* Each document that is obtained is analysed with its own text by one miner
\* and is put out or reported once, for any number of miners and documents and
\* however many of them fail.
THEOREM HandledOnceAlways == Spec => []HandledOnce
<1>1. IInv => HandledOnce
  <2> SUFFICES ASSUME IInv PROVE HandledOnce
    OBVIOUS
  <2>1. ASSUME NEW m \in Miners, mpc[m] \in Analysing
        PROVE  text[m] = docAttr[m] /\ text[m] \notin done
    BY <2>1 DEF IInv, HoldInv, Holding
  <2>2. ASSUME NEW d \in Docs
        PROVE  Reported(d) + Cardinality({d} \cap done) <= 1
    <3>1. CASE d \in done
      <4>1. {d} \cap done = {d}
        BY <3>1
      <4>2. Cardinality({d} \cap done) = 1
        BY <4>1, FS_Singleton
      <4> QED
        BY <3>1, <4>2 DEF IInv, DocInv
    <3>2. CASE d \notin done
      <4>1. {d} \cap done = {}
        BY <3>2
      <4>2. Cardinality({d} \cap done) = 0
        BY <4>1, FS_EmptySet
      <4> QED
        BY <4>2 DEF IInv, DocInv
    <3> QED
      BY <3>1, <3>2
  <2>3. saved # None => \A d \in Docs : d \in Obtained <=> d \in done \/ Reported(d) = 1
    BY EndIsComplete DEF Over
  <2> QED
    BY <2>1, <2>2, <2>3 DEF HandledOnce, Reported, Analysing
<1> QED
  BY <1>1, Invariance, PTL

-----------------------------------------------------------------------------
(***************************************************************************)
(* The outputs: what was put out stays in every output, once and in the    *)
(* same order.                                                             *)
(***************************************************************************)

WriterRec ==
    [kind : {"xml", "proto", "json", "text", "pretty"}, append : BOOLEAN,
     cells : Seq(Docs \cup {0}), at : Nat, prepared : Seq(Docs), lost : SUBSET Docs]

\* The documents that are written, that wait to be, and all that have come.
In(w) == {d \in Docs : \E k \in DOMAIN w.cells : w.cells[k] = d}
Waits(w) == {d \in Docs : \E k \in DOMAIN w.prepared : w.prepared[k] = d}
Knows(w) == In(w) \cup Waits(w) \cup w.lost

Once(s, d) == \A a, b \in DOMAIN s : s[a] = d /\ s[b] = d => a = b

\* A writer is in order: after its place there are no documents, and none is one
\* that the writer leaves out.
Sound(w) ==
    /\ w \in WriterRec
    /\ w.at <= Len(w.cells)
    /\ \A k \in DOMAIN w.cells : k > w.at => w.cells[k] = 0
    /\ \A d \in In(w) \cup Waits(w) : ~Ignores(w, d) /\ kind[d] # "skipped"
    /\ w.kind \in {"text", "pretty"} => w.prepared = <<>> /\ w.lost = {}

\* The writer has nothing more to do with document d.
Settled(w, d) ==
    /\ d \notin Waits(w)
    /\ Ignores(w, d) \/ (d \in In(w) <=> d \notin w.lost)
    /\ Once(w.cells, d)

WriterInv ==
    /\ writers \in Seq(WriterRec)
    /\ \A i \in DOMAIN writers : Sound(writers[i])
    /\ setup.pretty => writers # <<>> /\ Last(writers).kind = "pretty"

\* Document d has not come to the writers.
Early == {"body", "copy"} \cup (Analysing \ {"write"})
Coming(d) ==
    d >= m_iCurPath \/ \E m \in Miners : mpc[m] \in Early /\ docAttr[m] = d

ComingInv ==
    \A d \in Docs : Coming(d) => \A i \in DOMAIN writers : d \notin Knows(writers[i])

\* The document of the miner that has OutputLock is with the writers before its
\* place, after all that were put out, and with no other.
PlaceInv ==
    /\ writer \in [Miners -> Nat]
    /\ \A m \in Miners : mpc[m] = "write" =>
          /\ OutputLock = m /\ writer[m] >= 1
          /\ \A i \in DOMAIN writers :
                IF i >= writer[m]
                THEN text[m] \notin Knows(writers[i])
                ELSE Keeps(writers[i]) =>
                        /\ Settled(writers[i], text[m])
                        /\ \A a, b \in DOMAIN writers[i].cells :
                               writers[i].cells[a] \in done /\ writers[i].cells[b] = text[m]
                                   => a < b

\* What was put out is settled: later flushes, also those that fail, write other
\* documents.
KeptInv ==
    \A i \in DOMAIN writers : Keeps(writers[i]) =>
        /\ \A d \in done : Settled(writers[i], d)
        /\ \A k \in DOMAIN writers : Keeps(writers[k]) =>
              \A c, d \in Common(writers[i], writers[k]) :
                  Precedes(writers[i].cells, c, d) <=> Precedes(writers[k].cells, c, d)

SavedInv == saved # None /\ setup.pretty => saved = Last(writers).cells

OutInv == WriterInv /\ ComingInv /\ PlaceInv /\ KeptInv /\ SavedInv
-----------------------------------------------------------------------------
(***************************************************************************)
(* What a writer does with a document.                                     *)
(***************************************************************************)

\* v is w after it was given document d: its documents are where they were, if
\* it keeps them, and what comes after them is d or has waited.
Grows(w, v, d) ==
    /\ Sound(v) /\ v.kind = w.kind /\ v.append = w.append
    /\ In(v) \cup Waits(v) \subseteq In(w) \cup Waits(w) \cup {d}
    /\ Waits(v) \subseteq Waits(w) \cup {d}
    /\ w.lost \subseteq v.lost /\ v.lost \subseteq w.lost \cup Waits(w) \cup {d}
    /\ Keeps(w) =>
          /\ \A k \in DOMAIN w.cells : w.cells[k] \in Docs =>
                 k \in DOMAIN v.cells /\ v.cells[k] = w.cells[k]
          /\ \A b \in DOMAIN v.cells : v.cells[b] \in Docs =>
                 \/ b \in DOMAIN w.cells /\ w.cells[b] = v.cells[b]
                 \/ /\ v.cells[b] \in Waits(w) \cup {d}
                    /\ \A a \in DOMAIN w.cells : w.cells[a] \in Docs => a < b

LEMMA PutCells ==
    ASSUME NEW w \in WriterRec, w.at <= Len(w.cells),
           \A k \in DOMAIN w.cells : k > w.at => w.cells[k] = 0,
           NEW ds \in Seq(Docs)
    PROVE  /\ Put(w, ds) \in Seq(Docs \cup {0}) /\ w.at + Len(ds) <= Len(Put(w, ds))
           /\ DOMAIN Put(w, ds) = 1..Len(Put(w, ds)) /\ Len(Put(w, ds)) \in Nat
           /\ Len(Put(w, ds)) >= Len(w.cells)
           /\ \A k \in DOMAIN Put(w, ds) :
                  /\ k <= w.at => k \in DOMAIN w.cells /\ Put(w, ds)[k] = w.cells[k]
                  /\ k > w.at /\ k <= w.at + Len(ds) =>
                         k - w.at \in DOMAIN ds /\ Put(w, ds)[k] = ds[k - w.at]
                  /\ k > w.at + Len(ds) => Put(w, ds)[k] = 0
<1> DEFINE n == IF w.at + Len(ds) > Len(w.cells) THEN w.at + Len(ds) ELSE Len(w.cells)
           c == Put(w, ds)
<1>1. /\ w.cells \in Seq(Docs \cup {0}) /\ w.at \in Nat
      /\ DOMAIN w.cells = 1..Len(w.cells) /\ Len(w.cells) \in Nat
      /\ DOMAIN ds = 1..Len(ds) /\ Len(ds) \in Nat
  BY DEF WriterRec
<1>2. n \in Nat /\ n >= Len(w.cells) /\ n >= w.at + Len(ds)
      /\ (n > w.at + Len(ds) => n = Len(w.cells))
  BY <1>1
<1>3. c = [k \in 1..n |-> IF k \in (w.at + 1) .. (w.at + Len(ds)) THEN ds[k - w.at]
                                                                  ELSE w.cells[k]]
  BY DEF Put
<1> HIDE DEF n, c
<1>4. \A k \in 1..n : /\ k <= w.at => k \in DOMAIN w.cells /\ c[k] = w.cells[k]
                      /\ k > w.at /\ k <= w.at + Len(ds) =>
                             k - w.at \in DOMAIN ds /\ c[k] = ds[k - w.at]
                      /\ k > w.at + Len(ds) => k \in DOMAIN w.cells /\ c[k] = 0
  <2> TAKE k \in 1..n
  <2>1. CASE k <= w.at
    BY <1>1, <1>2, <1>3, <2>1
  <2>2. CASE k > w.at /\ k <= w.at + Len(ds)
    <3>1. k \in (w.at + 1) .. (w.at + Len(ds)) /\ k - w.at \in 1..Len(ds)
      BY <1>1, <2>2
    <3> QED
      BY <1>1, <1>3, <2>2, <3>1
  <2>3. CASE k > w.at + Len(ds)
    <3>1. k \in 1..Len(w.cells) /\ k > w.at /\ k \notin (w.at + 1) .. (w.at + Len(ds))
      BY <1>1, <1>2, <2>3
    <3>2. c[k] = w.cells[k] /\ w.cells[k] = 0
      BY <1>1, <1>3, <3>1
    <3> QED
      BY <1>1, <2>3, <3>1, <3>2
  <2> QED
    BY <1>1, <2>1, <2>2, <2>3
<1>5. \A k \in 1..n : c[k] \in Docs \cup {0}
  <2>1. /\ \A k \in DOMAIN w.cells : w.cells[k] \in Docs \cup {0}
        /\ \A k \in DOMAIN ds : ds[k] \in Docs
    BY <1>1
  <2>2. \A k \in 1..n : k <= w.at \/ (k > w.at /\ k <= w.at + Len(ds)) \/ k > w.at + Len(ds)
    BY <1>1, <1>2
  <2> QED
    BY <1>4, <2>1, <2>2
<1>6. c \in Seq(Docs \cup {0}) /\ Len(c) = n /\ DOMAIN c = 1..n
  BY <1>2, <1>3, <1>5
<1> QED
  BY <1>2, <1>4, <1>6 DEF c

\* The documents es are written, p wait and L are lost, all of which waited
\* before or are d.
After(w, es, p, L) ==
    [kind |-> w.kind, append |-> w.append, cells |-> Put(w, es), at |-> w.at + Len(es),
     prepared |-> p, lost |-> L]

\* The output v has es at the place of w, and no other document is new.
AddsJust(w, v, es) ==
    /\ \A k \in DOMAIN es : w.at + k \in DOMAIN v.cells /\ v.cells[w.at + k] = es[k]
    /\ \A b \in DOMAIN v.cells : v.cells[b] \in Docs \ In(w) =>
           b - w.at \in DOMAIN es /\ v.cells[b] = es[b - w.at]

LEMMA AfterGrows ==
    ASSUME NEW w, Sound(w), NEW d \in Docs, ~Ignores(w, d), kind[d] # "skipped",
           NEW es \in Seq(Docs), \A k \in DOMAIN es : es[k] \in Waits(w) \cup {d},
           NEW p \in Seq(Docs), \A k \in DOMAIN p : p[k] \in Waits(w) \cup {d},
           NEW L \in SUBSET Docs, w.lost \subseteq L,
           L \subseteq w.lost \cup Waits(w) \cup {d},
           w.kind \in {"text", "pretty"} => p = <<>> /\ L = {},
           NEW v, v = After(w, es, p, L)
    PROVE  Grows(w, v, d) /\ AddsJust(w, v, es)
<1> DEFINE c == Put(w, es)
<1>1. /\ w \in WriterRec /\ w.at <= Len(w.cells) /\ w.at \in Nat
      /\ \A k \in DOMAIN w.cells : k > w.at => w.cells[k] = 0
      /\ w.cells \in Seq(Docs \cup {0})
      /\ DOMAIN w.cells = 1..Len(w.cells) /\ Len(w.cells) \in Nat
      /\ DOMAIN es = 1..Len(es) /\ Len(es) \in Nat
  BY DEF Sound, WriterRec
<1>2. /\ c \in Seq(Docs \cup {0})
      /\ w.at + Len(es) <= Len(c)
      /\ DOMAIN c = 1..Len(c) /\ Len(c) \in Nat /\ Len(c) >= Len(w.cells)
      /\ \A k \in DOMAIN c :
             /\ k <= w.at => k \in DOMAIN w.cells /\ c[k] = w.cells[k]
             /\ k > w.at /\ k <= w.at + Len(es) =>
                    k - w.at \in DOMAIN es /\ c[k] = es[k - w.at]
             /\ k > w.at + Len(es) => c[k] = 0
  BY ONLY <1>1, es \in Seq(Docs), PutCells DEF c
<1>3. /\ v \in WriterRec /\ v.kind = w.kind /\ v.append = w.append
      /\ v.cells = c /\ v.at = w.at + Len(es) /\ v.prepared = p /\ v.lost = L
  <2>1. w.kind \in {"xml", "proto", "json", "text", "pretty"} /\ w.append \in BOOLEAN
    BY <1>1 DEF WriterRec
  <2>2. w.at + Len(es) \in Nat
    BY <1>1
  <2>3. v = [kind |-> w.kind, append |-> w.append, cells |-> c, at |-> w.at + Len(es),
             prepared |-> p, lost |-> L]
    BY DEF After
  <2> HIDE DEF c
  <2> QED
    BY <1>2, <2>1, <2>2, <2>3 DEF WriterRec
<1> HIDE DEF c
\* Where a document of the new output comes from.
<1>4. \A k \in DOMAIN c : c[k] \in Docs =>
          \/ k <= w.at /\ k \in DOMAIN w.cells /\ c[k] = w.cells[k] /\ c[k] \in In(w)
          \/ k > w.at /\ k - w.at \in DOMAIN es /\ c[k] = es[k - w.at]
  <2> SUFFICES ASSUME NEW k \in DOMAIN c, c[k] \in Docs
               PROVE
          \/ k <= w.at /\ k \in DOMAIN w.cells /\ c[k] = w.cells[k] /\ c[k] \in In(w)
          \/ k > w.at /\ k - w.at \in DOMAIN es /\ c[k] = es[k - w.at]
    OBVIOUS
  <2>1. c[k] # 0
    BY DEF Docs
  <2>2. CASE k <= w.at
    BY <1>2, <2>2 DEF In
  <2>3. CASE k > w.at /\ k <= w.at + Len(es)
    BY <1>2, <2>3
  <2> QED
    BY <1>1, <1>2, <2>1, <2>2, <2>3
<1>5. /\ In(v) \subseteq In(w) \cup Waits(w) \cup {d}
      /\ Waits(v) \subseteq Waits(w) \cup {d}
  <2>1. In(v) \subseteq In(w) \cup Waits(w) \cup {d}
    BY <1>3, <1>4 DEF In
  <2>2. Waits(v) \subseteq Waits(w) \cup {d}
    BY <1>3 DEF Waits
  <2> QED
    BY <2>1, <2>2
<1>6. Sound(v)
  <2>1. \A k \in DOMAIN c : k > v.at => c[k] = 0
    BY <1>2, <1>3
  <2>2. \A e \in In(v) \cup Waits(v) : ~Ignores(v, e) /\ kind[e] # "skipped"
    BY <1>3, <1>5 DEF Sound, Ignores
  <2> QED
    BY <1>2, <1>3, <2>1, <2>2 DEF Sound
<1>7. \A k \in DOMAIN w.cells : w.cells[k] \in Docs =>
           k <= w.at /\ k \in DOMAIN c /\ c[k] = w.cells[k]
  <2> SUFFICES ASSUME NEW k \in DOMAIN w.cells, w.cells[k] \in Docs
               PROVE  k <= w.at /\ k \in DOMAIN c /\ c[k] = w.cells[k]
    OBVIOUS
  <2>1. k <= w.at /\ k \in DOMAIN c
    BY <1>1, <1>2 DEF Docs
  <2> QED
    BY <1>2, <2>1
<1>8. \A b \in DOMAIN c : c[b] \in Docs =>
          \/ b \in DOMAIN w.cells /\ w.cells[b] = c[b]
          \/ /\ c[b] \in Waits(w) \cup {d}
             /\ \A a \in DOMAIN w.cells : w.cells[a] \in Docs => a < b
  <2> SUFFICES ASSUME NEW b \in DOMAIN c, c[b] \in Docs,
                      b > w.at, b - w.at \in DOMAIN es, c[b] = es[b - w.at]
               PROVE  /\ c[b] \in Waits(w) \cup {d}
                      /\ \A a \in DOMAIN w.cells : w.cells[a] \in Docs => a < b
    BY <1>4
  <2>1. c[b] \in Waits(w) \cup {d}
    OBVIOUS
  <2>2. \A a \in DOMAIN w.cells : w.cells[a] \in Docs => a < b
    BY <1>1, <1>2, <1>7
  <2> QED
    BY <2>1, <2>2
<1>9. \A k \in DOMAIN es : w.at + k \in DOMAIN c /\ c[w.at + k] = es[k]
  <2> TAKE k \in DOMAIN es
  <2>1. /\ w.at + k \in DOMAIN c /\ w.at + k > w.at /\ w.at + k <= w.at + Len(es)
        /\ (w.at + k) - w.at = k
    BY <1>1, <1>2
  <2> QED
    BY <1>2, <2>1
<1>10. Grows(w, v, d)
  BY <1>3, <1>5, <1>6, <1>7, <1>8 DEF Grows
<1>11. AddsJust(w, v, es)
  BY <1>3, <1>4, <1>9 DEF AddsJust
<1> QED
  BY <1>10, <1>11

\* What waited and d, in this order.
LEMMA Sequel ==
    ASSUME NEW w, Sound(w), NEW d \in Docs, NEW ds, ds = Append(w.prepared, d)
    PROVE  /\ w.prepared \in Seq(Docs) /\ ds \in Seq(Docs)
           /\ Len(w.prepared) \in Nat /\ Len(ds) = Len(w.prepared) + 1
           /\ DOMAIN ds = 1..Len(ds) /\ ds[Len(ds)] = d
           /\ \A k \in 1..Len(w.prepared) : ds[k] \in Waits(w)
           /\ \A k \in DOMAIN ds : ds[k] \in Waits(w) \cup {d}
<1>1. /\ w.prepared \in Seq(Docs) /\ DOMAIN w.prepared = 1..Len(w.prepared)
      /\ Len(w.prepared) \in Nat
  BY DEF Sound, WriterRec
<1>2. /\ ds \in Seq(Docs) /\ Len(ds) = Len(w.prepared) + 1
      /\ DOMAIN ds = 1..Len(ds)
      /\ ds[Len(ds)] = d
      /\ \A k \in 1..Len(w.prepared) : ds[k] = w.prepared[k]
  BY <1>1
<1>3. \A k \in 1..Len(w.prepared) : w.prepared[k] \in Docs
  BY <1>1
<1>4. \A k \in 1..Len(w.prepared) : ds[k] \in Waits(w)
  BY <1>1, <1>2, <1>3 DEF Waits
<1>5. \A k \in DOMAIN ds : k \in 1..Len(w.prepared) \/ k = Len(ds)
  BY <1>1, <1>2
<1> QED
  BY <1>1, <1>2, <1>4, <1>5

\* The first k of a sequence.
LEMMA Prefix ==
    ASSUME NEW ds \in Seq(Docs), NEW k \in 0..Len(ds), NEW es, es = SubSeq(ds, 1, k)
    PROVE  /\ es \in Seq(Docs) /\ Len(es) = k /\ DOMAIN es = 1..k
           /\ \A i \in DOMAIN es : i \in DOMAIN ds /\ es[i] = ds[i]
<1>1. Len(ds) \in Nat /\ DOMAIN ds = 1..Len(ds)
  OBVIOUS
<1>2. es = [i \in 1..k |-> ds[i]]
  BY <1>1
<1>3. \A i \in 1..k : i \in DOMAIN ds /\ ds[i] \in Docs
  BY <1>1
<1> QED
  BY <1>1, <1>2, <1>3

LEMMA FlushedGrows ==
    ASSUME NEW w, Sound(w), NEW d \in Docs, d \notin Knows(w), ~Ignores(w, d),
           kind[d] # "skipped"
    PROVE  Grows(w, Flushed(w, d), d) /\ Settled(Flushed(w, d), d)
<1> DEFINE ds == Append(w.prepared, d)
           v == Flushed(w, d)
<1>1. /\ w.prepared \in Seq(Docs) /\ ds \in Seq(Docs)
      /\ Len(w.prepared) \in Nat /\ Len(ds) = Len(w.prepared) + 1
      /\ DOMAIN ds = 1..Len(ds) /\ ds[Len(ds)] = d
      /\ \A k \in 1..Len(w.prepared) : ds[k] \in Waits(w)
      /\ \A k \in DOMAIN ds : ds[k] \in Waits(w) \cup {d}
  BY Sequel
<1>2. v = After(w, ds, <<>>, w.lost)
  <2>1. v = [[w EXCEPT !.cells = Put(w, ds), !.at = w.at + Len(ds)] EXCEPT !.prepared = <<>>]
    BY DEF Flushed, Wrote
  <2> HIDE DEF v, ds
  <2> QED
    BY <2>1 DEF Sound, WriterRec, After
<1>3. w.lost \in SUBSET Docs /\ (w.kind \in {"text", "pretty"} => w.lost = {}) /\ w.at \in Nat
  BY DEF Sound, WriterRec
<1>4. PICK p : p = <<>>
  OBVIOUS
<1>5. p = <<>> /\ p \in Seq(Docs) /\ \A k \in DOMAIN p : p[k] \in Waits(w) \cup {d}
  BY <1>4
<1> HIDE DEF v, ds
<1>6. Grows(w, v, d) /\ AddsJust(w, v, ds)
  <2>1. v = After(w, ds, p, w.lost) /\ (w.kind \in {"text", "pretty"} => p = <<>> /\ w.lost = {})
    BY <1>2, <1>3, <1>5
  <2>2. w.lost \subseteq w.lost /\ w.lost \subseteq w.lost \cup Waits(w) \cup {d}
    OBVIOUS
  <2> QED
    BY <1>1, <1>3, <1>5, <2>1, <2>2, AfterGrows
<1>7. /\ Grows(w, v, d)
      /\ \A k \in DOMAIN ds : w.at + k \in DOMAIN v.cells /\ v.cells[w.at + k] = ds[k]
      /\ \A b \in DOMAIN v.cells : v.cells[b] \in Docs \ In(w) =>
             b - w.at \in DOMAIN ds /\ v.cells[b] = ds[b - w.at]
  BY <1>6 DEF AddsJust
<1>8. v.prepared = <<>> /\ v.lost = w.lost
  BY <1>2 DEF After
<1>9. d \in In(v)
  <2>1. Len(ds) \in DOMAIN ds
    BY <1>1
  <2> QED
    BY <1>1, <1>7, <2>1 DEF In
<1>10. Once(v.cells, d)
  <2> SUFFICES ASSUME NEW a \in DOMAIN v.cells, NEW b \in DOMAIN v.cells,
                      v.cells[a] = d, v.cells[b] = d
               PROVE  a = b
    BY DEF Once
  <2>1. /\ a - w.at \in DOMAIN ds /\ ds[a - w.at] = d
        /\ b - w.at \in DOMAIN ds /\ ds[b - w.at] = d
    BY <1>7 DEF Knows
  <2>2. \A k \in DOMAIN ds : ds[k] = d => k = Len(ds)
    <3>1. \A k \in DOMAIN ds : k \in 1..Len(w.prepared) \/ k = Len(ds)
      BY <1>1
    <3> QED
      BY <1>1, <3>1 DEF Knows
  <2>3. a - w.at = b - w.at
    BY <2>1, <2>2
  <2>4. v.cells \in Seq(Docs \cup {0})
    BY <1>7 DEF Grows, Sound, WriterRec
  <2>5. a \in Nat /\ b \in Nat
    BY <2>4
  <2> QED
    BY <1>3, <2>3, <2>5
<1>11. d \notin Waits(v) /\ d \notin v.lost
  BY <1>8 DEF Waits, Knows
<1> QED
  BY <1>7, <1>9, <1>10, <1>11 DEF Settled, v

\* A text file is opened: nothing is added, and nothing lost if it is kept.
LEMMA OpenedGrows ==
    ASSUME NEW w, Sound(w), w.kind = "text", NEW d \in Docs
    PROVE  /\ Grows(w, Opened(w), d)
           /\ Knows(Opened(w)) \subseteq Knows(w)
           /\ Keeps(w) => Opened(w).cells = w.cells
<1> DEFINE c == IF w.append THEN w.cells ELSE <<>>
           v == Opened(w)
<1>1. /\ w \in WriterRec /\ w.cells \in Seq(Docs \cup {0}) /\ w.prepared = <<>>
      /\ w.lost = {}
      /\ DOMAIN w.cells = 1..Len(w.cells) /\ Len(w.cells) \in Nat
      /\ w.append \in BOOLEAN
  BY DEF Sound, WriterRec
<1>2. /\ c \in Seq(Docs \cup {0}) /\ DOMAIN c = 1..Len(c) /\ Len(c) \in Nat
      /\ \A k \in DOMAIN c : k \in DOMAIN w.cells /\ c[k] = w.cells[k]
  BY <1>1
<1>3. /\ v \in WriterRec /\ v.kind = w.kind /\ v.append = w.append
      /\ v.cells = c /\ v.at = Len(c) /\ v.prepared = <<>> /\ v.lost = {}
  <2>1. v = [w EXCEPT !.cells = c, !.at = Len(c)]
    BY DEF Opened
  <2> HIDE DEF v, c
  <2>2. v = [kind |-> w.kind, append |-> w.append, cells |-> c, at |-> Len(c),
             prepared |-> <<>>, lost |-> {}]
    BY <1>1, <2>1 DEF WriterRec
  <2>3. w.kind \in {"xml", "proto", "json", "text", "pretty"} /\ w.append \in BOOLEAN
    BY <1>1 DEF WriterRec
  <2> QED
    BY <1>2, <2>2, <2>3 DEF WriterRec
<1>4. Keeps(w) => c = w.cells
  BY DEF Keeps
<1> HIDE DEF v, c
<1>5. In(v) \subseteq In(w) /\ Waits(v) = {}
  BY <1>2, <1>3 DEF In, Waits
<1>6. Sound(v)
  <2>1. \A k \in DOMAIN c : ~(k > v.at)
    BY <1>2, <1>3
  <2>2. \A e \in In(v) \cup Waits(v) : ~Ignores(v, e) /\ kind[e] # "skipped"
    BY <1>3, <1>5 DEF Sound, Ignores
  <2>3. v.at <= Len(c)
    BY <1>2, <1>3
  <2> QED
    BY <1>2, <1>3, <1>5, <2>1, <2>2, <2>3 DEF Sound
<1>7. Keeps(w) => v.cells = w.cells
  BY <1>3, <1>4
<1>8. Grows(w, v, d)
  BY <1>1, <1>3, <1>5, <1>6, <1>7 DEF Grows
<1> QED
  BY <1>3, <1>5, <1>7, <1>8 DEF Knows, v

LEMMA GrowsNot ==
    ASSUME NEW w, Sound(w), NEW d \in Docs
    PROVE  Grows(w, w, d)
BY DEF Grows

LEMMA WrittenGrows ==
    ASSUME NEW w, Sound(w), NEW d \in Docs, d \notin Knows(w), kind[d] # "skipped"
    PROVE  Grows(w, Written(w, d), d) /\ Settled(Written(w, d), d)
<1>1. CASE Ignores(w, d)
  <2>1. Written(w, d) = w
    BY <1>1 DEF Written, Ignores
  <2>2. Settled(w, d)
    BY <1>1 DEF Settled, Knows, Once, In
  <2> QED
    BY <2>1, <2>2, GrowsNot
<1>2. CASE w.kind = "text"
  <2>1. ~Ignores(w, d)
    BY <1>2 DEF Ignores
  <2>2. Written(w, d) = Flushed(Opened(w), d)
    BY <1>2, <2>1 DEF Written
  <2>3. /\ Grows(w, Opened(w), d)
        /\ Knows(Opened(w)) \subseteq Knows(w)
        /\ Keeps(w) => Opened(w).cells = w.cells
    BY <1>2, OpenedGrows
  <2> DEFINE u == Opened(w)
             v == Flushed(u, d)
  <2> HIDE DEF u
  <2>4. Sound(u) /\ u.kind = w.kind /\ u.append = w.append
    BY <2>3 DEF Grows, u
  <2>5. ~Ignores(u, d) /\ d \notin Knows(u)
    BY <2>1, <2>3, <2>4 DEF Ignores, u
  <2>6. Grows(u, v, d) /\ Settled(v, d)
    BY <2>4, <2>5, FlushedGrows
  <2> HIDE DEF v
  <2>7. /\ Keeps(w) => Keeps(u) /\ u.cells = w.cells
        /\ In(u) \subseteq In(w) \cup Waits(w) \cup {d}
        /\ Waits(u) = {} /\ Waits(w) = {} /\ u.lost = {} /\ w.lost = {}
    BY <1>2, <2>3, <2>4 DEF Keeps, Grows, Sound, Waits, u
  <2>8. Grows(w, v, d)
    BY <2>4, <2>6, <2>7 DEF Grows
  <2> QED
    BY <2>2, <2>6, <2>8 DEF v, u
<1>3. CASE w.kind # "text" /\ ~Ignores(w, d)
  <2>1. Written(w, d) = Flushed(w, d)
    BY <1>3 DEF Written
  <2> QED
    BY <1>3, <2>1, FlushedGrows
<1> QED
  BY <1>1, <1>2, <1>3

\* The stream throws after k documents: they stay and all of them wait.
LEMMA BrokenGrows ==
    ASSUME NEW w, Sound(w), NEW d \in Docs, ~Ignores(w, d), kind[d] # "skipped",
           w.kind \in {"xml", "proto", "json"}, NEW k \in 0..(Len(w.prepared) + 1)
    PROVE  Grows(w, Broken(w, d, k), d)
<1> DEFINE ds == Append(w.prepared, d)
           es == SubSeq(ds, 1, k)
           v == Broken(w, d, k)
<1>1. ds = Append(w.prepared, d)
  OBVIOUS
<1>2. /\ ds \in Seq(Docs) /\ Len(w.prepared) \in Nat /\ Len(ds) = Len(w.prepared) + 1
      /\ \A i \in DOMAIN ds : ds[i] \in Waits(w) \cup {d}
  <2> HIDE DEF ds
  <2> QED
    BY <1>1, Sequel
<1>3. v = [[w EXCEPT !.cells = Put(w, es), !.at = w.at + Len(es)] EXCEPT !.prepared = ds]
  BY DEF Broken, Wrote
<1>4. es = SubSeq(ds, 1, k)
  OBVIOUS
<1> HIDE DEF v, es, ds
<1>5. k \in 0..Len(ds)
  BY <1>2
<1>6. /\ es \in Seq(Docs)
      /\ \A i \in DOMAIN es : es[i] \in Waits(w) \cup {d}
  BY <1>2, <1>4, <1>5, Prefix
<1>7. v = After(w, es, ds, w.lost)
  BY <1>3 DEF Sound, WriterRec, After
<1>8. w.lost \in SUBSET Docs
  BY DEF Sound, WriterRec
<1>9. Grows(w, v, d)
  BY <1>2, <1>6, <1>7, <1>8, AfterGrows
<1> QED
  BY <1>9 DEF v

\* The adaptor keeps the exception: d is lost.
LEMMA DroppedGrows ==
    ASSUME NEW w, Sound(w), NEW d \in Docs, d \notin Knows(w), ~Ignores(w, d),
           kind[d] # "skipped", w.kind = "proto", NEW k \in 0..Len(w.prepared)
    PROVE  Grows(w, Dropped(w, d, k), d) /\ Settled(Dropped(w, d, k), d)
<1> DEFINE ds == Append(w.prepared, d)
           es == SubSeq(ds, 1, k)
           L == w.lost \cup {ds[i] : i \in (k + 1) .. Len(ds)}
           v == Dropped(w, d, k)
<1>1. ds = Append(w.prepared, d)
  OBVIOUS
<1>2. /\ ds \in Seq(Docs) /\ Len(w.prepared) \in Nat /\ Len(ds) = Len(w.prepared) + 1
      /\ DOMAIN ds = 1..Len(ds) /\ ds[Len(ds)] = d
      /\ \A i \in 1..Len(w.prepared) : ds[i] \in Waits(w)
      /\ \A i \in DOMAIN ds : ds[i] \in Waits(w) \cup {d}
  <2> HIDE DEF ds
  <2> QED
    BY ONLY Sound(w), d \in Docs, <1>1, Sequel
<1>3. v = [[w EXCEPT !.cells = Put(w, es), !.at = w.at + Len(es)]
              EXCEPT !.prepared = <<>>, !.lost = L]
  <2>1. w.lost = [w EXCEPT !.cells = Put(w, es), !.at = w.at + Len(es)].lost
    <3> HIDE DEF es
    <3> QED
      BY DEF Sound, WriterRec
  <2> QED
    BY <2>1 DEF Dropped, Wrote
<1>4. es = SubSeq(ds, 1, k)
  OBVIOUS
<1> HIDE DEF v, es, ds
<1>5. k \in 0..Len(ds) /\ Len(ds) \in (k + 1) .. Len(ds)
  BY <1>2
<1>6. /\ es \in Seq(Docs) /\ DOMAIN es = 1..k
      /\ \A i \in DOMAIN es : i \in DOMAIN ds /\ es[i] = ds[i]
  BY <1>2, <1>4, <1>5, Prefix
<1>7. w.lost \in SUBSET Docs /\ (w.kind \notin {"text", "pretty"})
  BY DEF Sound, WriterRec
<1>8. /\ L \in SUBSET Docs /\ w.lost \subseteq L /\ d \in L
      /\ L \subseteq w.lost \cup Waits(w) \cup {d}
  <2>1. \A i \in (k + 1) .. Len(ds) : i \in DOMAIN ds
    BY <1>2
  <2>2. \A i \in (k + 1) .. Len(ds) : ds[i] \in Docs /\ ds[i] \in Waits(w) \cup {d}
    BY <1>2, <2>1
  <2> QED
    BY <1>2, <1>5, <1>7, <2>2
<1> HIDE DEF L
<1>9. v = After(w, es, <<>>, L)
  BY <1>3 DEF Sound, WriterRec, After
<1>10. PICK p : p = <<>>
  OBVIOUS
<1>11. p = <<>> /\ p \in Seq(Docs) /\ \A i \in DOMAIN p : p[i] \in Waits(w) \cup {d}
  BY <1>10
<1>12. \A i \in DOMAIN es : es[i] \in Waits(w)
  <2>1. \A i \in DOMAIN es : i \in 1..Len(w.prepared)
    BY <1>2, <1>6
  <2> QED
    BY <1>2, <1>6, <2>1
<1>13. Grows(w, v, d) /\ AddsJust(w, v, es)
  <2>1. v = After(w, es, p, L) /\ (w.kind \in {"text", "pretty"} => p = <<>> /\ L = {})
    BY <1>7, <1>9, <1>11
  <2>2. \A i \in DOMAIN es : es[i] \in Waits(w) \cup {d}
    BY <1>12
  <2> QED
    BY <1>6, <1>8, <1>11, <2>1, <2>2, AfterGrows
<1>14. d \notin In(v)
  BY <1>12, <1>13 DEF AddsJust, In, Knows
<1>15. d \notin Waits(v) /\ d \in v.lost
  BY <1>8, <1>9 DEF After, Waits
<1> QED
  BY <1>13, <1>14, <1>15 DEF Settled, Once, In, v

\* What a writer that throws leaves behind.
LEMMA FailedGrows ==
    ASSUME NEW w, Sound(w), NEW d \in Docs, d \notin Knows(w), kind[d] # "skipped",
           NEW v \in Failed(w, d)
    PROVE  Grows(w, v, d)
<1>1. Grows(w, w, d)
  BY GrowsNot
<1>2. w.kind \in {"xml", "proto", "json", "text", "pretty"} /\ Len(w.prepared) \in Nat
  BY DEF Sound, WriterRec
<1>3. ~Ignores(w, d)
  BY DEF Failed, Ignores
<1>4. CASE w.kind \in {"xml", "proto", "json"}
  <2>1. 0 \in 0..(Len(w.prepared) + 1)
    BY <1>2
  <2>2. v = w \/ \E k \in 0..(Len(w.prepared) + 1) : v = Broken(w, d, k)
    BY <1>3, <1>4, <2>1 DEF Failed
  <2> QED
    BY <1>1, <1>3, <1>4, <2>2, BrokenGrows
<1>5. CASE w.kind = "text"
  <2>1. v \in {w, Opened(w), Written(w, d)}
    BY <1>3, <1>5 DEF Failed
  <2> QED
    BY <1>1, <1>5, <2>1, OpenedGrows, WrittenGrows
<1>6. CASE w.kind = "pretty"
  <2>1. v \in {w, Written(w, d)}
    BY <1>3, <1>6 DEF Failed
  <2> QED
    BY <1>1, <2>1, WrittenGrows
<1> QED
  BY <1>2, <1>4, <1>5, <1>6

\* The order of what is written does not change, except for what waits.
LEMMA PrecedesKept ==
    ASSUME NEW w, NEW v, NEW x, Grows(w, v, x), Keeps(w),
           NEW c \in Docs \ (Waits(w) \cup {x}), NEW d \in Docs \ (Waits(w) \cup {x})
    PROVE  Precedes(v.cells, c, d) <=> Precedes(w.cells, c, d)
<1>1. \A a, e : e \in {c, d} =>
          (a \in DOMAIN w.cells /\ w.cells[a] = e <=> a \in DOMAIN v.cells /\ v.cells[a] = e)
  BY DEF Grows
<1> QED
  BY <1>1 DEF Precedes
-----------------------------------------------------------------------------
(***************************************************************************)
(* The steps.                                                              *)
(***************************************************************************)

\* Steps that leave the writers alone and bring no document nearer to them.
LEMMA WritersUntouched ==
    ASSUME OutInv,
           UNCHANGED <<setup, kind, writers, writer, OutputLock, done, saved>>,
           \A m \in Miners : mpc'[m] = "write" => mpc[m] = "write" /\ text'[m] = text[m],
           \A d \in Docs : Coming(d)' => Coming(d)
    PROVE  OutInv'
<1> USE DEF OutInv
<1>1. WriterInv'
  BY DEF WriterInv, Sound, Ignores
<1>2. ComingInv'
  BY DEF ComingInv
<1>3. PlaceInv'
  BY DEF PlaceInv, Keeps, Settled, Ignores
<1>4. KeptInv'
  BY DEF KeptInv, Keeps, Settled, Common, Ignores
<1>5. SavedInv'
  BY DEF SavedInv
<1> QED
  BY <1>1, <1>2, <1>3, <1>4, <1>5

\* The steps before the output and after it.
LEMMA MinerElsewhere ==
    ASSUME IInv, OutInv, NEW m \in Miners,
           \/ NextDocument(m) \/ NoNextDoc(m) \/ InputThrows(m) \/ GetNextDocInfo(m)
           \/ GetDocBodyByAdress(m) \/ CopyBody(m) \/ ResolveOptionArticles(m)
           \/ ResolveEnds(m) \/ Proceed(m) \/ ProceedThrows(m) \/ OutputError(m)
    PROVE  OutInv'
<1>1. UNCHANGED <<setup, kind, writers, writer, OutputLock, done, saved>>
  BY DEF NextDocument, NoNextDoc, InputThrows, GetNextDocInfo, GetDocBodyByAdress,
      CopyBody, ResolveOptionArticles, ResolveEnds, Proceed, ProceedThrows, OutputError,
      params, outputVars
<1>2. /\ mpc \in [Miners -> {"input", "stopped"} \cup Reading \cup Holding]
      /\ docAttr \in [Miners -> Docs \cup {None}] /\ text \in [Miners -> Docs \cup {None}]
      /\ m_iCurPath \in Nat
  BY DEF IInv, TypeInv
<1>3. \A n \in Miners \ {m} : mpc'[n] = mpc[n] /\ docAttr'[n] = docAttr[n] /\ text'[n] = text[n]
  BY <1>2 DEF NextDocument, NoNextDoc, InputThrows, GetNextDocInfo, GetDocBodyByAdress,
      CopyBody, ResolveOptionArticles, ResolveEnds, Proceed, ProceedThrows, OutputError,
      Goto, inputVars
<1>4. mpc'[m] # "write"
  BY <1>2 DEF NextDocument, NoNextDoc, InputThrows, GetNextDocInfo, GetDocBodyByAdress,
      CopyBody, ResolveOptionArticles, ResolveEnds, Proceed, ProceedThrows, OutputError,
      Goto
<1>5. /\ m_iCurPath' \in Nat /\ m_iCurPath' >= m_iCurPath
      /\ mpc'[m] \in Early => \/ mpc[m] \in Early /\ docAttr'[m] = docAttr[m]
                              \/ docAttr'[m] = m_iCurPath
  <2>1. CASE GetNextDocInfo(m)
    BY <1>2, <2>1 DEF GetNextDocInfo
  <2>2. CASE ~GetNextDocInfo(m)
    <3>1. m_iCurPath' = m_iCurPath /\ docAttr' = docAttr
      BY <2>2 DEF NextDocument, NoNextDoc, InputThrows, GetDocBodyByAdress, CopyBody,
          ResolveOptionArticles, ResolveEnds, Proceed, ProceedThrows, OutputError, inputVars
    <3>2. mpc'[m] \in Early => mpc[m] \in Early
      BY <1>2, <2>2 DEF NextDocument, NoNextDoc, InputThrows, GetDocBodyByAdress, CopyBody,
          ResolveOptionArticles, ResolveEnds, Proceed, ProceedThrows, OutputError, Goto,
          Early, Analysing
    <3> QED
      BY <1>2, <3>1, <3>2
  <2> QED
    BY <2>1, <2>2
<1>6. ASSUME NEW d \in Docs, Coming(d)' PROVE Coming(d)
  <2>1. CASE d >= m_iCurPath'
    BY <1>2, <1>5, <2>1 DEF Coming, Docs
  <2>2. CASE \E n \in Miners : mpc'[n] \in Early /\ docAttr'[n] = d
    BY <1>2, <1>3, <1>5, <2>2 DEF Coming, Docs
  <2> QED
    BY <1>6, <2>1, <2>2 DEF Coming
<1> QED
  BY <1>1, <1>3, <1>4, <1>6, WritersUntouched

\* The document comes to the writers.
LEMMA OutputFactsStep ==
    ASSUME IInv, OutInv, NEW m \in Miners, OutputFacts(m)
    PROVE  OutInv'
<1> USE DEF OutInv
<1>1. /\ mpc[m] = "output" /\ mpc' = [mpc EXCEPT ![m] = "write"]
      /\ OutputLock = None /\ OutputLock' = m
      /\ writer' = [writer EXCEPT ![m] = 1]
      /\ UNCHANGED <<setup, kind, m_iCurPath, docAttr, text, writers, done, saved>>
  BY DEF OutputFacts, Goto, params, inputVars
<1>2. \A n \in Miners : mpc'[n] = (IF n = m THEN "write" ELSE mpc[n]) /\ mpc[n] # "write"
  BY <1>1 DEF IInv, TypeInv, PlaceInv
<1>3. text[m] = docAttr[m] /\ docAttr[m] \in Docs
  BY <1>1 DEF IInv, HoldInv, Holding, Analysing, TypeInv, Docs
<1>4. \A i \in DOMAIN writers : text[m] \notin Knows(writers[i])
  <2>1. Coming(docAttr[m])
    BY <1>1 DEF Coming, Early, Analysing
  <2> QED
    BY <1>3, <2>1 DEF ComingInv
<1>5. WriterInv'
  BY <1>1 DEF WriterInv, Sound, Ignores
<1>6. ComingInv'
  <2>1. \A d \in Docs : Coming(d)' => Coming(d)
    BY <1>1, <1>2 DEF Coming, Early
  <2> QED
    BY <1>1, <2>1 DEF ComingInv
<1>7. PlaceInv'
  <2>1. writers \in Seq(WriterRec)
    BY DEF WriterInv
  <2>2. \A i \in DOMAIN writers : i >= 1
    BY <2>1
  <2>3. writer' \in [Miners -> Nat] /\ writer'[m] = 1
    BY <1>1 DEF PlaceInv
  <2> QED
    BY <1>1, <1>2, <1>4, <2>2, <2>3 DEF PlaceInv
<1>8. KeptInv'
  BY <1>1 DEF KeptInv, Keeps, Settled, Common, Ignores
<1>9. SavedInv'
  BY <1>1 DEF SavedInv
<1> QED
  BY <1>5, <1>6, <1>7, <1>8, <1>9

\* The writer at the miner's place becomes v.
LEMMA WriterGrows ==
    ASSUME IInv, OutInv, NEW m \in Miners, mpc[m] = "write",
           writer[m] \in DOMAIN writers, NEW v,
           Grows(writers[writer[m]], v, text[m]),
           writers' = [writers EXCEPT ![writer[m]] = v],
           UNCHANGED <<setup, kind, m_iCurPath, docAttr, text, done, saved>>,
           \A n \in Miners : n # m => mpc'[n] = mpc[n],
           mpc'[m] \notin Early
    PROVE  /\ WriterInv' /\ ComingInv' /\ KeptInv' /\ SavedInv'
           /\ \A a, b \in DOMAIN v.cells :
                  Keeps(v) /\ v.cells[a] \in done /\ v.cells[b] = text[m] => a < b
<1> USE DEF OutInv
<1> DEFINE i0 == writer[m]
           w == writers[i0]
<1>1. /\ writers \in Seq(WriterRec) /\ DOMAIN writers = 1..Len(writers)
      /\ Len(writers) \in Nat
      /\ \A i \in DOMAIN writers : Sound(writers[i])
  BY DEF WriterInv
<1>2. /\ Sound(v) /\ v.kind = w.kind /\ v.append = w.append /\ v \in WriterRec
      /\ Knows(v) \subseteq Knows(w) \cup {text[m]}
      /\ Keeps(v) <=> Keeps(w)
      /\ \A d : Ignores(v, d) <=> Ignores(w, d)
  BY DEF Grows, Keeps, Ignores, Sound, Knows
<1>3. text[m] = docAttr[m] /\ docAttr[m] \in Docs /\ docAttr[m] < m_iCurPath
      /\ docAttr[m] \notin done
      /\ \A n \in Miners : mpc[n] \in Early => docAttr[n] # docAttr[m]
  BY DEF IInv, HoldInv, Holding, Analysing, Early, TypeInv, Docs
<1>4. text[m] \notin Knows(w)
  BY <1>1 DEF PlaceInv
<1>5. /\ writers' \in Seq(WriterRec) /\ DOMAIN writers' = DOMAIN writers
      /\ Len(writers') = Len(writers)
      /\ \A i \in DOMAIN writers : writers'[i] = IF i = i0 THEN v ELSE writers[i]
  BY <1>1, <1>2
<1>6. \A d \in done : d \in Docs /\ d # text[m] /\ (Keeps(w) => Settled(w, d))
  BY <1>3 DEF KeptInv, IInv, TypeInv
<1> HIDE DEF w
<1>7. WriterInv'
  <2>1. \A i \in DOMAIN writers' : Sound(writers'[i])
    BY <1>1, <1>2, <1>5
  <2>2. \A i \in DOMAIN writers' : Sound(writers[i])'
    BY <2>1 DEF Sound, Ignores
  <2>3. setup'.pretty => writers' # <<>> /\ Last(writers').kind = "pretty"
    <3> SUFFICES ASSUME setup.pretty PROVE writers' # <<>> /\ Last(writers').kind = "pretty"
      OBVIOUS
    <3>1. writers # <<>> /\ writers[Len(writers)].kind = "pretty"
      BY DEF WriterInv, Last
    <3>2. Len(writers) \in DOMAIN writers
      BY <1>1, <3>1
    <3>3. writers'[Len(writers)].kind = "pretty"
      BY <1>2, <1>5, <3>1, <3>2 DEF w
    <3>4. writers' # <<>>
      BY <1>1, <1>5, <3>2
    <3> QED
      BY <1>5, <3>3, <3>4 DEF Last
  <2> QED
    BY <1>5, <2>2, <2>3 DEF WriterInv
<1>8. ComingInv'
  <2> SUFFICES ASSUME NEW d \in Docs, Coming(d)', NEW i \in DOMAIN writers
               PROVE  d \notin Knows(writers'[i])
    BY <1>5 DEF ComingInv, Knows, In, Waits
  <2>1. Coming(d) /\ d # text[m]
    <3>1. CASE d >= m_iCurPath'
      BY <1>3, <3>1 DEF Coming, IInv, TypeInv, Docs
    <3>2. CASE \E n \in Miners : mpc'[n] \in Early /\ docAttr'[n] = d
      <4>1. PICK n \in Miners : mpc'[n] \in Early /\ docAttr'[n] = d
        BY <3>2
      <4>2. n # m /\ mpc[n] \in Early /\ docAttr[n] = d
        BY <4>1
      <4> QED
        BY <1>3, <4>2 DEF Coming
    <3> QED
      BY <3>1, <3>2 DEF Coming
  <2>2. \A k \in DOMAIN writers : d \notin Knows(writers[k])
    BY <2>1 DEF ComingInv
  <2>3. d \notin Knows(v)
    BY <1>2, <2>1, <2>2 DEF w
  <2> QED
    BY <1>5, <2>2, <2>3
\* What was put out does not wait: it is where it was, and nowhere else.
<1>9. ASSUME Keeps(w), NEW d \in done
      PROVE  /\ d \in Docs \ (Waits(w) \cup {text[m]})
             /\ \A a : a \in DOMAIN w.cells /\ w.cells[a] = d
                           <=> a \in DOMAIN v.cells /\ v.cells[a] = d
             /\ d \in v.lost <=> d \in w.lost
             /\ Settled(v, d)
  <2>1. d \in Docs \ (Waits(w) \cup {text[m]}) /\ Settled(w, d)
    BY <1>6, <1>9 DEF Settled
  <2>2. \A a : a \in DOMAIN w.cells /\ w.cells[a] = d
                   <=> a \in DOMAIN v.cells /\ v.cells[a] = d
    BY <1>9, <2>1 DEF Grows, w
  <2>3. d \in v.lost <=> d \in w.lost
    BY <2>1 DEF Grows, w
  <2>4. d \in In(v) <=> d \in In(w)
    BY <2>2 DEF In
  <2>5. d \notin Waits(v)
    BY <2>1 DEF Grows, w
  <2>6. Once(v.cells, d)
    BY <2>1, <2>2 DEF Settled, Once
  <2>7. Settled(v, d)
    BY <1>2, <2>1, <2>3, <2>4, <2>5, <2>6 DEF Settled
  <2> QED
    BY <2>1, <2>2, <2>3, <2>7
<1>10. ASSUME Keeps(w), NEW c \in done, NEW d \in done
       PROVE  Precedes(v.cells, c, d) <=> Precedes(w.cells, c, d)
  <2>1. c \in Docs \ (Waits(w) \cup {text[m]}) /\ d \in Docs \ (Waits(w) \cup {text[m]})
    BY <1>9, <1>10
  <2> QED
    BY <1>10, <2>1, PrecedesKept DEF w
<1>11. KeptInv'
  <2>1. \A i \in DOMAIN writers : Keeps(writers'[i]) <=> Keeps(writers[i])
    BY <1>2, <1>5 DEF w
  <2>2. \A i \in DOMAIN writers : Keeps(writers[i]) =>
            \A d \in done : Settled(writers'[i], d)
    BY <1>5, <1>9 DEF KeptInv, w
  <2>3. \A i \in DOMAIN writers : Keeps(writers[i]) =>
            \A c, d \in done :
                /\ Precedes(writers'[i].cells, c, d) <=> Precedes(writers[i].cells, c, d)
                /\ c \in writers'[i].lost <=> c \in writers[i].lost
    BY <1>5, <1>9, <1>10 DEF w
  <2>4. \A i, k \in DOMAIN writers : Keeps(writers[i]) /\ Keeps(writers[k]) =>
            \A c, d \in Common(writers[i], writers[k]) :
                Precedes(writers[i].cells, c, d) <=> Precedes(writers[k].cells, c, d)
    BY DEF KeptInv
  <2>5. \A i, k \in DOMAIN writers : Keeps(writers[i]) /\ Keeps(writers[k]) =>
            Common(writers'[i], writers'[k]) = Common(writers[i], writers[k])
    BY <2>3 DEF Common
  <2>6. \A i, k \in DOMAIN writers : Keeps(writers[i]) /\ Keeps(writers[k]) =>
            \A c, d \in Common(writers'[i], writers'[k]) :
                Precedes(writers'[i].cells, c, d) <=> Precedes(writers'[k].cells, c, d)
    <3>1. \A i, k \in DOMAIN writers : Common(writers[i], writers[k]) \subseteq done
      BY DEF Common
    <3> QED
      BY <2>3, <2>4, <2>5, <3>1
  <2>7. \A i, k \in DOMAIN writers :
            /\ Common(writers[i], writers[k])' = Common(writers'[i], writers'[k])
            /\ \A d : Settled(writers[i], d)' <=> Settled(writers'[i], d)
            /\ Keeps(writers[i])' <=> Keeps(writers'[i])
            /\ \A c, d : Precedes(writers[i].cells, c, d)' <=> Precedes(writers'[i].cells, c, d)
    BY DEF Common, Settled, Ignores, Once, In, Waits, Keeps, Precedes
  <2>8. DOMAIN writers' = DOMAIN writers /\ done' = done
    BY <1>5
  <2>9. \A i \in DOMAIN writers' : Keeps(writers[i])' =>
            /\ \A d \in done' : Settled(writers[i], d)'
            /\ \A k \in DOMAIN writers' : Keeps(writers[k])' =>
                  \A c, d \in Common(writers[i], writers[k])' :
                      Precedes(writers[i].cells, c, d)' <=> Precedes(writers[k].cells, c, d)'
    BY ONLY <2>1, <2>2, <2>6, <2>7, <2>8
  <2> QED
    BY <2>9 DEF KeptInv
<1>12. SavedInv'
  <2>1. saved = None
    BY DEF IInv, EndInv
  <2> QED
    BY <2>1 DEF SavedInv
<1>13. ASSUME NEW a \in DOMAIN v.cells, NEW b \in DOMAIN v.cells,
              Keeps(v), v.cells[a] \in done, v.cells[b] = text[m]
       PROVE  a < b
  <2>1. Keeps(w) /\ v.cells[a] \in Docs
    BY <1>2, <1>6, <1>13
  <2>2. a \in DOMAIN w.cells /\ w.cells[a] = v.cells[a]
    BY <1>9, <1>13, <2>1
  <2>3. v.cells[b] \in Docs /\ ~(b \in DOMAIN w.cells /\ w.cells[b] = v.cells[b])
    BY <1>3, <1>4, <1>13 DEF Knows, In
  <2> QED
    BY <2>1, <2>2, <2>3 DEF Grows, w
<1> QED
  BY <1>7, <1>8, <1>11, <1>12, <1>13

\* The next writer takes the document and becomes v.
LEMMA TakesDocument ==
    ASSUME IInv, OutInv, NEW m \in Miners, mpc[m] = "write", mpc' = mpc,
           writer[m] <= Len(writers), NEW v,
           Grows(writers[writer[m]], v, text[m]), Settled(v, text[m]),
           writers' = [writers EXCEPT ![writer[m]] = v],
           writer' = [writer EXCEPT ![m] = writer[m] + 1],
           UNCHANGED <<setup, kind, m_iCurPath, docAttr, text, OutputLock, done, saved>>
    PROVE  OutInv'
<1>1. /\ writers \in Seq(WriterRec) /\ writer \in [Miners -> Nat]
      /\ OutputLock = m /\ writer[m] >= 1
      /\ \A i \in DOMAIN writers : Sound(writers[i])
  BY DEF OutInv, WriterInv, PlaceInv
<1>2. writer[m] \in DOMAIN writers /\ DOMAIN writers \subseteq Nat
  BY <1>1
<1>3. mpc'[m] \notin Early
  BY DEF Early, Analysing
<1>4. /\ WriterInv' /\ ComingInv' /\ KeptInv' /\ SavedInv'
      /\ \A a, b \in DOMAIN v.cells :
             Keeps(v) /\ v.cells[a] \in done /\ v.cells[b] = text[m] => a < b
  BY <1>2, <1>3, WriterGrows
<1>5. PlaceInv'
  <2>1. /\ DOMAIN writers' = DOMAIN writers
        /\ \A i \in DOMAIN writers :
               writers'[i] = IF i = writer[m] THEN v ELSE writers[i]
    BY <1>1, <1>2
  <2>2. /\ writer' \in [Miners -> Nat] /\ writer'[m] = writer[m] + 1
        /\ \A n \in Miners : mpc'[n] = "write" => n = m
    BY <1>1 DEF OutInv, PlaceInv
  <2> SUFFICES ASSUME NEW i \in DOMAIN writers
               PROVE  IF i >= writer'[m]
                      THEN text[m] \notin Knows(writers'[i])
                      ELSE Keeps(writers'[i]) =>
                        /\ Settled(writers'[i], text[m])
                        /\ \A a, b \in DOMAIN writers'[i].cells :
                               /\ writers'[i].cells[a] \in done
                               /\ writers'[i].cells[b] = text[m]
                               => a < b
    <3>1. writer'[m] >= 1
      BY <1>1, <2>2
    <3> QED
      BY <1>1, <2>1, <2>2, <3>1 DEF PlaceInv, Knows, In, Waits, Keeps, Settled, Once, Ignores
  <2>4. CASE i > writer[m]
    <3>1. i >= writer[m] /\ i # writer[m] /\ i >= writer'[m]
      BY <1>1, <1>2, <2>2, <2>4
    <3>2. text[m] \notin Knows(writers[i])
      BY <3>1 DEF OutInv, PlaceInv
    <3> QED
      BY <2>1, <3>1, <3>2
  <2>5. CASE i = writer[m]
    <3>1. ~(i >= writer'[m]) /\ writers'[i] = v
      BY <1>1, <1>2, <2>1, <2>2, <2>5
    <3> QED
      BY <1>4, <3>1
  <2>6. CASE i < writer[m]
    <3>1. ~(i >= writer'[m]) /\ ~(i >= writer[m]) /\ writers'[i] = writers[i]
      BY <1>1, <1>2, <2>1, <2>2, <2>6
    <3> QED
      BY <3>1 DEF OutInv, PlaceInv
  <2> QED
    BY <1>1, <1>2, <2>4, <2>5, <2>6
<1> QED
  BY <1>4, <1>5 DEF OutInv

\* The document and the writer of a miner that is at the writers.
LEMMA AtWriter ==
    ASSUME IInv, OutInv, NEW m \in Miners, mpc[m] = "write", writer[m] <= Len(writers)
    PROVE  /\ writer[m] \in DOMAIN writers /\ Sound(writers[writer[m]])
           /\ text[m] \in Docs /\ text[m] \notin Knows(writers[writer[m]])
           /\ kind[text[m]] # "skipped"
<1>1. /\ writers \in Seq(WriterRec) /\ writer \in [Miners -> Nat] /\ writer[m] >= 1
      /\ \A i \in DOMAIN writers : Sound(writers[i])
  BY DEF OutInv, WriterInv, PlaceInv
<1>2. writer[m] \in DOMAIN writers /\ writer[m] >= writer[m]
  BY <1>1
<1>3. text[m] \in Docs /\ kind[text[m]] # "skipped"
  BY DEF IInv, HoldInv, Holding, Analysing, TypeInv, Docs
<1>4. text[m] \notin Knows(writers[writer[m]])
  BY <1>2 DEF OutInv, PlaceInv
<1> QED
  BY <1>1, <1>2, <1>3, <1>4

LEMMA WriteStep ==
    ASSUME IInv, OutInv, NEW m \in Miners, Write(m) \/ WriteUnnoticed(m)
    PROVE  OutInv'
<1>1. /\ mpc[m] = "write" /\ mpc' = mpc /\ writer[m] <= Len(writers)
      /\ writer' = [writer EXCEPT ![m] = writer[m] + 1]
      /\ UNCHANGED <<setup, kind, m_iCurPath, docAttr, text, OutputLock, done, saved>>
  BY DEF Write, WriteUnnoticed, params, inputVars
<1>2. /\ writer[m] \in DOMAIN writers /\ Sound(writers[writer[m]])
      /\ text[m] \in Docs /\ text[m] \notin Knows(writers[writer[m]])
      /\ kind[text[m]] # "skipped"
  BY <1>1, AtWriter
<1>3. CASE Write(m)
  <2>1. PICK v : v = Written(writers[writer[m]], text[m])
    OBVIOUS
  <2>2. Grows(writers[writer[m]], v, text[m]) /\ Settled(v, text[m])
    BY <1>2, <2>1, WrittenGrows
  <2>3. writers' = [writers EXCEPT ![writer[m]] = v]
    BY <1>3, <2>1 DEF Write
  <2> QED
    BY ONLY IInv, OutInv, m \in Miners, <1>1, <2>2, <2>3, TakesDocument
<1>4. CASE WriteUnnoticed(m)
  <2>1. PICK v \in Unnoticed(writers[writer[m]], text[m]) :
            writers' = [writers EXCEPT ![writer[m]] = v]
    BY <1>4 DEF WriteUnnoticed
  <2>2. PICK k \in 0..Len(writers[writer[m]].prepared) :
            /\ v = Dropped(writers[writer[m]], text[m], k)
            /\ writers[writer[m]].kind = "proto" /\ ~Ignores(writers[writer[m]], text[m])
    BY <2>1 DEF Unnoticed
  <2>3. Grows(writers[writer[m]], v, text[m]) /\ Settled(v, text[m])
    BY <1>2, <2>2, DroppedGrows
  <2> QED
    BY ONLY IInv, OutInv, m \in Miners, <1>1, <2>1, <2>3, TakesDocument
<1> QED
  BY <1>3, <1>4

\* A writer throws, and OutputLock is given back.
LEMMA WriteThrowsStep ==
    ASSUME IInv, OutInv, NEW m \in Miners, WriteThrows(m)
    PROVE  OutInv'
<1>1. /\ mpc[m] = "write" /\ mpc' = [mpc EXCEPT ![m] = "report"] /\ writer[m] <= Len(writers)
      /\ UNCHANGED <<setup, kind, m_iCurPath, docAttr, text, writer, done, saved>>
  BY DEF WriteThrows, Goto, params, inputVars
<1>2. PICK v \in Failed(writers[writer[m]], text[m]) :
          writers' = [writers EXCEPT ![writer[m]] = v]
  BY DEF WriteThrows
<1>3. writer \in [Miners -> Nat] /\ OutputLock = m
  BY <1>1 DEF OutInv, PlaceInv
<1>4. writer[m] \in DOMAIN writers
  BY <1>1, AtWriter
<1>5. Grows(writers[writer[m]], v, text[m])
  BY <1>1, <1>2, AtWriter, FailedGrows
<1>6. \A n \in Miners : mpc'[n] = IF n = m THEN "report" ELSE mpc[n]
  BY <1>1 DEF IInv, TypeInv
<1>7. mpc'[m] \notin Early
  BY <1>6 DEF Early, Analysing
<1>8. WriterInv' /\ ComingInv' /\ KeptInv' /\ SavedInv'
  BY ONLY IInv, OutInv, m \in Miners, <1>1, <1>2, <1>4, <1>5, <1>6, <1>7, WriterGrows
<1>9. PlaceInv'
  <2>1. \A n \in Miners : mpc'[n] # "write"
    BY <1>1, <1>3, <1>6 DEF OutInv, PlaceInv
  <2> QED
    BY <1>1, <1>3, <2>1 DEF PlaceInv
<1> QED
  BY <1>8, <1>9 DEF OutInv

\* Every writer has had the document: it is put out, after the others.
LEMMA OutputEndsOut ==
    ASSUME IInv, OutInv, NEW m \in Miners, OutputEnds(m)
    PROVE  OutInv'
<1> USE DEF OutInv
<1>1. /\ mpc[m] = "write" /\ mpc' = [mpc EXCEPT ![m] = "input"]
      /\ writer[m] > Len(writers) /\ done' = done \cup {text[m]}
      /\ UNCHANGED <<setup, kind, m_iCurPath, docAttr, text, writers, writer, saved>>
  BY DEF OutputEnds, Goto, params, inputVars
<1>2. \A n \in Miners : mpc'[n] = (IF n = m THEN "input" ELSE mpc[n]) /\ mpc'[n] # "write"
  BY <1>1 DEF IInv, TypeInv, PlaceInv
<1>3. \A i \in DOMAIN writers : ~(i >= writer[m])
  BY <1>1 DEF WriterInv, PlaceInv
<1>4. text[m] \notin done /\ text[m] \in Docs
  BY <1>1 DEF IInv, HoldInv, Holding, Analysing, TypeInv, Docs
<1>5. WriterInv'
  BY <1>1 DEF WriterInv, Sound, Ignores
<1>6. ComingInv'
  <2>1. \A d \in Docs : Coming(d)' => Coming(d)
    BY <1>1, <1>2 DEF Coming, Early, Analysing
  <2> QED
    BY <1>1, <2>1 DEF ComingInv
<1>7. PlaceInv'
  BY <1>1, <1>2 DEF PlaceInv
<1>8. ASSUME NEW i \in DOMAIN writers, Keeps(writers[i])
      PROVE  /\ Settled(writers[i], text[m])
             /\ \A a, b \in DOMAIN writers[i].cells :
                    writers[i].cells[a] \in done /\ writers[i].cells[b] = text[m] => a < b
  BY <1>1, <1>3, <1>8 DEF PlaceInv
<1>9. ASSUME NEW i \in DOMAIN writers, Keeps(writers[i]), kind[text[m]] # "empty",
             NEW c \in done, kind[c] # "empty",
             text[m] \notin writers[i].lost, c \notin writers[i].lost
      PROVE  /\ Precedes(writers[i].cells, c, text[m])
             /\ ~Precedes(writers[i].cells, text[m], c)
  <2>1. text[m] \in In(writers[i]) /\ c \in In(writers[i])
    BY <1>8, <1>9 DEF KeptInv, Settled, Ignores
  <2>2. /\ writers[i].cells \in Seq(Docs \cup {0})
        /\ DOMAIN writers[i].cells \subseteq Nat
    <3>1. writers[i] \in WriterRec
      BY DEF WriterInv, Sound
    <3>2. writers[i].cells \in Seq(Docs \cup {0})
      BY <3>1 DEF WriterRec
    <3> QED
      BY <3>2
  <2>3. PICK a \in DOMAIN writers[i].cells : writers[i].cells[a] = c
    BY <2>1 DEF In
  <2>4. PICK b \in DOMAIN writers[i].cells : writers[i].cells[b] = text[m]
    BY <2>1 DEF In
  <2>5. a < b
    BY <1>8, <1>9, <2>3, <2>4
  <2>6. ASSUME NEW p \in DOMAIN writers[i].cells, NEW q \in DOMAIN writers[i].cells,
               p < q, writers[i].cells[p] = text[m], writers[i].cells[q] = c
        PROVE  FALSE
    <3>1. q < p
      BY <1>8, <1>9, <2>6
    <3> QED
      BY <2>2, <2>6, <3>1
  <2> QED
    BY <2>3, <2>4, <2>5, <2>6 DEF Precedes
<1>10. ASSUME NEW i \in DOMAIN writers, Keeps(writers[i])
       PROVE  ~Precedes(writers[i].cells, text[m], text[m])
  <2>1. Sound(writers[i])
    BY DEF WriterInv
  <2>2. writers[i].cells \in Seq(Docs \cup {0}) /\ DOMAIN writers[i].cells \subseteq Nat
    <3>1. writers[i].cells \in Seq(Docs \cup {0})
      BY <2>1 DEF Sound, WriterRec
    <3> QED
      BY <3>1
  <2> QED
    BY <1>8, <1>10, <2>2 DEF Precedes, Settled, Once
<1>11. KeptInv'
  <2>1. \A i \in DOMAIN writers : Keeps(writers[i]) =>
            \A d \in done' : Settled(writers[i], d)
    BY <1>1, <1>8 DEF KeptInv
  <2>2. ASSUME NEW i \in DOMAIN writers, Keeps(writers[i]),
               NEW k \in DOMAIN writers, Keeps(writers[k]),
               NEW c \in Common(writers[i], writers[k])',
               NEW d \in Common(writers[i], writers[k])'
        PROVE  Precedes(writers[i].cells, c, d) <=> Precedes(writers[k].cells, c, d)
    <3>0. /\ c \in done' /\ kind[c] # "empty" /\ c \notin writers[i].lost \cup writers[k].lost
          /\ d \in done' /\ kind[d] # "empty" /\ d \notin writers[i].lost \cup writers[k].lost
      BY <1>1, <2>2 DEF Common
    <3>1. CASE c \in done /\ d \in done
      BY <2>2, <3>0, <3>1 DEF KeptInv, Common
    <3>2. CASE c \in done /\ d = text[m]
      BY <1>9, <2>2, <3>0, <3>2
    <3>3. CASE c = text[m] /\ d \in done
      BY <1>9, <2>2, <3>0, <3>3
    <3>4. CASE c = text[m] /\ d = text[m]
      BY <1>10, <2>2, <3>4
    <3> QED
      BY <1>1, <3>0, <3>1, <3>2, <3>3, <3>4
  <2>3. \A d : \A i \in DOMAIN writers : Settled(writers[i], d)' <=> Settled(writers[i], d)
    BY <1>1 DEF Settled, Ignores
  <2> QED
    BY <1>1, <2>1, <2>2, <2>3 DEF KeptInv, Keeps
<1>12. SavedInv'
  BY <1>1 DEF SavedInv
<1> QED
  BY <1>5, <1>6, <1>7, <1>11, <1>12

LEMMA SaveOut ==
    ASSUME IInv, OutInv, SaveToFile
    PROVE  OutInv'
<1> USE DEF OutInv
<1>1. /\ UNCHANGED <<setup, kind, m_iCurPath, docAttr, text, OutputLock, writers, writer,
                     done, mpc>>
      /\ setup.pretty => saved' = Last(writers).cells
  BY DEF SaveToFile, params, inputVars, outputVars
<1>2. WriterInv' /\ ComingInv' /\ PlaceInv' /\ KeptInv'
  BY <1>1 DEF WriterInv, Sound, ComingInv, Coming, PlaceInv, KeptInv, Keeps, Settled,
      Common, Ignores
<1>3. SavedInv'
  BY <1>1 DEF SavedInv
<1> QED
  BY <1>2, <1>3
-----------------------------------------------------------------------------
(***************************************************************************)
(* The start.                                                              *)
(***************************************************************************)

\* A writer with no document.
Blank ==
    {w \in WriterRec : /\ w.at <= Len(w.cells) /\ w.prepared = <<>>
                       /\ w.lost = {}
                       /\ \A k \in DOMAIN w.cells : w.cells[k] = 0}

LEMMA BlankIsSound ==
    ASSUME NEW w \in Blank
    PROVE  Sound(w) /\ Knows(w) = {}
<1>1. /\ w \in WriterRec /\ w.at <= Len(w.cells) /\ w.prepared = <<>> /\ w.lost = {}
      /\ \A k \in DOMAIN w.cells : w.cells[k] = 0
  BY DEF Blank
<1>2. In(w) = {} /\ Waits(w) = {}
  BY <1>1 DEF In, Waits, Docs
<1> QED
  BY <1>1, <1>2 DEF Sound, Knows

LEMMA WriterIsBlank ==
    ASSUME NEW k \in {"xml", "proto", "json", "text", "pretty"}, NEW append \in BOOLEAN,
           NEW cells \in Seq({0}), NEW at \in 0..Len(cells)
    PROVE  Writer(k, append, cells, at) \in Blank
<1> DEFINE w == Writer(k, append, cells, at)
<1>1. /\ cells \in Seq(Docs \cup {0}) /\ \A a \in DOMAIN cells : cells[a] = 0
      /\ at \in Nat /\ at <= Len(cells)
  OBVIOUS
<1>2. /\ w \in WriterRec
      /\ w.cells = cells /\ w.at = at /\ w.prepared = <<>> /\ w.lost = {}
  BY <1>1 DEF Writer, WriterRec
<1> QED
  BY <1>1, <1>2 DEF Blank

LEMMA InitOutputBlank ==
    ASSUME NEW s \in Setups
    PROVE  /\ InitOutput(s) \in Seq(Blank)
           /\ s.pretty => InitOutput(s) # <<>> /\ Last(InitOutput(s)).kind = "pretty"
<1> DEFINE a == IsAppendFdo(s)
           t == Writer("text", FALSE, <<>>, 0)
           p == Writer("pretty", TRUE, <<>>, 0)
           x == IF s.dump /\ s.format # "text" THEN <<t>> ELSE <<>>
           y == IF s.pretty THEN <<p>> ELSE <<>>
<1>1. s.format \in {"xml", "proto", "json", "text"} /\ s.old \in Seq({0})
  BY MinerAssumption
<1>2. a \in BOOLEAN
  BY DEF IsAppendFdo
<1>3. MainWriter(s) \in Blank
  <2> DEFINE kept == IF a THEN s.old ELSE <<>>
  <2>1. kept \in Seq({0})
    BY <1>1
  <2>2. Len(kept) \in 0..Len(kept) /\ 0 \in 0..Len(kept) /\ Len(s.old) \in 0..Len(s.old)
    BY <1>1, <2>1
  <2>3. MainWriter(s) \in {Writer("xml", a, kept, 0), Writer("proto", a, kept, Len(kept)),
                           Writer("json", a, kept, Len(kept)),
                           Writer("text", a, s.old, Len(s.old))}
    BY <1>1 DEF MainWriter
  <2> HIDE DEF a, kept
  <2> QED
    BY <1>1, <1>2, <2>1, <2>2, <2>3, WriterIsBlank
<1>4. t \in Blank /\ p \in Blank /\ p.kind = "pretty"
  <2>1. <<>> \in Seq({0}) /\ 0 \in 0..Len(<<>>)
    OBVIOUS
  <2>2. p.kind = "pretty"
    BY DEF Writer
  <2> QED
    BY <2>1, <2>2, WriterIsBlank
<1> HIDE DEF t, p
<1>5. x \in Seq(Blank) /\ y \in Seq(Blank) /\ <<MainWriter(s)>> \in Seq(Blank)
  BY <1>3, <1>4
<1>6. InitOutput(s) = <<MainWriter(s)>> \o x \o y
  BY DEF InitOutput, t, p
<1>7. CASE s.pretty
  <2>1. y = <<p>>
    BY <1>7
  <2> HIDE DEF x, y
  <2> DEFINE u == <<MainWriter(s)>> \o x
  <2>2. u \in Seq(Blank)
    BY <1>5
  <2>3. InitOutput(s) = u \o <<p>>
    BY <1>6, <2>1
  <2> HIDE DEF u
  <2>4. u \o <<p>> \in Seq(Blank) /\ Len(u \o <<p>>) = Len(u) + 1
        /\ (u \o <<p>>)[Len(u) + 1] = p
    BY <1>4, <2>2
  <2> QED
    BY <1>4, <2>3, <2>4 DEF Last
<1>8. CASE ~s.pretty
  BY <1>5, <1>6, <1>8
<1> QED
  BY <1>7, <1>8

LEMMA InitOut == Init => OutInv
<1> SUFFICES ASSUME Init PROVE OutInv
  OBVIOUS
<1>1. /\ writers \in Seq(Blank)
      /\ setup.pretty => writers # <<>> /\ Last(writers).kind = "pretty"
  BY InitOutputBlank DEF Init
<1>2. \A i \in DOMAIN writers : writers[i] \in Blank
  BY <1>1
<1>3. \A i \in DOMAIN writers :
          Sound(writers[i]) /\ Knows(writers[i]) = {}
  BY <1>2, BlankIsSound
<1>4. writers \in Seq(WriterRec)
  BY <1>1 DEF Blank
<1>5. WriterInv
  BY <1>1, <1>3, <1>4 DEF WriterInv
<1>6. ComingInv
  BY <1>3 DEF ComingInv
<1>7. PlaceInv
  BY DEF Init, PlaceInv
<1>8. KeptInv /\ SavedInv
  BY DEF Init, KeptInv, Common, SavedInv
<1> QED
  BY <1>5, <1>6, <1>7, <1>8 DEF OutInv

LEMMA NextOut == IInv /\ OutInv /\ [Next]_vars => OutInv'
<1> SUFFICES ASSUME IInv, OutInv, [Next]_vars PROVE OutInv'
  OBVIOUS
<1>1. CASE UNCHANGED vars
  BY <1>1, WritersUntouched
      DEF vars, params, inputVars, outputVars, Coming
<1>2. ASSUME NEW m \in Miners, MinerStep(m) PROVE OutInv'
  BY <1>2, MinerElsewhere, OutputFactsStep, WriteStep, WriteThrowsStep, OutputEndsOut
      DEF MinerStep
<1> QED
  BY <1>1, <1>2, SaveOut DEF Next

LEMMA OutInvariance == Spec => [](IInv /\ OutInv)
BY InitOut, NextOut, InitIInv, NextIInv, PTL DEF Spec

\* What is nowhere in a sequence, or at one place.
LEMMA TimesOnce ==
    ASSUME NEW s \in Seq(Docs \cup {0}), NEW d \in Docs, Once(s, d)
    PROVE  Times(s, d) = IF \E k \in DOMAIN s : s[k] = d THEN 1 ELSE 0
<1>1. CASE \E k \in DOMAIN s : s[k] = d
  <2>1. PICK k \in DOMAIN s : s[k] = d
    BY <1>1
  <2>2. {a \in DOMAIN s : s[a] = d} = {k}
    BY <2>1 DEF Once
  <2> QED
    BY <1>1, <2>2, FS_Singleton DEF Times
<1>2. CASE ~\E k \in DOMAIN s : s[k] = d
  <2>1. {a \in DOMAIN s : s[a] = d} = {}
    BY <1>2
  <2> QED
    BY <1>2, <2>1, FS_EmptySet DEF Times
<1> QED
  BY <1>1, <1>2

\* A document that is in an output more than once is one whose failure was said.
LEMMA TwiceIsFailed ==
    ASSUME IInv, OutInv, NEW i \in DOMAIN writers, Keeps(writers[i]), NEW d \in Docs,
           ~Once(writers[i].cells, d)
    PROVE  SaidFailed(d)
<1> USE DEF IInv, OutInv
<1>1. d \in In(writers[i]) /\ d \in Knows(writers[i])
  BY DEF Once, In, Knows
<1>2. kind[d] # "skipped" /\ d \notin done
  BY <1>1 DEF WriterInv, Sound, KeptInv, Settled
<1>3. ~Coming(d)
  BY <1>1 DEF ComingInv
<1>4. d < m_iCurPath
  BY <1>3 DEF Coming, TypeInv, Docs
<1>5. CASE Over(d)
  BY <1>2, <1>5 DEF Over, Reported, SaidFailed
<1>6. CASE ~Over(d)
  <2>1. PICK m \in Miners : mpc[m] \in Holding /\ docAttr[m] = d
    BY <1>2, <1>4, <1>6 DEF DocInv
  <2>2. mpc[m] \in {"report", "write"}
    BY <1>3, <2>1 DEF Coming, Early, Holding
  <2>3. CASE mpc[m] = "report"
    BY <2>1, <2>3 DEF StreamInv, Noted, SaidFailed
  <2>4. CASE mpc[m] = "write"
    <3>1. text[m] = d
      BY <2>1, <2>4 DEF HoldInv, Analysing
    <3> QED
      BY <1>1, <2>4, <3>1 DEF PlaceInv, Settled
  <2> QED
    BY <2>2, <2>3, <2>4
<1> QED
  BY <1>5, <1>6

\* What was put out stays in every output that is kept, once and in the same
\* order, and is saved, and only documents whose failure was said are written
\* more than once, for any number of miners, documents and failures, wherever a
\* flush breaks off, and for all parameters.
THEOREM OutputIsKeptAlways == Spec => []OutputIsKept
<1>1. IInv /\ OutInv => OutputIsKept
  <2> SUFFICES ASSUME IInv, OutInv PROVE OutputIsKept
    OBVIOUS
  <2>1. \A i \in DOMAIN writers : Sound(writers[i])
    BY DEF OutInv, WriterInv
  <2>2. \A i \in DOMAIN writers : writers[i].cells \in Seq(Docs \cup {0})
    BY <2>1 DEF Sound, WriterRec
  <2>3. done \subseteq Docs
    BY DEF IInv, TypeInv
  <2>4. ASSUME NEW i \in DOMAIN writers, Keeps(writers[i]), NEW d \in done
        PROVE  Times(writers[i].cells, d) =
                   IF Ignores(writers[i], d) \/ d \in writers[i].lost THEN 0 ELSE 1
    <3>1. Settled(writers[i], d)
      BY <2>4 DEF OutInv, KeptInv
    <3>2. Ignores(writers[i], d) \/ d \in writers[i].lost <=> d \notin In(writers[i])
      BY <2>1, <3>1 DEF Settled, Sound
    <3>3. Times(writers[i].cells, d) = IF d \in In(writers[i]) THEN 1 ELSE 0
      BY <2>2, <2>3, <3>1, TimesOnce DEF Settled, In
    <3> QED
      BY <3>2, <3>3
  <2>5. ASSUME saved # None, setup.pretty, NEW d \in done
        PROVE  Times(saved, d) = 1
    <3>1. /\ writers \in Seq(WriterRec) /\ writers # <<>>
          /\ writers[Len(writers)].kind = "pretty" /\ saved = writers[Len(writers)].cells
      BY <2>5 DEF OutInv, WriterInv, SavedInv, Last
    <3>2. Len(writers) \in DOMAIN writers
      BY <3>1
    <3>3. /\ Keeps(writers[Len(writers)]) /\ ~Ignores(writers[Len(writers)], d)
          /\ d \notin writers[Len(writers)].lost
      BY <2>1, <3>1, <3>2 DEF Keeps, Ignores, Sound
    <3> QED
      BY <2>4, <3>1, <3>2, <3>3
  <2>6. ASSUME NEW i \in DOMAIN writers, Keeps(writers[i]), NEW d \in Docs,
               Times(writers[i].cells, d) > 1
        PROVE  SaidFailed(d)
    <3>1. ~Once(writers[i].cells, d)
      <4>1. Once(writers[i].cells, d) => Times(writers[i].cells, d) \in {0, 1}
        BY <2>2, TimesOnce
      <4> QED
        BY <2>6, <4>1
    <3> QED
      BY <2>6, <3>1, TwiceIsFailed
  <2>7. \A i, k \in DOMAIN writers : Keeps(writers[i]) /\ Keeps(writers[k]) =>
            \A c, d \in Common(writers[i], writers[k]) :
                Precedes(writers[i].cells, c, d) <=> Precedes(writers[k].cells, c, d)
    BY DEF OutInv, KeptInv
  <2> QED
    BY <2>4, <2>5, <2>6, <2>7 DEF OutputIsKept
<1> QED
  BY <1>1, OutInvariance, PTL
=============================================================================

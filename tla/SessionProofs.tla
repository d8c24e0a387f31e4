---------------------------- MODULE SessionProofs ----------------------------
(***************************************************************************)
(* Proofs about Session for any set of processes and any number of logins: *)
(* type correctness, that a logout lasts, that a stored login can be       *)
(* renewed, that an API key gives way to a login only, and that nobody is  *)
(* asked to log in whose session still lasts.                              *)
(***************************************************************************)
EXTENDS Session, TLAPS

USE SessionConstants DEF Providers, Ids

-----------------------------------------------------------------------------
(* The strengthening.  Sessions still to come are nowhere; none waits that *)
(* already lasts.                                                          *)
Issued ==
  /\ file.sess <= issued /\ \A p \in Procs : held[p].sess <= issued
  /\ waiting \subseteq 1 .. issued /\ alive \subseteq 1 .. issued
  /\ barred \subseteq 1 .. issued
  /\ waiting \cap alive = {}

(* A process that renews does so for tokens, not for an API key.           *)
RenewsTokens == \A p \in Procs : pc[p] \in {"refresh", "save"} => ~held[p].key

(* A login that is being made is that of one process.                      *)
OwnLogin ==
  \A p \in Procs : At(p, "poll") =>
    /\ held[p].sess \in 1 .. issued /\ ~held[p].key
    /\ held[p].issuer = oauth[p]
    /\ file.sess # held[p].sess
    /\ \A q \in Procs \ {p} : held[q].sess # held[p].sess

(* What is held can be renewed, and is from after every logout, as far as  *)
(* the process did not read it before.                                     *)
HeldRenewable == \A p \in Procs : held[p].sess # 0 => held[p].renewable
HeldHolds     == \A p \in Procs : held[p].sess \notin barred

(* A session that waits or lasts is of the provider its token names, or    *)
(* that it is about to be renewed by.                                      *)
Awaited(s)    == s \in waiting \cup alive
IssuedBy(f)   == Awaited(f.sess) /\ f.issuer # None => idp[f.sess] = f.issuer
RightIssuer ==
  /\ IssuedBy(file)
  /\ \A p \in Procs :
       /\ IssuedBy(held[p])
       /\ At(p, "save") /\ Awaited(held[p].sess) => idp[held[p].sess] = oauth[p]

(* A process is set up for the provider of the file, unless another wrote  *)
(* the file since it started.                                              *)
SetUpRight ==
  \A p \in Procs \ overtaken :
    /\ pc[p] \in {"token", "send"} => oauth[p] = Recognized(file)
    /\ At(p, "refresh") => oauth[p] = Recognized(held[p])
                           /\ oauth[p] = Recognized(file)

Fits == RenewsTokens /\ HeldRenewable /\ HeldHolds /\ Renewable /\ LogoutHolds
IInv == TypeOK /\ Issued /\ Fits /\ OwnLogin /\ RightIssuer /\ SetUpRight

-----------------------------------------------------------------------------
(* Files and who holds them.                                               *)

LEMMA EmptyFile ==
  /\ Empty \in Files /\ Empty.sess = 0 /\ Empty.key = FALSE
  /\ Empty.renewable = FALSE /\ Empty.issuer = None
  BY DEF Empty, Files

LEMMA Fields ==
  ASSUME NEW f \in Files
  PROVE  /\ f.sess \in 0 .. MaxSessions /\ f.fresh \in BOOLEAN
         /\ f.renewable \in BOOLEAN /\ f.key \in BOOLEAN
         /\ f.issuer \in Providers \cup {None}
  BY DEF Files

LEMMA RecognizedType == ASSUME NEW f \in Files PROVE Recognized(f) \in Providers
  BY DEF Recognized, Files

LEMMA Holding ==
  ASSUME TypeOK, NEW p \in Procs, NEW f \in Files, held' = [held EXCEPT ![p] = f]
  PROVE  /\ held' \in [Procs -> Files]
         /\ \A q \in Procs : held'[q] = IF q = p THEN f ELSE held[q]
  BY DEF TypeOK

LEMMA EndStep ==
  ASSUME IInv, NEW p \in Procs, pc[p] # "idle", End(p),
         UNCHANGED <<file, server, barred>>
  PROVE  IInv'
<1> USE DEF IInv, End, Leave, At, server
<1>0. /\ held' \in [Procs -> Files]
      /\ \A q \in Procs : held'[q] = IF q = p THEN Empty ELSE held[q]
  BY Holding, EmptyFile
<1>1. TypeOK'
  BY <1>0 DEF TypeOK
<1>2. Issued'
  BY <1>0, EmptyFile DEF Issued, TypeOK
<1>3. Fits'
  BY <1>0, EmptyFile DEF Fits, RenewsTokens, HeldRenewable, HeldHolds, Renewable,
     LogoutHolds, TypeOK, Issued
<1>4. OwnLogin'
  BY <1>0, EmptyFile DEF OwnLogin, TypeOK, Issued
<1>5. RightIssuer'
  BY <1>0, EmptyFile DEF RightIssuer, IssuedBy, Awaited, TypeOK
<1>6. SetUpRight'
  BY <1>0, EmptyFile DEF SetUpRight, TypeOK
<1> QED
  BY <1>1, <1>2, <1>3, <1>4, <1>5, <1>6

(* The steps, action by action.                                            *)

LEMMA StartRequestStep ==
  ASSUME IInv, NEW p \in Procs, StartRequest(p) PROVE IInv'
<1> USE DEF IInv, StartRequest, Begin, At, server, procVars
<1>1. TypeOK'
  BY RecognizedType DEF TypeOK
<1>2. Issued'
  BY DEF Issued, TypeOK
<1>3. Fits'
  BY DEF Fits, RenewsTokens, HeldRenewable, HeldHolds, Renewable, LogoutHolds,
     TypeOK, Issued, NeedsRefresh
<1>4. OwnLogin'
  BY DEF OwnLogin, TypeOK, Issued
<1>5. RightIssuer'
  BY DEF RightIssuer, IssuedBy, Awaited, OwnLogin, TypeOK, Issued
<1>6. SetUpRight'
  BY DEF SetUpRight, Recognized, Fits, RenewsTokens, OwnLogin, TypeOK,
     NeedsRefresh, Stored
<1> QED
  BY <1>1, <1>2, <1>3, <1>4, <1>5, <1>6

LEMMA PollTimeoutStep ==
  ASSUME IInv, NEW p \in Procs, PollTimeout(p) PROVE IInv'
  BY EndStep DEF PollTimeout, At

LEMMA PollFailsStep ==
  ASSUME IInv, NEW p \in Procs, PollFails(p) PROVE IInv'
  BY EndStep DEF PollFails, At

LEMMA FinishLoginStep ==
  ASSUME IInv, NEW p \in Procs, FinishLogin(p) PROVE IInv'
  BY EndStep DEF FinishLogin, At

LEMMA LoginStep ==
  ASSUME IInv, NEW p \in Procs, Login(p) PROVE IInv'
<1> USE DEF IInv, Login, Offered, Begin, At, server, procVars
<1>1. TypeOK'
  BY RecognizedType DEF TypeOK
<1>2. Issued'
  BY DEF Issued, TypeOK
<1>3. Fits'
  BY DEF Fits, RenewsTokens, HeldRenewable, HeldHolds, Renewable, LogoutHolds,
     TypeOK, Issued, NeedsRefresh
<1>4. OwnLogin'
  BY DEF OwnLogin, TypeOK, Issued
<1>5. RightIssuer'
  BY DEF RightIssuer, IssuedBy, Awaited, OwnLogin, TypeOK, Issued
<1>6. SetUpRight'
  BY DEF SetUpRight, Recognized, Fits, RenewsTokens, OwnLogin, TypeOK,
     NeedsRefresh, Stored
<1> QED
  BY <1>1, <1>2, <1>3, <1>4, <1>5, <1>6

LEMMA LogoutStep ==
  ASSUME IInv, NEW p \in Procs, Logout(p) PROVE IInv'
<1> USE DEF IInv, Logout, Write, Asking, Deleted, At, server, procVars
<1>1. TypeOK'
  BY EmptyFile DEF TypeOK, Asking
<1>2. Issued'
  BY EmptyFile DEF Issued, TypeOK
<1>3. Fits'
  BY EmptyFile DEF Fits, RenewsTokens, HeldRenewable, HeldHolds, Renewable,
     LogoutHolds, TypeOK, Issued, NeedsRefresh
<1>4. OwnLogin'
  BY EmptyFile DEF OwnLogin, TypeOK, Issued
<1>5. RightIssuer'
  BY EmptyFile DEF RightIssuer, IssuedBy, Awaited, OwnLogin, TypeOK, Issued
<1>6. SetUpRight'
  BY EmptyFile DEF SetUpRight, Recognized, Fits, RenewsTokens, OwnLogin, TypeOK,
     NeedsRefresh, Stored
<1> QED
  BY <1>1, <1>2, <1>3, <1>4, <1>5, <1>6

LEMMA ReadForAPIKeyStep ==
  ASSUME IInv, NEW p \in Procs, ReadForAPIKey(p) PROVE IInv'
<1> USE DEF IInv, ReadForAPIKey, Begin, At, server, procVars
<1>0. /\ held' \in [Procs -> Files]
      /\ \A q \in Procs : held'[q] = IF q = p THEN file ELSE held[q]
  BY Holding DEF TypeOK
<1>1. TypeOK'
  BY <1>0 DEF TypeOK, Asking
<1>2. Issued'
  BY <1>0 DEF Issued, TypeOK
<1>3. Fits'
  BY <1>0 DEF Fits, RenewsTokens, HeldRenewable, HeldHolds, Renewable, LogoutHolds,
     TypeOK, Issued, NeedsRefresh
<1>4. OwnLogin'
  BY <1>0 DEF OwnLogin, TypeOK, Issued
<1>5. RightIssuer'
  BY <1>0 DEF RightIssuer, IssuedBy, Awaited, OwnLogin, TypeOK, Issued
<1>6. SetUpRight'
  BY <1>0 DEF SetUpRight, Recognized, Fits, RenewsTokens, OwnLogin, TypeOK,
     NeedsRefresh, Stored
<1> QED
  BY <1>1, <1>2, <1>3, <1>4, <1>5, <1>6

LEMMA ExpireStep ==
  ASSUME IInv, Expire PROVE IInv'
<1> USE DEF IInv, Expire, At, server, procVars
<1>0. file' \in Files /\ file'.sess = file.sess /\ file'.key = file.key
      /\ file'.renewable = file.renewable /\ file'.issuer = file.issuer
  BY DEF TypeOK, Files
<1>1. TypeOK'
  BY <1>0 DEF TypeOK, Asking
<1>2. Issued'
  BY <1>0 DEF Issued, TypeOK
<1>3. Fits'
  BY <1>0 DEF Fits, RenewsTokens, HeldRenewable, HeldHolds, Renewable, LogoutHolds,
     TypeOK, Issued, NeedsRefresh
<1>4. OwnLogin'
  BY <1>0 DEF OwnLogin, TypeOK, Issued
<1>5. RightIssuer'
  BY <1>0 DEF RightIssuer, IssuedBy, Awaited, OwnLogin, TypeOK, Issued
<1>6. SetUpRight'
  BY <1>0 DEF SetUpRight, Recognized, Fits, RenewsTokens, OwnLogin, TypeOK,
     NeedsRefresh, Stored
<1> QED
  BY <1>1, <1>2, <1>3, <1>4, <1>5, <1>6

LEMMA ApproveStep ==
  ASSUME IInv, Approve PROVE IInv'
<1> USE DEF IInv, Approve, At, server, procVars
<1>1. TypeOK'
  BY RecognizedType DEF TypeOK
<1>2. Issued'
  BY DEF Issued, TypeOK
<1>3. Fits'
  BY DEF Fits, RenewsTokens, HeldRenewable, HeldHolds, Renewable, LogoutHolds,
     TypeOK, Issued, NeedsRefresh
<1>4. OwnLogin'
  BY DEF OwnLogin, TypeOK, Issued
<1>5. RightIssuer'
  BY DEF RightIssuer, IssuedBy, Awaited, OwnLogin, TypeOK, Issued
<1>6. SetUpRight'
  BY DEF SetUpRight, Recognized, Fits, RenewsTokens, OwnLogin, TypeOK,
     NeedsRefresh, Stored
<1> QED
  BY <1>1, <1>2, <1>3, <1>4, <1>5, <1>6

LEMMA CodeExpiresStep ==
  ASSUME IInv, CodeExpires PROVE IInv'
<1> USE DEF IInv, CodeExpires, At, server, procVars
<1>1. TypeOK'
  BY RecognizedType DEF TypeOK
<1>2. Issued'
  BY DEF Issued, TypeOK
<1>3. Fits'
  BY DEF Fits, RenewsTokens, HeldRenewable, HeldHolds, Renewable, LogoutHolds,
     TypeOK, Issued, NeedsRefresh
<1>4. OwnLogin'
  BY DEF OwnLogin, TypeOK, Issued
<1>5. RightIssuer'
  BY DEF RightIssuer, IssuedBy, Awaited, OwnLogin, TypeOK, Issued
<1>6. SetUpRight'
  BY DEF SetUpRight, Recognized, Fits, RenewsTokens, OwnLogin, TypeOK,
     NeedsRefresh, Stored
<1> QED
  BY <1>1, <1>2, <1>3, <1>4, <1>5, <1>6

LEMMA RevokeStep ==
  ASSUME IInv, Revoke PROVE IInv'
<1> USE DEF IInv, Revoke, At, server, procVars
<1>1. TypeOK'
  BY RecognizedType DEF TypeOK
<1>2. Issued'
  BY DEF Issued, TypeOK
<1>3. Fits'
  BY DEF Fits, RenewsTokens, HeldRenewable, HeldHolds, Renewable, LogoutHolds,
     TypeOK, Issued, NeedsRefresh
<1>4. OwnLogin'
  BY DEF OwnLogin, TypeOK, Issued
<1>5. RightIssuer'
  BY DEF RightIssuer, IssuedBy, Awaited, OwnLogin, TypeOK, Issued
<1>6. SetUpRight'
  BY DEF SetUpRight, Recognized, Fits, RenewsTokens, OwnLogin, TypeOK,
     NeedsRefresh, Stored
<1> QED
  BY <1>1, <1>2, <1>3, <1>4, <1>5, <1>6

(* What a process may write to the file.                                   *)
Sound(f, p) ==
  /\ f \in Files /\ f.sess <= issued /\ f.sess \notin barred
  /\ f.sess # 0 => f.renewable
  /\ IssuedBy(f)
  /\ \A q \in Procs \ {p} : At(q, "poll") => held[q].sess # f.sess

LEMMA HeldSound ==
  ASSUME IInv, NEW p \in Procs, pc[p] # "save"
  PROVE  Sound(held[p], p)
  BY DEF Sound, IInv, TypeOK, Issued, Fits, HeldHolds, HeldRenewable, RightIssuer,
     OwnLogin, At

LEMMA HaveTokenStep ==
  ASSUME IInv, NEW p \in Procs, HaveToken(p), UNCHANGED <<server, barred>>,
         \/ pc[p] = "token" /\ UNCHANGED <<file, overtaken>>
         \/ /\ Sound(file', p) /\ file'.issuer = oauth[p] /\ ~file'.key
            /\ overtaken' = overtaken \cup (Asking \ {p})
  PROVE  IInv'
<1> USE DEF IInv, HaveToken, Goto, At, server
<1>0. /\ held' \in [Procs -> Files]
      /\ \A q \in Procs : held'[q] = IF q = p THEN Empty ELSE held[q]
  BY Holding, EmptyFile
<1>7. Sound(file', p) /\ overtaken \subseteq overtaken'
  BY DEF Sound, TypeOK, Issued, Fits, LogoutHolds, Renewable, RightIssuer, OwnLogin
<1>1. TypeOK'
  BY <1>0, <1>7, EmptyFile DEF Sound, Asking, TypeOK, Asking
<1>2. Issued'
  BY <1>0, <1>7, EmptyFile DEF Sound, Issued, TypeOK
<1>3. Fits'
  BY <1>0, <1>7, EmptyFile DEF Sound, Fits, RenewsTokens, HeldRenewable, HeldHolds,
     Renewable, LogoutHolds, TypeOK, Issued, NeedsRefresh
<1>4. OwnLogin'
  BY <1>0, <1>7, EmptyFile DEF Sound, OwnLogin, TypeOK, Issued
<1>5. RightIssuer'
  BY <1>0, <1>7, EmptyFile DEF Sound, RightIssuer, IssuedBy, Awaited, OwnLogin,
     TypeOK, Issued
<1>6. SetUpRight'
  BY <1>0, <1>7, EmptyFile DEF Sound, Asking, SetUpRight, Recognized, Fits,
     RenewsTokens, OwnLogin, TypeOK, NeedsRefresh, Stored
<1> QED
  BY <1>1, <1>2, <1>3, <1>4, <1>5, <1>6

LEMMA GetTokenStep ==
  ASSUME IInv, NEW p \in Procs, GetToken(p) PROVE IInv'
<1> USE DEF IInv, GetToken, Goto, At, server, procVars
<1>1. CASE ~Stored(file) /\ Goto(p, "prompt") /\ UNCHANGED <<phase, held>>
  <2> USE <1>1
  <2>1. TypeOK'
    BY DEF TypeOK, Asking
  <2>2. Issued'
    BY DEF Issued, TypeOK
  <2>3. Fits'
    BY DEF Fits, RenewsTokens, HeldRenewable, HeldHolds, Renewable, LogoutHolds,
       TypeOK, Issued, NeedsRefresh
  <2>4. OwnLogin'
    BY DEF OwnLogin, TypeOK, Issued
  <2>5. RightIssuer'
    BY DEF RightIssuer, IssuedBy, Awaited, OwnLogin, TypeOK, Issued
  <2>6. SetUpRight'
    BY DEF SetUpRight, Recognized, Fits, RenewsTokens, OwnLogin, TypeOK,
       NeedsRefresh, Stored
  <2> QED
    BY <2>1, <2>2, <2>3, <2>4, <2>5, <2>6
<1>2. CASE /\ Goto(p, "refresh") /\ NeedsRefresh(file)
           /\ held' = [held EXCEPT ![p] = file] /\ UNCHANGED phase
  <2> USE <1>2
  <2>0. /\ held' \in [Procs -> Files]
        /\ \A q \in Procs : held'[q] = IF q = p THEN file ELSE held[q]
    BY Holding DEF TypeOK
  <2>1. TypeOK'
    BY <2>0 DEF TypeOK, Asking
  <2>2. Issued'
    BY <2>0 DEF Issued, TypeOK
  <2>3. Fits'
    BY <2>0 DEF Fits, RenewsTokens, HeldRenewable, HeldHolds, Renewable,
       LogoutHolds, TypeOK, Issued, NeedsRefresh
  <2>4. OwnLogin'
    BY <2>0 DEF OwnLogin, TypeOK, Issued
  <2>5. RightIssuer'
    BY <2>0 DEF RightIssuer, IssuedBy, Awaited, OwnLogin, TypeOK, Issued
  <2>6. SetUpRight'
    BY <2>0 DEF SetUpRight, Recognized, Fits, RenewsTokens, OwnLogin, TypeOK,
       NeedsRefresh, Stored
  <2> QED
    BY <2>1, <2>2, <2>3, <2>4, <2>5, <2>6
<1>3. CASE HaveToken(p)
  BY <1>3, HaveTokenStep
<1> QED
  BY <1>1, <1>2, <1>3

LEMMA RefreshStep ==
  ASSUME IInv, NEW p \in Procs, Refresh(p) PROVE IInv'
<1> USE DEF IInv, Refresh, Goto, At, server, procVars
<1>1. CASE Goto(p, "save") /\ Honoured(p) /\ UNCHANGED <<held, phase, overtaken>>
  <2> USE <1>1
  <2>1. TypeOK'
    BY DEF TypeOK, Asking
  <2>2. Issued'
    BY DEF Issued, TypeOK
  <2>3. Fits'
    BY DEF Fits, RenewsTokens, HeldRenewable, HeldHolds, Renewable, LogoutHolds,
       TypeOK, Issued, NeedsRefresh
  <2>4. OwnLogin'
    BY DEF OwnLogin, TypeOK, Issued
  <2>5. RightIssuer'
    BY DEF Honoured, RightIssuer, IssuedBy, Awaited, OwnLogin, TypeOK, Issued
  <2>6. SetUpRight'
    BY DEF SetUpRight, Recognized, Fits, RenewsTokens, OwnLogin, TypeOK,
       NeedsRefresh, Stored
  <2> QED
    BY <2>1, <2>2, <2>3, <2>4, <2>5, <2>6
<1>2. CASE /\ Goto(p, "prompt") /\ held' = [held EXCEPT ![p] = Empty]
           /\ overtaken' = overtaken \ {p} /\ UNCHANGED phase
  <2> USE <1>2
  <2>0. /\ held' \in [Procs -> Files]
        /\ \A q \in Procs : held'[q] = IF q = p THEN Empty ELSE held[q]
    BY Holding, EmptyFile DEF TypeOK
  <2>1. TypeOK'
    BY <2>0, EmptyFile DEF TypeOK, Asking
  <2>2. Issued'
    BY <2>0, EmptyFile DEF Issued, TypeOK
  <2>3. Fits'
    BY <2>0, EmptyFile DEF Fits, RenewsTokens, HeldRenewable, HeldHolds, Renewable,
       LogoutHolds, TypeOK, Issued, NeedsRefresh
  <2>4. OwnLogin'
    BY <2>0, EmptyFile DEF OwnLogin, TypeOK, Issued
  <2>5. RightIssuer'
    BY <2>0, EmptyFile DEF Honoured, RightIssuer, IssuedBy, Awaited, OwnLogin,
       TypeOK, Issued
  <2>6. SetUpRight'
    BY <2>0, EmptyFile DEF SetUpRight, Recognized, Fits, RenewsTokens, OwnLogin,
       TypeOK, NeedsRefresh, Stored
  <2> QED
    BY <2>1, <2>2, <2>3, <2>4, <2>5, <2>6
<1>3. CASE End(p)
  BY <1>3, EndStep
<1> QED
  BY <1>1, <1>2, <1>3

LEMMA RenewedFile ==
  ASSUME NEW f \in Files, NEW provider \in Providers
  PROVE  LET g == Renewed(f, provider) IN
         /\ g \in Files /\ g.sess = f.sess /\ g.key = FALSE /\ g.issuer = provider
         /\ g.renewable = f.renewable
  BY DEF Renewed, Files

LEMMA SaveRefreshedStep ==
  ASSUME IInv, NEW p \in Procs, SaveRefreshed(p) PROVE IInv'
<1> USE DEF IInv, SaveRefreshed, Write, At, server, procVars
<1>1. CASE \E sent \in BOOLEAN :
             Write(p, CarriedOver(held[p], oauth[p], sent)) /\ HaveToken(p)
  <2>1. /\ file' \in Files /\ file'.sess = held[p].sess
        /\ ~file'.key /\ file'.issuer = oauth[p]
        /\ file'.renewable = held[p].renewable
    <3>1. file' = Renewed(held[p], oauth[p])
      BY <1>1 DEF CarriedOver
    <3>2. held[p] \in Files /\ oauth[p] \in Providers
      BY DEF TypeOK
    <3> QED
      BY <3>1, <3>2, RenewedFile
  <2>2. Sound(file', p)
    BY <2>1 DEF Sound, TypeOK, Issued, Fits, HeldHolds, HeldRenewable, RightIssuer,
       OwnLogin, IssuedBy
  <2> QED
    BY <1>1, <2>1, <2>2, HaveTokenStep
<1>2. CASE End(p) /\ UNCHANGED file
  BY <1>2, EndStep
<1> QED
  BY <1>1, <1>2

LEMMA PromptForLoginStep ==
  ASSUME IInv, NEW p \in Procs, PromptForLogin(p) PROVE IInv'
<1> USE DEF IInv, PromptForLogin, Goto, At, server, procVars
<1>1. CASE Goto(p, "device") /\ UNCHANGED <<held, phase, overtaken>>
  <2> USE <1>1
  <2>1. TypeOK'
    BY DEF TypeOK, Asking
  <2>2. Issued'
    BY DEF Issued, TypeOK
  <2>3. Fits'
    BY DEF Fits, RenewsTokens, HeldRenewable, HeldHolds, Renewable, LogoutHolds,
       TypeOK, Issued, NeedsRefresh
  <2>4. OwnLogin'
    BY DEF OwnLogin, TypeOK, Issued
  <2>5. RightIssuer'
    BY DEF RightIssuer, IssuedBy, Awaited, OwnLogin, TypeOK, Issued
  <2>6. SetUpRight'
    BY DEF SetUpRight, Recognized, Fits, RenewsTokens, OwnLogin, TypeOK,
       NeedsRefresh, Stored
  <2> QED
    BY <2>1, <2>2, <2>3, <2>4, <2>5, <2>6
<1>2. CASE End(p)
  BY <1>2, EndStep
<1> QED
  BY <1>1, <1>2

LEMMA SendStep ==
  ASSUME IInv, NEW p \in Procs, Send(p) PROVE IInv'
<1> USE DEF IInv, Send, Goto, MayRetry, At, server, procVars
<1>1. CASE /\ phase' = [phase EXCEPT ![p] = "handler"] /\ Goto(p, "token")
           /\ UNCHANGED <<held, overtaken>>
  <2> USE <1>1
  <2>1. TypeOK'
    BY DEF TypeOK, Asking
  <2>2. Issued'
    BY DEF Issued, TypeOK
  <2>3. Fits'
    BY DEF Fits, RenewsTokens, HeldRenewable, HeldHolds, Renewable, LogoutHolds,
       TypeOK, Issued, NeedsRefresh
  <2>4. OwnLogin'
    BY DEF OwnLogin, TypeOK, Issued
  <2>5. RightIssuer'
    BY DEF RightIssuer, IssuedBy, Awaited, OwnLogin, TypeOK, Issued
  <2>6. SetUpRight'
    BY DEF SetUpRight, Recognized, Fits, RenewsTokens, OwnLogin, TypeOK,
       NeedsRefresh, Stored
  <2> QED
    BY <2>1, <2>2, <2>3, <2>4, <2>5, <2>6
<1>2. CASE End(p)
  BY <1>2, EndStep
<1> QED
  BY <1>1, <1>2

LEMMA NewFile ==
  ASSUME IInv, issued < MaxSessions, NEW i \in Providers \cup {None}, NEW f,
         f = NewSession(TRUE, TRUE, i) \/ f = NewSession(FALSE, TRUE, i)
  PROVE  /\ f \in Files /\ f.sess = issued + 1 /\ f.key = FALSE
         /\ f.renewable = TRUE /\ f.issuer = i
<1>1. issued + 1 \in 0 .. MaxSessions
  BY DEF IInv, TypeOK
<1>2. CASE f = NewSession(TRUE, TRUE, i)
  BY <1>1, <1>2 DEF NewSession, Files
<1>3. CASE f = NewSession(FALSE, TRUE, i)
  BY <1>1, <1>3 DEF NewSession, Files
<1> QED
  BY <1>2, <1>3

LEMMA CodeSent ==
  ASSUME IInv, NEW p \in Procs, At(p, "device"), issued < MaxSessions,
         issued' = issued + 1, waiting' = waiting \cup {issued + 1},
         idp' = [idp EXCEPT ![issued + 1] = oauth[p]],
         NEW f \in Files, f.sess = issued + 1, f.key = FALSE, f.renewable = TRUE,
         f.issuer = oauth[p], held' = [held EXCEPT ![p] = f], Goto(p, "poll"),
         UNCHANGED <<file, alive, barred, phase, overtaken>>
  PROVE  IInv'
<1> USE DEF IInv, Goto, At
<1>0. /\ held' \in [Procs -> Files]
      /\ \A q \in Procs : held'[q] = IF q = p THEN f ELSE held[q]
  BY Holding
<1>7. issued \in Nat /\ issued + 1 \in Ids /\ oauth[p] \in Providers
  BY DEF TypeOK
<1>1. TypeOK'
  BY <1>0, <1>7 DEF TypeOK, Asking
<1>2. Issued'
  <2>1. waiting' \subseteq 1 .. issued' /\ alive' \subseteq 1 .. issued'
        /\ barred' \subseteq 1 .. issued'
    BY <1>7 DEF Issued
  <2>2. issued + 1 \notin alive
    BY <1>7 DEF Issued
  <2>3. file'.sess <= issued' /\ \A q \in Procs : held'[q].sess <= issued'
    <3>1. \A q \in Procs : held[q].sess \in Int /\ file.sess \in Int
      BY Fields DEF TypeOK
    <3> QED
      BY <1>0, <1>7, <3>1 DEF Issued
  <2> QED
    BY <2>1, <2>2, <2>3 DEF Issued
<1>3. Fits'
  BY <1>0, <1>7 DEF Fits, RenewsTokens, HeldRenewable, HeldHolds, Renewable,
     LogoutHolds, TypeOK, Issued, NeedsRefresh
<1>4. OwnLogin'
  BY <1>0, <1>7 DEF OwnLogin, TypeOK, Issued
<1>5. RightIssuer'
  BY <1>0, <1>7 DEF RightIssuer, IssuedBy, Awaited, OwnLogin, TypeOK, Issued
<1>6. SetUpRight'
  BY <1>0, <1>7 DEF SetUpRight, Recognized, Fits, RenewsTokens, OwnLogin, TypeOK,
     NeedsRefresh, Stored
<1> QED
  BY <1>1, <1>2, <1>3, <1>4, <1>5, <1>6

LEMMA DeviceCodeStep ==
  ASSUME IInv, NEW p \in Procs, DeviceCode(p) PROVE IInv'
<1>1. CASE End(p) /\ UNCHANGED <<idp, waiting, issued>>
  BY <1>1, EndStep DEF DeviceCode, At, server
<1>2. CASE ~(End(p) /\ UNCHANGED <<idp, waiting, issued>>)
  <2> DEFINE f == NewSession(TRUE, TRUE, oauth[p])
  <2>1. issued < MaxSessions
    BY <1>2 DEF DeviceCode
  <2>2. /\ f \in Files /\ f.sess = issued + 1 /\ f.key = FALSE
        /\ f.renewable = TRUE /\ f.issuer = oauth[p]
    BY <2>1, NewFile DEF IInv, TypeOK
  <2> QED
    BY <1>2, <2>1, <2>2, CodeSent DEF DeviceCode
<1> QED
  BY <1>1, <1>2

LEMMA PollStep ==
  ASSUME IInv, NEW p \in Procs, Poll(p) PROVE IInv'
<1> USE DEF IInv, Poll, Goto, Write, At, server, procVars
<1>1. CASE /\ Write(p, held[p]) /\ Goto(p, "user")
           /\ held' = [held EXCEPT ![p] = Empty] /\ UNCHANGED phase
  <2> USE <1>1
  <2>0. /\ held' \in [Procs -> Files]
        /\ \A q \in Procs : held'[q] = IF q = p THEN Empty ELSE held[q]
    BY Holding, EmptyFile DEF TypeOK
  <2>1. TypeOK'
    BY <2>0, EmptyFile DEF TypeOK, Asking
  <2>2. Issued'
    BY <2>0, EmptyFile DEF Issued, TypeOK
  <2>3. Fits'
    BY <2>0, EmptyFile DEF Fits, RenewsTokens, HeldRenewable, HeldHolds, Renewable,
       LogoutHolds, TypeOK, Issued, NeedsRefresh
  <2>4. OwnLogin'
    BY <2>0, EmptyFile DEF OwnLogin, TypeOK, Issued
  <2>5. RightIssuer'
    BY <2>0, EmptyFile DEF RightIssuer, IssuedBy, Awaited, OwnLogin, TypeOK, Issued
  <2>6. SetUpRight'
    BY <2>0, EmptyFile DEF Asking, SetUpRight, Recognized, Fits, RenewsTokens,
       OwnLogin, TypeOK, NeedsRefresh, Stored
  <2> QED
    BY <2>1, <2>2, <2>3, <2>4, <2>5, <2>6
<1>2. CASE Write(p, held[p]) /\ HaveToken(p)
  BY <1>2, HeldSound, HaveTokenStep DEF OwnLogin
<1>3. CASE End(p) /\ UNCHANGED file
  BY <1>3, EndStep
<1> QED
  BY <1>1, <1>2, <1>3

LEMMA LoginWithTokenStep ==
  ASSUME IInv, NEW p \in Procs, LoginWithToken(p) PROVE IInv'
<1> USE DEF IInv, LoginWithToken, Begin, Write, At, server, procVars
<1>1. PICK i \in Providers :
        \/ file' = NewSession(TRUE, TRUE, i) /\ UNCHANGED <<idp, alive>>
        \/ /\ file' = NewSession(FALSE, TRUE, None)
           /\ \/ UNCHANGED <<idp, alive>>
              \/ /\ alive' = alive \cup {issued + 1}
                 /\ idp' = [idp EXCEPT ![issued + 1] = i]
  OBVIOUS
<1>0. /\ file' \in Files /\ file'.sess = issued + 1 /\ file'.key = FALSE /\ file'.renewable
      /\ file'.issuer = None \/ UNCHANGED <<idp, alive>>
      /\ overtaken' = overtaken \cup (Asking \ {p})
  <2>1. CASE file' = NewSession(TRUE, TRUE, i) /\ UNCHANGED <<idp, alive>>
    BY <2>1, NewFile
  <2>2. CASE file' = NewSession(FALSE, TRUE, None)
    BY <2>2, NewFile
  <2> QED
    BY <1>1, <2>1, <2>2
<1>8. issued \in Nat /\ issued + 1 \in Ids /\ idp' \in [Ids -> Providers \cup {None}]
      /\ alive' \subseteq alive \cup {issued + 1}
      /\ \A s \in Ids \ {issued + 1} : idp'[s] = idp[s]
  <2>1. issued \in Nat /\ issued + 1 \in Ids
    BY DEF TypeOK
  <2>2. CASE UNCHANGED <<idp, alive>>
    BY <2>1, <2>2 DEF TypeOK
  <2>3. CASE alive' = alive \cup {issued + 1} /\ idp' = [idp EXCEPT ![issued + 1] = i]
    BY <2>1, <2>3 DEF TypeOK
  <2> QED
    BY <1>1, <2>2, <2>3
<1>9. \A q \in Procs : held[q].sess \in Int /\ file.sess \in Int
  BY Fields DEF TypeOK
<1>2. TypeOK'
  BY <1>0, <1>8, <1>9, <1>1 DEF Asking, TypeOK, Asking
<1>3. Issued'
  BY <1>0, <1>8, <1>9, <1>1 DEF Issued, TypeOK
<1>4. Fits'
  BY <1>0, <1>8, <1>9, <1>1 DEF Fits, RenewsTokens, HeldRenewable, HeldHolds,
     Renewable, LogoutHolds, TypeOK, Issued, NeedsRefresh
<1>5. OwnLogin'
  BY <1>0, <1>8, <1>9, <1>1 DEF OwnLogin, TypeOK, Issued
<1>6. RightIssuer'
  BY <1>0, <1>8, <1>9, <1>1 DEF RightIssuer, IssuedBy, Awaited, OwnLogin, TypeOK,
     Issued
<1>7. SetUpRight'
  BY <1>0, <1>8, <1>9, <1>1 DEF Asking, SetUpRight, Recognized, Fits, RenewsTokens,
     OwnLogin, TypeOK, NeedsRefresh, Stored
<1> QED
  BY <1>2, <1>3, <1>4, <1>5, <1>6, <1>7

LEMMA KeyedFile ==
  ASSUME NEW f \in Files, NEW g, g = [f EXCEPT !.key = TRUE]
  PROVE  /\ g \in Files /\ g.sess = f.sess /\ g.issuer = f.issuer
         /\ g.renewable = f.renewable /\ g.key = TRUE
  BY DEF Files

LEMMA LoginWithAPIKeyStep ==
  ASSUME IInv, NEW p \in Procs, LoginWithAPIKey(p) PROVE IInv'
<1> USE DEF IInv, LoginWithAPIKey, Leave, Write, At, server
<1>0. /\ held' \in [Procs -> Files]
      /\ \A q \in Procs : held'[q] = IF q = p THEN Empty ELSE held[q]
  BY Holding, EmptyFile
<1>7. /\ file' \in Files /\ overtaken \subseteq overtaken' /\ overtaken' \subseteq Procs
      /\ \/ UNCHANGED <<file, overtaken>>
         \/ /\ file'.sess = held[p].sess /\ file'.renewable = held[p].renewable
            /\ file'.issuer = held[p].issuer /\ overtaken' = overtaken \cup (Asking \ {p})
  <2>1. CASE Write(p, [held[p] EXCEPT !.key = TRUE])
    BY <2>1, KeyedFile DEF Asking, TypeOK
  <2>2. CASE UNCHANGED <<file, overtaken>>
    BY <2>2 DEF TypeOK
  <2> QED
    BY <2>1, <2>2
<1>1. TypeOK'
  BY <1>0, <1>7, EmptyFile DEF TypeOK, Asking
<1>2. Issued'
  BY <1>0, <1>7, EmptyFile DEF Issued, TypeOK
<1>3. Fits'
  BY <1>0, <1>7, EmptyFile DEF Fits, RenewsTokens, HeldRenewable, HeldHolds,
     Renewable, LogoutHolds, TypeOK, Issued, NeedsRefresh
<1>4. OwnLogin'
  BY <1>0, <1>7, EmptyFile DEF OwnLogin, TypeOK, Issued
<1>5. RightIssuer'
  BY <1>0, <1>7, EmptyFile DEF RightIssuer, IssuedBy, Awaited, OwnLogin, TypeOK,
     Issued
<1>6. SetUpRight'
  BY <1>0, <1>7, EmptyFile DEF Asking, SetUpRight, Recognized, Fits, RenewsTokens,
     OwnLogin, TypeOK, NeedsRefresh, Stored
<1> QED
  BY <1>1, <1>2, <1>3, <1>4, <1>5, <1>6

LEMMA InitIInv == Init => IInv
<1> SUFFICES ASSUME Init PROVE IInv
  OBVIOUS
<1> USE DEF Init, At
<1>1. TypeOK
  BY EmptyFile DEF TypeOK
<1>2. Issued
  BY EmptyFile DEF Issued
<1>3. Fits
  BY EmptyFile DEF Fits, RenewsTokens, HeldRenewable, HeldHolds, Renewable,
     LogoutHolds
<1>4. OwnLogin /\ RightIssuer /\ SetUpRight
  BY EmptyFile DEF OwnLogin, RightIssuer, IssuedBy, Awaited, SetUpRight
<1> QED
  BY <1>1, <1>2, <1>3, <1>4 DEF IInv

LEMMA StutterIInv == IInv /\ UNCHANGED vars => IInv'
<1> SUFFICES ASSUME IInv, UNCHANGED vars PROVE IInv'
  OBVIOUS
<1> USE DEF IInv, vars, server, procVars, At
<1>1. TypeOK'
  BY DEF TypeOK, Asking
<1>2. Issued'
  BY DEF Issued, TypeOK
<1>3. Fits'
  BY DEF Fits, RenewsTokens, HeldRenewable, HeldHolds, Renewable, LogoutHolds,
     TypeOK, Issued, NeedsRefresh
<1>4. OwnLogin'
  BY DEF OwnLogin, TypeOK, Issued
<1>5. RightIssuer'
  BY DEF RightIssuer, IssuedBy, Awaited, OwnLogin, TypeOK, Issued
<1>6. SetUpRight'
  BY DEF SetUpRight, Recognized, Fits, RenewsTokens, OwnLogin, TypeOK,
     NeedsRefresh, Stored
<1> QED
  BY <1>1, <1>2, <1>3, <1>4, <1>5, <1>6

LEMMA NextIInv == IInv /\ [Next]_vars => IInv'
<1> SUFFICES ASSUME IInv, [Next]_vars PROVE IInv'
  OBVIOUS
<1>1. CASE UNCHANGED vars
  BY <1>1, StutterIInv
<1>2. ASSUME NEW p \in Procs, Request(p) PROVE IInv'
  BY <1>2, GetTokenStep, RefreshStep, SaveRefreshedStep, PromptForLoginStep,
     SendStep
     DEF Request
<1>3. ASSUME NEW p \in Procs, DoDeviceAuthFlow(p) \/ PollFails(p) PROVE IInv'
  BY <1>3, DeviceCodeStep, PollStep, PollTimeoutStep, PollFailsStep
     DEF DoDeviceAuthFlow
<1>4. ASSUME NEW p \in Procs, StartRequest(p) \/ FinishLogin(p) PROVE IInv'
  BY <1>4, StartRequestStep, FinishLoginStep
<1>5. ASSUME NEW p \in Procs,
             \/ Login(p) \/ LoginWithToken(p)
             \/ ReadForAPIKey(p) \/ LoginWithAPIKey(p) \/ Logout(p)
      PROVE  IInv'
  BY <1>5, LoginStep, LoginWithTokenStep, ReadForAPIKeyStep, LoginWithAPIKeyStep,
     LogoutStep
<1>6. CASE Expire \/ Approve \/ CodeExpires \/ Revoke
  BY <1>6, ExpireStep, ApproveStep, CodeExpiresStep, RevokeStep
<1> QED
  BY <1>1, <1>2, <1>3, <1>4, <1>5, <1>6 DEF Next, GoOn

THEOREM InvariantCorrect == Spec => []IInv
  BY InitIInv, NextIInv, PTL DEF Spec

-----------------------------------------------------------------------------
(* The properties                                                          *)

(* Every state of the processes, the file and the providers is well typed. *)
THEOREM TypeCorrect == Spec => []TypeOK
  BY InvariantCorrect, PTL DEF IInv

(* A logout lasts, however many processes run (pkg/store/authtoken.go,     *)
(* DeleteAuthTokens): only who had read the tokens brings them back.       *)
THEOREM LogoutCorrect == Spec => []LogoutHolds
<1>1. IInv => LogoutHolds
  BY DEF IInv, Fits
<1> QED
  BY <1>1, InvariantCorrect, PTL

(* What is stored of a login always has some refresh token (pkg/auth/      *)
(* auth.go, 438), if only the marker "auto-login" (280): a provider that   *)
(* sends no new one does not empty it.                                     *)
THEOREM RenewableCorrect == Spec => []Renewable
<1>1. IInv => Renewable
  BY DEF IInv, Fits
<1> QED
  BY <1>1, InvariantCorrect, PTL

(* What a step may do to a stored API key.                                 *)
KeyYields ==
  file.key /\ file' # Empty =>
    LET saving == {p \in Procs : At(p, "save")} IN
    \/ file'.key
    \/ \E p \in saving : ~held[p].key
    \/ file'.sess \notin {file.sess} \cup {held[p].sess : p \in saving}

(* Most actions leave the file, its key or nothing.                        *)
KeptOrNone == file'.key = file.key \/ file' = Empty

LEMMA KeyStep == IInv /\ [Next]_vars => [KeyYields]_vars
<1> SUFFICES ASSUME IInv, Next, file.key, file' # Empty
             PROVE  KeyYields
  BY DEF KeyYields
<1>1. ASSUME NEW p \in Procs, GetToken(p) \/ Refresh(p) \/ PromptForLogin(p) \/ Send(p)
             \/ DeviceCode(p) \/ PollTimeout(p) \/ PollFails(p) \/ FinishLogin(p)
             \/ StartRequest(p) \/ Login(p) \/ ReadForAPIKey(p) \/ Logout(p)
      PROVE  KeptOrNone
  BY <1>1 DEF KeptOrNone, GetToken, Refresh, PromptForLogin, Send, DeviceCode,
     PollTimeout, PollFails, FinishLogin, StartRequest, Login, ReadForAPIKey,
     Logout, Write, Deleted
<1>2. ASSUME NEW p \in Procs, SaveRefreshed(p) PROVE KeyYields
  BY <1>2 DEF SaveRefreshed, KeyYields, At, IInv, Fits, RenewsTokens
<1>3. ASSUME NEW p \in Procs, Poll(p) PROVE KeyYields
  <2>1. CASE UNCHANGED file
    BY <2>1 DEF KeyYields
  <2>2. CASE file' = held[p]
    <3>1. At(p, "poll")
      BY <1>3 DEF Poll
    <3>2. /\ file.sess # held[p].sess
          /\ \A q \in Procs : At(q, "save") => held[q].sess # held[p].sess
      BY <3>1 DEF At, IInv, OwnLogin
    <3> QED
      BY <2>2, <3>2 DEF KeyYields
  <2> QED
    BY <1>3, <2>1, <2>2 DEF Poll, Write
<1>4. ASSUME NEW p \in Procs, LoginWithToken(p) PROVE KeyYields
  <2>1. file'.sess = issued + 1
    BY <1>4, NewFile DEF LoginWithToken, Write
  <2>2. /\ issued \in Int /\ file.sess \in Int /\ file.sess <= issued
        /\ \A q \in Procs : held[q].sess \in Int /\ held[q].sess <= issued
    BY Fields DEF IInv, TypeOK, Issued
  <2> QED
    BY <2>1, <2>2 DEF KeyYields
<1>5. ASSUME NEW p \in Procs, LoginWithAPIKey(p) PROVE KeyYields
  <2>1. file' = file \/ file' = [held[p] EXCEPT !.key = TRUE]
    BY <1>5 DEF LoginWithAPIKey, Write
  <2>2. file'.key
    BY <2>1, KeyedFile DEF IInv, TypeOK
  <2> QED
    BY <2>2 DEF KeyYields
<1>6. CASE Expire \/ Approve \/ CodeExpires \/ Revoke
  BY <1>6 DEF Expire, Approve, CodeExpires, Revoke, KeyYields, IInv, TypeOK, Files
<1>7. KeptOrNone => KeyYields
  BY DEF KeptOrNone, KeyYields
<1> QED
  BY <1>1, <1>2, <1>3, <1>4, <1>5, <1>6, <1>7
     DEF Next, GoOn, Request, DoDeviceAuthFlow

(* An API key gives way to a login or a logout, and to a renewal only that *)
(* began before the key came (pkg/auth/auth.go, GetFreshAccessTokenOrNil). *)
THEOREM KeyCorrect == Spec => KeyStays
<1>1. IInv /\ [Next]_vars => [KeyYields]_vars
  BY KeyStep
<1> QED
  BY <1>1, InvariantCorrect, PTL DEF Spec, KeyStays, KeyYields

LEMMA PromptStep ==
  ASSUME IInv, [Next]_vars, NEW p \in Procs,
         At(p, "refresh"), pc'[p] = "prompt", held[p].sess \in alive
  PROVE  p \in overtaken \/ held[p].issuer = None
<1> SUFFICES ASSUME p \notin overtaken, held[p].issuer # None PROVE FALSE
  OBVIOUS
<1>1. Refresh(p)
  <2>1. ASSUME NEW q \in Procs \ {p},
               \/ StartRequest(q) \/ GoOn(q) \/ PollFails(q)
               \/ Login(q) \/ LoginWithToken(q)
               \/ ReadForAPIKey(q) \/ LoginWithAPIKey(q) \/ Logout(q)
        PROVE  pc'[p] = pc[p]
    BY <2>1 DEF StartRequest, GoOn, PollFails, Login, LoginWithToken, ReadForAPIKey,
       LoginWithAPIKey, Logout, Request, DoDeviceAuthFlow, GetToken, Refresh,
       SaveRefreshed, PromptForLogin, Send, DeviceCode, Poll, PollTimeout,
       FinishLogin, Begin, Goto, HaveToken, End, Leave, procVars, IInv, TypeOK
  <2>2. ASSUME \/ StartRequest(p) \/ PollFails(p)
               \/ GoOn(p) /\ ~Refresh(p)
               \/ Login(p) \/ LoginWithToken(p)
               \/ ReadForAPIKey(p) \/ LoginWithAPIKey(p)
        PROVE  FALSE
    BY <2>2 DEF StartRequest, GoOn, PollFails, Login, LoginWithToken, ReadForAPIKey,
       LoginWithAPIKey, Request, DoDeviceAuthFlow, GetToken, SaveRefreshed,
       PromptForLogin, Send, DeviceCode, Poll, PollTimeout, FinishLogin, Begin, At
  <2>3. ASSUME Logout(p) \/ UNCHANGED vars \/ Expire \/ Approve \/ CodeExpires \/ Revoke
        PROVE  pc'[p] = pc[p]
    BY <2>3 DEF Logout, vars, Expire, Approve, CodeExpires, Revoke, procVars
  <2> QED
    BY <2>1, <2>2, <2>3 DEF Next, At
<1>2. ~Honoured(p)
  BY <1>1 DEF Refresh, Goto, End, Leave, At, IInv, TypeOK
<1>3. idp[held[p].sess] = held[p].issuer
  BY DEF IInv, RightIssuer, IssuedBy, Awaited
<1>4. oauth[p] = held[p].issuer
  BY DEF IInv, SetUpRight, Fits, RenewsTokens, Recognized, At
<1> QED
  BY <1>2, <1>3, <1>4 DEF Honoured

(* A command asks for a login only where the stored session is over, or    *)
(* where another command replaced the file since it chose its provider.    *)
THEOREM PromptCorrect == Spec => PromptNeeded
<1>1. IInv /\ [Next]_vars =>
        [\A p \in Procs :
           At(p, "refresh") /\ pc'[p] = "prompt" /\ held[p].sess \in alive =>
             p \in overtaken \/ held[p].issuer = None]_vars
  BY PromptStep
<1> QED
  BY <1>1, InvariantCorrect, PTL DEF Spec, PromptNeeded

-----------------------------------------------------------------------------
(* The file is the cell of Credentials.  What a process writes is what it  *)
(* holds (RenewsTokens and OwnLogin: without a key), with a key added, a   *)
(* new login or nothing; what it holds it read, or got from its login.     *)

LEMMA BareEmpty == Bare(Empty) = Cell!Nothing
  BY DEF Bare, Empty, Cell!Nothing

LEMMA TakenMoves ==
  ASSUME TypeOK, NEW p \in Procs, NEW f, held' = [held EXCEPT ![p] = f]
  PROVE  Taken' \subseteq Taken \cup {Bare(f)}
<1>1. \A q \in Procs : held'[q] = IF q = p THEN f ELSE held[q]
  BY DEF TypeOK
<1> QED
  BY <1>1 DEF Taken

LEMMA TakenDrops ==
  ASSUME TypeOK, NEW p \in Procs, held' = [held EXCEPT ![p] = Empty]
  PROVE  Taken' \subseteq Taken
<1>1. Taken' \subseteq Taken \cup {Bare(Empty)}
  BY TakenMoves
<1>2. Bare(Empty) \notin Taken'
  BY DEF Taken, Bare, Empty
<1> QED
  BY <1>1, <1>2

LEMMA TakenStays == UNCHANGED held => Taken' = Taken
  BY DEF Taken, Bare, Empty

\* What the cell sees when the file stays and nothing is read.
LEMMA Unseen ==
  ASSUME Bare(file') = Bare(file), issued' = issued, Taken' \subseteq Taken
  PROVE  Cell!Take
  BY DEF Cell!Take, Bare

LEMMA QuietStep ==
  ASSUME TypeOK, NEW p \in Procs,
         \/ StartRequest(p) \/ Refresh(p) \/ PromptForLogin(p) \/ Send(p)
         \/ PollTimeout(p) \/ PollFails(p) \/ FinishLogin(p) \/ Login(p)
         \/ DeviceCode(p) /\ issued' = issued
  PROVE  Cell!Take
<1>1. file' = file /\ issued' = issued
  BY DEF StartRequest, Refresh, PromptForLogin, Send, PollTimeout, PollFails,
     FinishLogin, Login, DeviceCode, server
<1>2. held' = held \/ held' = [held EXCEPT ![p] = Empty]
  <2>1. CASE StartRequest(p) \/ Refresh(p) \/ PromptForLogin(p) \/ Login(p)
    BY <2>1 DEF StartRequest, Refresh, PromptForLogin, Login, End, Leave
  <2>2. CASE Send(p)
    BY <2>2 DEF Send, End, Leave
  <2>3. CASE PollTimeout(p) \/ PollFails(p)
    BY <2>3 DEF PollTimeout, PollFails, End, Leave
  <2>4. CASE FinishLogin(p)
    BY <2>4 DEF FinishLogin, End, Leave
  <2>5. CASE DeviceCode(p) /\ issued' = issued
    <3>1. issued + 1 # issued
      BY DEF TypeOK
    <3> QED
      BY <2>5, <3>1 DEF DeviceCode, End, Leave
  <2> QED
    BY <2>1, <2>2, <2>3, <2>4, <2>5
<1>3. Taken' \subseteq Taken
  BY <1>2, TakenDrops, TakenStays
<1> QED
  BY <1>1, <1>3, Unseen

LEMMA ReadingStep ==
  ASSUME TypeOK, NEW p \in Procs, GetToken(p) \/ ReadForAPIKey(p)
  PROVE  Cell!Take
<1>1. UNCHANGED <<file, issued>>
      /\ (held' = held \/ \E f \in {file, Empty} : held' = [held EXCEPT ![p] = f])
  BY DEF GetToken, ReadForAPIKey, HaveToken, server
<1>2. Taken' \subseteq Taken \cup {Bare(file)}
  BY <1>1, TakenMoves, TakenDrops, TakenStays
<1> QED
  BY <1>1, <1>2 DEF Cell!Take, Bare

LEMMA WritingStep ==
  ASSUME IInv, NEW p \in Procs, pc[p] \in {"save", "poll"},
         UNCHANGED issued, held' = [held EXCEPT ![p] = Empty],
         Bare(file)' = Bare(held[p])
  PROVE  Cell!PutBack \/ Cell!LogOut
<1>1. held[p] \in Files /\ ~held[p].key
  BY DEF IInv, TypeOK, Fits, RenewsTokens, OwnLogin, At
<1>2. Taken' \subseteq Taken
  BY TakenDrops DEF IInv
<1>3. ~Bare(held[p]).key
  BY <1>1 DEF Bare
<1>4. CASE Bare(held[p]) = Bare(Empty)
  BY <1>2, <1>4, BareEmpty DEF Cell!LogOut, Cell!Drop
<1>5. CASE Bare(held[p]) # Bare(Empty)
  <2>1. Bare(held[p]) \in Taken
    BY <1>5 DEF Taken
  <2> QED
    BY <1>2, <1>3, <2>1 DEF Cell!PutBack, Cell!Drop
<1> QED
  BY <1>4, <1>5

LEMMA SavingStep ==
  ASSUME IInv, NEW p \in Procs, SaveRefreshed(p) PROVE Cell!CNext
<1>1. CASE file' = file
  <2>1. issued' = issued /\ held' = [held EXCEPT ![p] = Empty]
    BY DEF SaveRefreshed, HaveToken, End, Leave, server
  <2> QED
    BY <1>1, <2>1, TakenDrops, Unseen DEF IInv, Cell!CNext
<1>2. CASE file' = Renewed(held[p], oauth[p])
  <2>1. pc[p] = "save" /\ issued' = issued /\ held' = [held EXCEPT ![p] = Empty]
    BY DEF SaveRefreshed, HaveToken, End, Leave, server, At
  <2>2. held[p] \in Files /\ ~held[p].key
    BY <2>1 DEF IInv, TypeOK, Fits, RenewsTokens
  <2>3. held[p].key = FALSE
    BY <2>2, Fields, Zenon
  <2>4. Bare(file)' = [sess |-> held[p].sess, renewable |-> held[p].renewable,
                       key |-> FALSE]
    BY <1>2, <2>2 DEF Renewed, Bare, Files
  <2>5. Bare(file)' = Bare(held[p])
    BY <2>3, <2>4 DEF Bare
  <2> QED
    BY <2>1, <2>5, WritingStep DEF Cell!CNext
<1> QED
  BY <1>1, <1>2 DEF SaveRefreshed, Write, CarriedOver

LEMMA ApprovedStep ==
  ASSUME IInv, NEW p \in Procs, Poll(p) PROVE Cell!CNext
<1>1. pc[p] = "poll" /\ issued' = issued /\ held' = [held EXCEPT ![p] = Empty]
  BY DEF Poll, HaveToken, End, Leave, server, At
<1>2. CASE file' = file
  BY <1>1, <1>2, TakenDrops, Unseen DEF IInv, Cell!CNext
<1>3. CASE file' = held[p]
  <2>1. Bare(file)' = Bare(held[p])
    BY <1>3 DEF Bare
  <2> QED
    BY <1>1, <2>1, WritingStep DEF Cell!CNext
<1> QED
  BY <1>2, <1>3 DEF Poll, Write

LEMMA LoggingInStep ==
  ASSUME IInv, NEW p \in Procs,
         LoginWithToken(p) \/ (DeviceCode(p) /\ issued' # issued)
  PROVE  Cell!LogIn
<1>1. issued' = issued + 1
  BY DEF LoginWithToken, DeviceCode, server
<1>2. \A fresh, i : Bare(NewSession(fresh, TRUE, i)) = Cell!Of(issued + 1)
  BY DEF Bare, NewSession, Cell!Of
<1>3. CASE LoginWithToken(p)
  <2>1. held' = held
        /\ \E fresh, i : file' = NewSession(fresh, TRUE, i)
    BY <1>3 DEF LoginWithToken, Write
  <2>2. Bare(file)' = Cell!Of(issued + 1)
    BY <1>2, <2>1 DEF Bare
  <2> QED
    BY <1>1, <2>1, <2>2, TakenStays DEF Cell!LogIn, Cell!Drop
<1>4. CASE DeviceCode(p)
  <2>0. issued + 1 # issued
    BY DEF IInv, TypeOK
  <2>1. file' = file /\ held' = [held EXCEPT ![p] = NewSession(TRUE, TRUE, oauth[p])]
    BY <1>1, <1>4, <2>0 DEF DeviceCode
  <2>2. Taken' \subseteq Taken \cup {Cell!Of(issued + 1)}
    BY <1>2, <2>1, TakenMoves DEF IInv
  <2> QED
    BY <1>1, <2>1, <2>2 DEF Cell!LogIn, Bare
<1> QED
  BY <1>3, <1>4

LEMMA AddingStep ==
  ASSUME IInv, NEW p \in Procs, LoginWithAPIKey(p) PROVE Cell!CNext
<1>1. issued' = issued /\ held' = [held EXCEPT ![p] = Empty]
  BY DEF LoginWithAPIKey, Leave, server
<1>2. Taken' \subseteq Taken
  BY <1>1, TakenDrops DEF IInv
<1>3. CASE file' = file
  BY <1>1, <1>2, <1>3, Unseen DEF Cell!CNext
<1>4. CASE file' = [held[p] EXCEPT !.key = TRUE]
  <2>1. held[p] \in Files
    BY DEF IInv, TypeOK
  <2>2. Bare(file)' = Cell!WithKey(Bare(held[p]))
    <3>1. file'.sess = held[p].sess /\ file'.renewable = held[p].renewable
          /\ file'.key = TRUE
      BY <1>4, <2>1 DEF Files
    <3> QED
      BY <3>1 DEF Bare, Cell!WithKey
  <2>3. Bare(held[p]) \in Taken \cup {Cell!Nothing}
    BY BareEmpty DEF Taken
  <2> QED
    BY <1>1, <1>2, <2>2, <2>3 DEF Cell!AddKey, Cell!Drop, Cell!CNext
<1> QED
  BY <1>3, <1>4 DEF LoginWithAPIKey, Write

LEMMA OtherStep ==
  ASSUME IInv, Expire \/ Approve \/ CodeExpires \/ Revoke
               \/ \E p \in Procs : Logout(p)
  PROVE  Cell!CNext
<1>1. Taken' = Taken /\ issued' = issued
  BY TakenStays DEF Expire, Approve, CodeExpires, Revoke, Logout, procVars, server
<1>2. CASE \E p \in Procs : Logout(p)
  <2>1. Bare(file)' = Cell!Nothing
    BY <1>2, BareEmpty DEF Logout, Write, Deleted, Bare, Empty
  <2> QED
    BY <1>1, <2>1 DEF Cell!LogOut, Cell!Drop, Cell!CNext
<1>3. CASE Expire \/ Approve \/ CodeExpires \/ Revoke
  <2>1. Bare(file') = Bare(file)
    BY <1>3 DEF Expire, Approve, CodeExpires, Revoke, Bare, IInv, TypeOK, Files
  <2> QED
    BY <1>1, <2>1, Unseen DEF Cell!CNext
<1> QED
  BY <1>2, <1>3

(* Refinement: however many processes read, renew, log in and log out at   *)
(* once, credentials.json is a cell: nothing is stored but what a login    *)
(* gave or a process still had, and a key only where one was entered.      *)
THEOREM SessionImplementsCredentials == Spec => ImplementsCredentials
<1>1. Init => Cell!CInit
  BY BareEmpty DEF Init, Cell!CInit, Taken
<1>2. IInv /\ [Next]_vars => [Cell!CNext]_(Cell!cvars)
  <2> SUFFICES ASSUME IInv, [Next]_vars
               PROVE  Cell!CNext \/ UNCHANGED Cell!cvars
    BY DEF Cell!cvars
  <2>1. CASE UNCHANGED vars
    BY <2>1, TakenStays DEF vars, server, procVars, Cell!cvars, Bare
  <2>2. ASSUME NEW p \in Procs, DeviceCode(p) PROVE Cell!CNext
    BY <2>2, QuietStep, LoggingInStep DEF IInv, Cell!CNext
  <2>3. ASSUME NEW p \in Procs, GoOn(p) PROVE Cell!CNext
    BY <2>2, <2>3, QuietStep, ReadingStep, SavingStep, ApprovedStep
       DEF IInv, Cell!CNext, GoOn, Request, DoDeviceAuthFlow
  <2>4. ASSUME NEW p \in Procs, StartRequest(p) \/ PollFails(p) \/ Login(p)
                                \/ LoginWithToken(p) \/ ReadForAPIKey(p)
                                \/ LoginWithAPIKey(p) \/ Logout(p)
        PROVE  Cell!CNext
    BY <2>4, QuietStep, ReadingStep, LoggingInStep, AddingStep, OtherStep
       DEF IInv, Cell!CNext
  <2> QED
    BY <2>1, <2>3, <2>4, OtherStep DEF Next
<1> QED
  BY <1>1, <1>2, InvariantCorrect, PTL DEF Spec, ImplementsCredentials, Cell!CSpec
=============================================================================

------------------------------- MODULE Session -------------------------------
(***************************************************************************)
(* Who the CLI acts as: credentials.json, shared without a lock by every   *)
(* `brev` process of a user (pkg/auth, pkg/store/authtoken.go, http.go,    *)
(* pkg/cmd/login, pkg/cmd/logout).                                         *)
(*                                                                         *)
(* A process runs one command at a time: a request of the login store with *)
(* its refresh, prompt and single retry after a 403, or a login or logout. *)
(* A login is a session of one of the two identity providers, asked for    *)
(* with a device code that the user has to approve.  Its tokens are        *)
(* abstracted to whether the access token is still accepted and tells its  *)
(* issuer, and whether a refresh token is kept with it.                    *)
(***************************************************************************)
EXTENDS Integers

CONSTANTS Procs,
          Requesters,    \* those that only send requests
          MaxSessions,   \* logins explored
          None

ASSUME SessionConstants == MaxSessions \in Nat /\ Requesters \subseteq Procs
                            /\ None \notin {"kas", "auth0"}

Providers == {"kas", "auth0"}
Ids   == 1 .. MaxSessions      \* sessions, in the order of the logins
Files == [sess : 0 .. MaxSessions, fresh : BOOLEAN, renewable : BOOLEAN,
          issuer : Providers \cup {None}, key : BOOLEAN]
Empty == [sess |-> 0, fresh |-> FALSE, renewable |-> FALSE, issuer |-> None,
          key |-> FALSE]

VARIABLES
  file,      \* credentials.json, with or without an API key
  idp,       \* the provider of each session that waits or lasts
  waiting,   \* device codes neither approved nor refused nor expired
  alive,     \* sessions whose refresh token the provider honours
  issued,
  pc, held,  \* of each process, and the file as it read it, or is to write it
  oauth,     \* the provider a process was set up for when it started
  phase,     \* what the token is for: "first" request, 403 "handler",
             \* "retry"; or a "login"
  barred,    \* history: sessions of before a logout that no process held then
  overtaken  \* history: processes since whose start another wrote the file

server   == <<idp, waiting, alive, issued>>
procVars == <<pc, held, oauth, phase>>
vars == <<file, server, procVars, barred, overtaken>>

Init ==
  /\ file = Empty
  /\ idp = [s \in Ids |-> None]
  /\ waiting = {} /\ alive = {} /\ issued = 0
  /\ pc = [p \in Procs |-> "idle"] /\ held = [p \in Procs |-> Empty]
  /\ oauth = [p \in Procs |-> "kas"] /\ phase = [p \in Procs |-> "first"]
  /\ barred = {} /\ overtaken = {}

At(p, here)    == pc[p] = here
Goto(p, there) == pc' = [pc EXCEPT ![p] = there] /\ UNCHANGED oauth
Leave(p)       == /\ pc' = [pc EXCEPT ![p] = "idle"]
                  /\ held' = [held EXCEPT ![p] = Empty]
                  /\ oauth' = [oauth EXCEPT ![p] = "kas"]
                  /\ phase' = [phase EXCEPT ![p] = "first"]
End(p)         == Leave(p) /\ overtaken' = overtaken \ {p}

\* The file is written, while others are at their requests.
Asking == {p \in Procs : pc[p] \in {"token", "refresh", "send"}}
Write(p, f) == file' = f /\ overtaken' = overtaken \cup (Asking \ {p})

Stored(f) == f.sess # 0 \/ f.key         \* getSavedTokensOrNil
NewSession(fresh, renewable, issuer) ==
  [sess |-> issued + 1, fresh |-> fresh, renewable |-> renewable,
   issuer |-> issuer, key |-> FALSE]

\* StandardLogin: the provider that issued the access token, unless there is
\* an API key; NVIDIA's by default.  Faulty: always the default.
DefaultOnly(f) == "kas"
Recognized(f)  == IF f.issuer # None /\ ~f.key THEN f.issuer ELSE "kas"

Begin(p, there, provider) ==
  /\ At(p, "idle") /\ pc' = [pc EXCEPT ![p] = there]
  /\ oauth' = [oauth EXCEPT ![p] = provider]
-----------------------------------------------------------------------------
(* A request *)

StartRequest(p) ==
  /\ Begin(p, "token", Recognized(file))
  /\ UNCHANGED <<file, server, held, phase, barred, overtaken>>

\* With a token: the handler retries, anything else is sent.
HaveToken(p) ==
  /\ held' = [held EXCEPT ![p] = Empty]
  /\ IF phase[p] = "handler"
       THEN phase' = [phase EXCEPT ![p] = "retry"] /\ Goto(p, "token")
       ELSE Goto(p, "send") /\ UNCHANGED phase

\* GetFreshAccessTokenOrNil reads the file.  An API key, or an access token
\* that is valid or cannot be renewed, is used as it is.
\* Faulty: a key does not keep an expired access token from being renewed.
ExpiredFirst(f) == ~f.fresh /\ f.renewable
NeedsRefresh(f) == ~f.key /\ ~f.fresh /\ f.renewable

GetToken(p) ==
  /\ At(p, "token")
  /\ \/ ~Stored(file) /\ Goto(p, "prompt") /\ UNCHANGED <<phase, held>>
     \/ /\ Stored(file) /\ NeedsRefresh(file)
        /\ held' = [held EXCEPT ![p] = file]
        /\ Goto(p, "refresh") /\ UNCHANGED phase
     \/ Stored(file) /\ ~NeedsRefresh(file) /\ HaveToken(p)
  /\ UNCHANGED <<file, server, barred, overtaken>>

\* A provider renews its own sessions, as long as they last.
Honoured(p) == held[p].sess \in alive /\ idp[held[p].sess] = oauth[p]

\* GetNewAuthTokensWithRefresh: new tokens, nil (expired, or not a refresh
\* token of this provider), an error.
Refresh(p) ==
  /\ At(p, "refresh")
  /\ \/ Honoured(p) /\ Goto(p, "save") /\ UNCHANGED <<held, phase, overtaken>>
     \/ /\ ~Honoured(p) /\ Goto(p, "prompt")
        /\ held' = [held EXCEPT ![p] = Empty]
        /\ overtaken' = overtaken \ {p} /\ UNCHANGED phase
     \/ End(p)
  /\ UNCHANGED <<file, server, barred>>

\* getNewTokensWithRefreshOrNil saves what the provider sent; a refresh token
\* it left out is carried over.  Faulty: it is not.
Renewed(f, provider) == [f EXCEPT !.fresh = TRUE, !.issuer = provider, !.key = FALSE]
SentOnly(f, provider, sent)    == [Renewed(f, provider) EXCEPT !.renewable = sent]
CarriedOver(f, provider, sent) == Renewed(f, provider)

SaveRefreshed(p) ==
  /\ At(p, "save")
  /\ \/ /\ \E sent \in BOOLEAN : Write(p, CarriedOver(held[p], oauth[p], sent))
        /\ HaveToken(p)
     \/ End(p) /\ UNCHANGED file                                \* write error
  /\ UNCHANGED <<server, barred>>

\* PromptForLogin: declined, or a device flow.
PromptForLogin(p) ==
  /\ At(p, "prompt")
  /\ End(p) \/ (Goto(p, "device") /\ UNCHANGED <<held, phase, overtaken>>)
  /\ UNCHANGED <<file, server, barred>>

\* The response hook runs once.  Faulty: after every 403.
Whenever(p) == phase[p] # "login"
MayRetry(p) == phase[p] = "first"

\* The response; a 403 is retried, also if the token was good.
Send(p) ==
  /\ At(p, "send")
  /\ \/ End(p)
     \/ /\ MayRetry(p)
        /\ phase' = [phase EXCEPT ![p] = "handler"] /\ Goto(p, "token")
        /\ UNCHANGED <<held, overtaken>>
  /\ UNCHANGED <<file, server, barred>>
-----------------------------------------------------------------------------
(* The device flow *)

\* A device code, or a session key, of the provider.
DeviceCode(p) ==
  /\ At(p, "device")
  /\ \/ /\ issued < MaxSessions /\ issued' = issued + 1
        /\ waiting' = waiting \cup {issued + 1}
        /\ idp' = [idp EXCEPT ![issued + 1] = oauth[p]]
        /\ held' = [held EXCEPT ![p] = NewSession(TRUE, TRUE, oauth[p])]
        /\ Goto(p, "poll") /\ UNCHANGED <<phase, overtaken>>
     \/ End(p) /\ UNCHANGED <<idp, waiting, issued>>
  /\ UNCHANGED <<file, alive, barred>>

Approved(p) == held[p].sess \in alive
Pending(p)  == held[p].sess \in waiting

\* Approved: the tokens are saved, whatever was stored before.  Refused or
\* expired: the end with Auth0, one more try with KAS.
Poll(p) ==
  /\ At(p, "poll")
  /\ \/ /\ Approved(p) /\ Write(p, held[p])
        /\ IF phase[p] = "login"
             THEN /\ Goto(p, "user") /\ held' = [held EXCEPT ![p] = Empty]
                  /\ UNCHANGED phase
             ELSE HaveToken(p)
     \/ Approved(p) /\ End(p) /\ UNCHANGED file               \* write error
     \/ /\ ~Approved(p) /\ ~Pending(p) /\ oauth[p] = "auth0"
        /\ End(p) /\ UNCHANGED file
  /\ UNCHANGED <<server, barred>>

\* An answer that is lost or unreadable ends the flow of Auth0.
PollFails(p) ==
  /\ At(p, "poll") /\ oauth[p] = "auth0" /\ End(p)
  /\ UNCHANGED <<file, server, barred>>

\* KAS is asked for five minutes.
HasDeadline(p) == oauth[p] = "kas"
PollTimeout(p) ==
  /\ At(p, "poll") /\ HasDeadline(p) /\ End(p)
  /\ UNCHANGED <<file, server, barred>>
-----------------------------------------------------------------------------
(* Logging in and out *)

\* brev login: with the provider of --auth, or that of the stored token.
Offered(f) == {Recognized(f)} \cup Providers
Login(p) ==
  /\ \E provider \in Offered(file) : Begin(p, "device", provider)
  /\ phase' = [phase EXCEPT ![p] = "login"]
  /\ UNCHANGED <<file, server, held, barred, overtaken>>

\* brev login --token: a valid access token, with a refresh token no provider
\* knows ("auto-login"), or a refresh token without access.
LoginWithToken(p) ==
  /\ issued < MaxSessions /\ issued' = issued + 1
  /\ Begin(p, "user", "kas") /\ phase' = [phase EXCEPT ![p] = "login"]
  /\ \E i \in Providers :
       \/ Write(p, NewSession(TRUE, TRUE, i)) /\ UNCHANGED <<idp, alive>>
       \/ /\ Write(p, NewSession(FALSE, TRUE, None))
          /\ \/ UNCHANGED <<idp, alive>>
             \/ /\ alive' = alive \cup {issued + 1}
                /\ idp' = [idp EXCEPT ![issued + 1] = i]
  /\ UNCHANGED <<waiting, held, barred>>

\* The user is created or fetched, and a first organization created: whatever
\* fails, the tokens stay, and nothing else changes on this machine.
FinishLogin(p) ==
  /\ At(p, "user") /\ End(p)
  /\ UNCHANGED <<file, server, barred>>

\* brev login --api-key: read, and write back with the key.
ReadForAPIKey(p) ==
  /\ Begin(p, "apikey", "kas") /\ held' = [held EXCEPT ![p] = file]
  /\ UNCHANGED <<file, server, phase, barred, overtaken>>

LoginWithAPIKey(p) ==
  /\ At(p, "apikey") /\ Leave(p)
  /\ \/ Write(p, [held[p] EXCEPT !.key = TRUE])
     \/ UNCHANGED <<file, overtaken>>
  /\ UNCHANGED <<server, barred>>

\* DeleteAuthTokens.  Faulty: the refresh token stays.
Forgotten(f) == [f EXCEPT !.fresh = FALSE, !.key = FALSE]
Deleted(f)   == Empty

\* brev logout
Logout(p) ==
  /\ At(p, "idle") /\ Write(p, Deleted(file))
  /\ barred' = 1 .. issued \ {held[q].sess : q \in Procs}
  /\ UNCHANGED <<server, procVars>>
-----------------------------------------------------------------------------
\* Time, the user and the providers.
Expire == /\ file.fresh /\ file' = [file EXCEPT !.fresh = FALSE]
          /\ UNCHANGED <<server, procVars, barred, overtaken>>
Approve == /\ \E s \in waiting : waiting' = waiting \ {s} /\ alive' = alive \cup {s}
           /\ UNCHANGED <<file, idp, issued, procVars, barred, overtaken>>
CodeExpires == /\ \E s \in waiting :
                    waiting' = waiting \ {s} /\ idp' = [idp EXCEPT ![s] = None]
               /\ UNCHANGED <<file, alive, issued, procVars,
                              barred, overtaken>>
Revoke == /\ \E s \in alive :
               alive' = alive \ {s} /\ idp' = [idp EXCEPT ![s] = None]
          /\ UNCHANGED <<file, waiting, issued, procVars,
                         barred, overtaken>>

Request(p) == GetToken(p) \/ Refresh(p) \/ SaveRefreshed(p) \/ PromptForLogin(p)
              \/ Send(p)
DoDeviceAuthFlow(p) == DeviceCode(p) \/ Poll(p) \/ PollTimeout(p)
GoOn(p) == Request(p) \/ DoDeviceAuthFlow(p) \/ FinishLogin(p)
Next == \/ \E p \in Procs :
             StartRequest(p) \/ GoOn(p) \/ PollFails(p)
        \/ \E p \in Procs \ Requesters :
             \/ Login(p) \/ LoginWithToken(p)
             \/ ReadForAPIKey(p) \/ LoginWithAPIKey(p) \/ Logout(p)
        \/ Expire \/ Approve \/ CodeExpires \/ Revoke

Spec == Init /\ [][Next]_vars
(* A command that was started goes on, its prompt is answered, and a       *)
(* device code that nobody approves expires, as its expires_in says.       *)
FairSpec == Spec /\ WF_vars(CodeExpires) /\ \A p \in Procs : WF_vars(GoOn(p))
-----------------------------------------------------------------------------
TypeOK ==
  /\ file \in Files
  /\ idp \in [Ids -> Providers \cup {None}]
  /\ waiting \subseteq Ids /\ alive \subseteq Ids /\ issued \in 0 .. MaxSessions
  /\ pc \in [Procs -> {"idle", "token", "refresh", "save", "prompt", "send",
                       "device", "poll", "user",
                       "apikey"}]
  /\ held \in [Procs -> Files] /\ oauth \in [Procs -> Providers]
  /\ phase \in [Procs -> {"first", "handler", "retry", "login"}]
  /\ barred \subseteq Ids
  /\ overtaken \subseteq Procs

(* A login from before a logout is not used again ("Log out of brev by     *)
(* deleting the credential file"): nothing writes its tokens back, but a   *)
(* process that had read them, or was at its own login, before the logout. *)
LogoutHolds == file.sess \notin barred

(* A renewal never leaves a stored login without a refresh token, though a *)
(* provider may send none (auth.go:438): the one before is kept.  Of a     *)
(* --token login that is the marker "auto-login" (auth.go:280), which no   *)
(* provider takes; whose token it is is not said.                          *)
Renewable == file.sess # 0 => file.renewable

(* An API key gives way to a login or a logout only: no request trades it  *)
(* for renewed OAuth tokens, but one that read them before the key came.   *)
KeyStays ==
  [][file.key /\ file' # Empty =>
       LET saving == {p \in Procs : At(p, "save")} IN
       \/ file'.key
       \/ \E p \in saving : ~held[p].key
       \/ file'.sess \notin {file.sess} \cup {held[p].sess : p \in saving}]_vars

(* Nobody is asked to log in again whose session still lasts: the provider *)
(* a command is set up for is that of the stored session, unless another   *)
(* command wrote the file since (pkg/cmd/cmd.go reads it once, when the    *)
(* process starts), or the access token is the "auto-login" of --token.    *)
PromptNeeded ==
  [][\A p \in Procs :
       At(p, "refresh") /\ pc'[p] = "prompt" /\ held[p].sess \in alive =>
         p \in overtaken \/ held[p].issuer = None]_vars

(* The file is a cell that processes read and write back without a lock:   *)
(* whatever they do at once, what is stored is what a login gave or what   *)
(* some process still had, with an API key only where `brev login` put it; *)
(* what nobody has any more does not come back.                            *)
Bare(f) == [sess |-> f.sess, renewable |-> f.renewable, key |-> f.key]
Taken   == {Bare(held[p]) : p \in Procs} \ {Bare(Empty)}
Cell    == INSTANCE Credentials
  WITH made <- issued, stored <- Bare(file), taken <- Taken
ImplementsCredentials == Cell!CSpec

(* A command ends: a 403 is retried once, whatever the server answers, and *)
(* no login waits for ever for its device code.                            *)
Busy(p) == pc[p] \in {"token", "refresh", "save", "prompt", "send", "device",
                      "poll", "user"}
CommandsEnd == \A p \in Procs : Busy(p) ~> ~Busy(p)
=============================================================================

------------------------------- MODULE Gmail -------------------------------
(***************************************************************************)
(* The process of the email-gmail extension while an account is set up:      *)
(* gmail-setup-start and gmail-setup-check, the little server that catches   *)
(* Google's redirect (setup-server.mjs) and config.json, which outlives the   *)
(* process.  Calls overlap at their awaits.                                 *)
(*                                                                         *)
(* A code or a token is the OAuth client it was issued for.  Google and the  *)
(* user's browser are the environment.                                      *)
(***************************************************************************)
EXTENDS FiniteSets

CONSTANTS Client, Server, Call, Null

VARIABLES
    config,       \* config.json: [id, token, configured]
    loaded,       \* what the mail tools work with, Null when only setup is registered
    server,       \* the variable `server` of setup-server.mjs
    listening,    \* the servers that hold the port
    authCode, authError,
    offered,      \* the clients whose authorization URL the user has
    checks        \* the calls of gmail-setup-check

gmailVars == <<config, loaded, server, listening, authCode, authError, offered, checks>>
auth == <<server, listening, authCode, authError>>

NoCheck == [at |-> "idle"]

Exchanging == [at : {"exchanging"}, config : [id : Client, token : Client \cup {Null},
                                              configured : BOOLEAN], code : Client]

GmailTypeOK ==
    /\ config \in [id : Client \cup {Null}, token : Client \cup {Null}, configured : BOOLEAN]
    /\ loaded \in [id : Client, token : Client] \cup {Null}
    /\ server \in Server \cup {Null} /\ listening \subseteq Server
    /\ authCode \in Client \cup {Null} /\ authError \in BOOLEAN
    /\ offered \subseteq Client
    /\ checks \in [Call -> {NoCheck, [at |-> "stopping"]} \cup Exchanging]

GmailInit ==
    /\ config = [id |-> Null, token |-> Null, configured |-> FALSE]
    /\ loaded = Null
    /\ server = Null /\ listening = {}
    /\ authCode = Null /\ authError = FALSE
    /\ offered = {}
    /\ checks = [c \in Call |-> NoCheck]

-----------------------------------------------------------------------------

\* The process ends, and the next one reads the file once, when it starts
\* (index.mjs).  The URLs stay with the user.
NextProcess ==
    /\ loaded' = IF config.configured /\ config.id # Null /\ config.token # Null
                 THEN [id |-> config.id, token |-> config.token] ELSE Null
    /\ server' = Null /\ listening' = {}
    /\ authCode' = Null /\ authError' = FALSE
    /\ checks' = [c \in Call |-> NoCheck]
    /\ UNCHANGED <<config, offered>>

\* handleSetupStart, when it takes the credentials: it writes them into the file,
\* beside whatever else is there, and puts a new server in the place of the old.
\* The port may be taken, by a server nobody knows any more or by another program.
SetupStart(id) ==
    LET others == listening \ {server}
    IN  \E new \in Server \ (listening \cup {server}) :
            /\ config' = [config EXCEPT !.id = id]
            /\ authCode' = Null /\ authError' = FALSE
            /\ server' = new
            /\ \/ others = {} /\ listening' = {new} /\ offered' = offered \cup {id}
               \/ listening' = others /\ UNCHANGED offered
            /\ UNCHANGED <<loaded, checks>>

\* The request handler of the server: the user has followed one of the URLs, the
\* latest or not, and agreed or refused.
Redirected(id) ==
    /\ listening # {} /\ id \in offered
    /\ \/ authCode' = id /\ UNCHANGED authError
       \/ authError' = TRUE /\ UNCHANGED authCode
    /\ UNCHANGED <<config, loaded, server, listening, offered, checks>>

\* stopServer up to its await.
StopServer(call) ==
    /\ listening' = listening \ {server}
    /\ checks' = [checks EXCEPT ![call] = IF server = Null THEN NoCheck ELSE [at |-> "stopping"]]
    /\ UNCHANGED <<server, authCode, authError>>

\* close has called back, whatever server the variable holds by now.
Stopped(call) ==
    /\ checks[call].at = "stopping"
    /\ checks' = [checks EXCEPT ![call] = NoCheck]
    /\ server' = Null /\ authCode' = Null /\ authError' = FALSE
    /\ UNCHANGED <<config, loaded, listening, offered>>

\* handleSetupCheck up to its first await.
SetupCheck(call) ==
    /\ checks[call] = NoCheck
    /\ authCode # Null \/ authError
    /\ IF authError \/ config.id = Null THEN StopServer(call)
       ELSE /\ checks' = [checks EXCEPT ![call] =
                            [at |-> "exchanging", config |-> config, code |-> authCode]]
            /\ UNCHANGED auth
    /\ UNCHANGED <<config, loaded, offered>>

\* Mutant: the token is put into the file as it is by now.
SavedIntoFile(check) == [config EXCEPT !.token = check.code, !.configured = TRUE]

\* The configuration read before the exchange is written back with the token.
Saved(check) == [check.config EXCEPT !.token = check.code, !.configured = TRUE]

\* Google gives a token only to the client the code was issued for.
Exchanged(call) ==
    LET check == checks[call]
    IN  /\ check.at = "exchanging"
        /\ \/ check.code = check.config.id /\ config' = Saved(check)
           \/ UNCHANGED config
        /\ StopServer(call)
        /\ UNCHANGED <<loaded, offered>>

GmailNext ==
    \/ \E id \in Client : SetupStart(id) \/ Redirected(id)
    \/ \E call \in Call : SetupCheck(call) \/ Exchanged(call) \/ Stopped(call)
    \/ NextProcess

GmailSpec == GmailInit /\ [][GmailNext]_gmailVars

-----------------------------------------------------------------------------
(* What the setup promises.                                                *)

\* Whatever other setups begin while Google is asked, a step that saves a token
\* leaves it beside the client it was issued for (handleSetupCheck, setup-check.mjs:133):
\* the completion of a setup never pairs one client's token with the credentials of
\* another.  The steps that save no token are not spoken of: SetupStart puts a new
\* client beside the old token, and the check that ends last puts its own client back.
TokensAreSavedWithTheirClient ==
    [][config'.token # config.token => config'.token = config'.id]_gmailVars
=============================================================================

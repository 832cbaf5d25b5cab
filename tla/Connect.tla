------------------------------- MODULE Connect -------------------------------
(***************************************************************************)
(* Opening a remote store (kist-backend, sftp.rs): over SSH, with the host *)
(* key checked against known_hosts and three ways to authenticate tried in *)
(* order, or over the standard streams of an rclone process, where the     *)
(* exchange of versions, the exit of the process and a timer race.         *)
(*                                                                         *)
(* What the agent, the server and rclone do is up to them: they may stay   *)
(* silent at every step.  Over SSH the code waits for them without a timer *)
(* of its own.                                                             *)
(***************************************************************************)
CONSTANT Worlds     \* what the server and the user's keys are like

VARIABLES
    world,      \* one of Worlds, fixed
    phase,      \* how far the connection is
    said,       \* what has come of the server's version: nothing, all, or the end
    child,      \* the rclone process
    timer       \* the 30 seconds of the rclone handshake

connVars == <<world, phase, said, child, timer>>

Credentials == {"agent", "key", "password"}
World == [via : {"ssh", "rclone"},
          hostKey : {"known", "unknown", "certificate"},  \* what the server presents
          has : SUBSET Credentials,                       \* what the user can present
          accepts : SUBSET Credentials,                   \* what the server takes
          keyReadable : BOOLEAN,                          \* the key file can be read and decoded
          extensions : SUBSET {"hardlink", "rename"}]     \* what the server offers

To(p) == phase' = p
\* An error drops everything opened so far: kill_on_drop ends the process.
FailConn ==
    /\ phase' = "failed"
    /\ child' = IF child = "running" THEN "killed" ELSE child
-----------------------------------------------------------------------------
(* Over SSH: each step waits for somebody else.                            *)

\* check_server_key, during the SSH handshake: only a plain key that is known.
VerifyHost ==
    /\ phase = "handshake"
    /\ IF world.hostKey = "known" THEN To("agent") /\ UNCHANGED child ELSE FailConn
    /\ UNCHANGED <<world, said, timer>>

Accepted(cred) == cred \in world.has /\ cred \in world.accepts

\* authenticate: the agent, whose failures of any kind only lead on, ...
TryAgent ==
    /\ phase = "agent"
    /\ To(IF Accepted("agent") THEN "session" ELSE "key")
    /\ UNCHANGED <<world, said, child, timer>>

\* ... the key file, which must be readable when one is named, ...
TryKey ==
    /\ phase = "key"
    /\ \/ "key" \notin world.has /\ To("password") /\ UNCHANGED child
       \/ "key" \in world.has /\ ~world.keyReadable /\ FailConn
       \/ /\ "key" \in world.has /\ world.keyReadable
          /\ To(IF Accepted("key") THEN "session" ELSE "password")
          /\ UNCHANGED child
    /\ UNCHANGED <<world, said, timer>>

\* ... and the password.
TryPassword ==
    /\ phase = "password"
    /\ IF Accepted("password") THEN To("session") /\ UNCHANGED child ELSE FailConn
    /\ UNCHANGED <<world, said, timer>>

\* The session channel and its sftp subsystem; then the SFTP versions.
OpenSession ==
    /\ phase = "session"
    /\ To("exchange")
    /\ UNCHANGED <<world, said, child, timer>>

\* The connection is lost, or closed after 600 seconds of silence: what waits
\* for the server ends with an error.
Lost ==
    /\ phase \in {"handshake", "key", "password", "session"}
    /\ FailConn
    /\ UNCHANGED <<world, said, timer>>
-----------------------------------------------------------------------------
(* The exchange of versions, over either transport.                        *)

\* The server answers, or ends its stream before it has.
Answer ==
    /\ phase = "exchange" /\ said = "nothing" /\ child # "exited"
    /\ said' \in {"version", "end"}
    /\ UNCHANGED <<world, phase, child, timer>>

\* rclone ends by itself (a remote it does not know); what it has said stays
\* in the pipe.
ChildExits ==
    /\ phase = "exchange" /\ child = "running"
    /\ child' = "exited"
    /\ said' = IF said = "nothing" THEN "end" ELSE said
    /\ UNCHANGED <<world, phase, timer>>

\* Sftp::new returns.
Exchange ==
    /\ phase = "exchange" /\ said = "version"
    /\ To("extensions")
    /\ UNCHANGED <<world, said, child, timer>>

\* Sftp::new sees the end of the stream.  On a runtime of several threads it may
\* wait for ever instead.
ExchangeFails ==
    /\ phase = "exchange" /\ said = "end"
    /\ FailConn
    /\ UNCHANGED <<world, said, timer>>

Required == IF world.via = "ssh" THEN {"hardlink", "rename"} ELSE {"rename"}
CheckExtensions ==
    /\ phase = "extensions"
    /\ IF Required \subseteq world.extensions THEN To("open") /\ UNCHANGED child ELSE FailConn
    /\ UNCHANGED <<world, said, timer>>

\* wait(), the second branch of the select! of connect_stdio.
SeeExit ==
    /\ phase = "exchange" /\ child = "exited"
    /\ FailConn
    /\ UNCHANGED <<world, said, timer>>

\* The third: 30 seconds.
Expire ==
    /\ timer = "running" /\ phase = "exchange"
    /\ timer' = "expired"
    /\ UNCHANGED <<world, phase, said, child>>
\* A slip: the end of the stream is taken to be noticed by Sftp::new anyway.
SeeTimeoutSilent ==
    /\ phase = "exchange" /\ timer = "expired" /\ said = "nothing"
    /\ FailConn
    /\ UNCHANGED <<world, said, timer>>
SeeTimeout ==
    /\ phase = "exchange" /\ timer = "expired"
    /\ FailConn
    /\ UNCHANGED <<world, said, timer>>
-----------------------------------------------------------------------------
ConnInit ==
    /\ world \in Worlds
    /\ said = "nothing"
    /\ IF world.via = "ssh"
       THEN phase = "handshake" /\ child = "none" /\ timer = "none"
       ELSE phase = "exchange" /\ child = "running" /\ timer = "running"

Local == Exchange \/ CheckExtensions \/ SeeExit \/ Expire \/ SeeTimeout
ConnNext ==
    \/ VerifyHost \/ TryAgent \/ TryKey \/ TryPassword \/ OpenSession \/ Lost
    \/ Answer \/ ChildExits \/ ExchangeFails
    \/ Local

\* What needs nobody else: an answer that has come is read, wait() returns once
\* the process has ended, and 30 seconds pass.
ConnFair == WF_connVars(Local)
-----------------------------------------------------------------------------
\* connect_stdio: an attempt to connect through rclone ends though rclone stays
\* silent, exits, or closes its stream and lives on, and a process that was
\* started is not left behind by a failure.
ConnectEnds ==
    world.via = "rclone" =>
        <>(phase \in {"open", "failed"} /\ (phase = "failed" => child # "running"))
=============================================================================

-------------------------- MODULE DeploymentProofs --------------------------
(***************************************************************************)
(* Safety of a deployment for every set of command lines and directories,  *)
(* any number of connections, workers, launches, crashes and losses.  The  *)
(* three parts rest on three invariants that do not need each other: what  *)
(* is in the files, what the server has open, which egresses run.          *)
(***************************************************************************)
EXTENDS Deployment, FiniteSetTheorems, SequenceTheorems, TLAPS

(***************************************************************************)
(* The files of the certificate                                            *)
(***************************************************************************)

(* The paths do not depend on the launch. *)
Tls(command) == ServerCommand(1, command).tls
Cert == file[Tls(serverCommand).cert_pem_path]
Key == file[Tls(serverCommand).key_pem_path]
IsCert(gen) == Cert.what = "cert" /\ Cert.gen = gen

Writes == {"write cert", "fill cert", "write key", "fill key"}

(* A launched server has a configuration with the paths of its command     *)
(* line, and a place in the directory for both files.                      *)
Configured ==
    /\ serverCommand \in ServerCommands
    /\ server # "down" => config # None
    /\ config # None => ServerRuns(serverCommand)
    /\ config # None => config[1].tls = Tls(serverCommand)
    /\ ServerRuns(serverCommand) =>
        {Tls(serverCommand).cert_pem_path, Tls(serverCommand).key_pem_path}
            \subseteq DOMAIN file

TwoPaths == Tls(serverCommand).cert_pem_path # Tls(serverCommand).key_pem_path

(* A key that was generated is in the directory together with its          *)
(* certificate, which is written first; what is written is one pair.       *)
KeyFollowsCertificate ==
    TwoPaths /\ ServerRuns(serverCommand) =>
        /\ Key.what = "key" => Key.gen = 1 \/ IsCert(Key.gen)
        /\ server \in Writes => pair.cert = pair.key
        /\ server \in Writes \ {"fill key"} /\ Key.what = "key" => Key.gen = 1
        /\ server \in {"write key", "fill key"} => IsCert(pair.cert)

(* A hash is logged when both files are in place, and from then on nothing *)
(* is written any more.                                                    *)
AnnouncedIsInPlace ==
    TwoPaths /\ ServerRuns(serverCommand) =>
        /\ server = "announce" => IsCert(pair.cert) /\ Key.what = "key"
        /\ announced # 0 => /\ IsCert(announced)
                            /\ Key.what = "key"
                            /\ server \notin Writes

FilesInv == Configured /\ AnnouncedIsInPlace /\ KeyFollowsCertificate

LEMMA TlsOfLaunch ==
    ASSUME NEW command, NEW launch
    PROVE  ServerCommand(launch, command).tls = Tls(command)
BY DEF Tls, ServerCommand, ServerToml, ServerArgs

LEMMA FilesInit == Init => FilesInv
<1> SUFFICES ASSUME Init PROVE FilesInv OBVIOUS
<1>1. Configured
  BY DirectoriesAssumption DEF Init, Configured, Tls
<1>2. ASSUME ServerRuns(serverCommand), Key.what = "key" PROVE Key.gen = 1
  <2>1. Key \in {Absent, Torn, Pem("cert", 1), Pem("key", 1)}
    BY <1>1, <1>2, DirectoriesAssumption DEF Init, Configured, Key
  <2> QED BY <1>2, <2>1 DEF Absent, Torn, Pem
<1>3. server = "down" /\ announced = 0 BY DEF Init
<1> QED BY <1>1, <1>2, <1>3
     DEF FilesInv, KeyFollowsCertificate, AnnouncedIsInPlace, Writes

(* A step that writes no file and does not begin to. *)
LEMMA FilesAreKept ==
    ASSUME FilesInv, UNCHANGED <<serverCommand, config, file, announced>>,
           server' # "down" => server # "down",
           UNCHANGED <<server, pair>> \/ server' \notin Writes \cup {"announce"}
    PROVE  FilesInv'
<1> USE DEF FilesInv
<1>1. Configured' BY DEF Configured
<1>2. UNCHANGED <<Cert, Key, TwoPaths, ServerRuns(serverCommand)>>
  BY DEF Cert, Key, TwoPaths
<1>3. KeyFollowsCertificate'
  BY <1>2 DEF KeyFollowsCertificate, Writes, IsCert
<1>4. AnnouncedIsInPlace' BY <1>2 DEF AnnouncedIsInPlace, IsCert
<1> QED BY <1>1, <1>3, <1>4

LEMMA LaunchKeepsFiles == ASSUME FilesInv, ServerLaunch PROVE FilesInv'
<1> USE DEF FilesInv, ServerLaunch, fileVars
<1>1. Configured' BY TlsOfLaunch DEF Configured, Some, None
<1>2. UNCHANGED <<Cert, Key, TwoPaths, ServerRuns(serverCommand), pair, announced>>
  BY DEF Cert, Key, TwoPaths
<1>3. server' \in {"load", "down"} OBVIOUS
<1>4. KeyFollowsCertificate'
  BY <1>2, <1>3 DEF KeyFollowsCertificate, Writes, IsCert
<1>5. AnnouncedIsInPlace' BY <1>2, <1>3 DEF AnnouncedIsInPlace, IsCert, Writes
<1> QED BY <1>1, <1>4, <1>5

(* The paths of the configuration are those of the command line. *)
LEMMA Paths ==
    ASSUME FilesInv, server # "down"
    PROVE  /\ CertFile = Tls(serverCommand).cert_pem_path
           /\ KeyFile = Tls(serverCommand).key_pem_path
           /\ ServerRuns(serverCommand)
           /\ CertFile \in DOMAIN file /\ KeyFile \in DOMAIN file
BY DEF FilesInv, Configured, CertFile, KeyFile

LEMMA LoadKeepsFiles == ASSUME FilesInv, LoadCertificate PROVE FilesInv'
<1> USE DEF FilesInv, LoadCertificate, GoesTo
<1>1. Configured' BY DEF Configured
<1>2. UNCHANGED <<Cert, Key, TwoPaths, ServerRuns(serverCommand), announced>>
  BY DEF Cert, Key, TwoPaths
<1>3. KeyFollowsCertificate' BY <1>2 DEF KeyFollowsCertificate, Writes, IsCert
<1>4. IsCert(pair'.cert) /\ Key.what = "key" BY Paths DEF IsCert, Cert, Key
<1>5. AnnouncedIsInPlace' BY <1>2, <1>4 DEF AnnouncedIsInPlace, IsCert, Writes
<1> QED BY <1>1, <1>3, <1>5

(* The key that stays behind, if there is one, has lost its certificate:   *)
(* it is one that was not generated.                                       *)
LEMMA GenerateKeepsFiles == ASSUME FilesInv, GenerateCertificate PROVE FilesInv'
<1> USE DEF FilesInv, GenerateCertificate, GoesTo
<1>1. Configured' BY DEF Configured
<1>2. UNCHANGED <<Cert, Key, TwoPaths, ServerRuns(serverCommand), announced>>
  BY DEF Cert, Key, TwoPaths
<1>3. Cert.what # "cert" \/ Key.what # "key" BY Paths DEF Cert, Key
<1>4. KeyFollowsCertificate' BY <1>2, <1>3 DEF KeyFollowsCertificate, Writes, IsCert
<1>5. AnnouncedIsInPlace' BY <1>2, <1>3 DEF AnnouncedIsInPlace, IsCert, Writes
<1> QED BY <1>1, <1>4, <1>5

LEMMA WriteKeepsFiles == ASSUME FilesInv, WriteCertificate PROVE FilesInv'
<1> USE DEF FilesInv, GoesTo
<1>0. server # "down" /\ UNCHANGED <<serverCommand, config, pair, announced>>
  BY DEF WriteCertificate, Truncate, Fill
<1>1. /\ CertFile = Tls(serverCommand).cert_pem_path
      /\ KeyFile = Tls(serverCommand).key_pem_path
      /\ CertFile \in DOMAIN file /\ KeyFile \in DOMAIN file
      /\ ServerRuns(serverCommand) /\ DOMAIN file' = DOMAIN file
  BY <1>0, Paths DEF WriteCertificate, Truncate, Fill
<1>2. Configured' BY <1>0, <1>1 DEF Configured
<1> SUFFICES ASSUME TwoPaths PROVE KeyFollowsCertificate' /\ AnnouncedIsInPlace'
  BY <1>0, <1>2 DEF TwoPaths, KeyFollowsCertificate, AnnouncedIsInPlace
<1>3. UNCHANGED <<TwoPaths, ServerRuns(serverCommand)>> BY <1>0 DEF TwoPaths
<1> USE <1>0, <1>1, <1>3 DEF KeyFollowsCertificate, AnnouncedIsInPlace, Writes, IsCert
<1>4. CASE Truncate(CertFile, "write cert", "fill cert")
  <2>1. Cert' = Torn /\ Key' = Key BY <1>4 DEF Truncate, Cert, Key, TwoPaths
  <2> QED BY <1>4, <2>1 DEF Truncate, Torn
<1>5. CASE Fill(CertFile, Pem("cert", pair.cert), "fill cert", "write key")
  <2>1. Cert' = Pem("cert", pair.cert) /\ Key' = Key
    BY <1>5 DEF Fill, Cert, Key, TwoPaths
  <2> QED BY <1>5, <2>1 DEF Fill, Pem
<1>6. CASE Truncate(KeyFile, "write key", "fill key")
  <2>1. Key' = Torn /\ Cert' = Cert BY <1>6 DEF Truncate, Cert, Key, TwoPaths
  <2> QED BY <1>6, <2>1 DEF Truncate, Torn
<1>7. CASE Fill(KeyFile, Pem("key", pair.key), "fill key", "announce")
  <2>1. Key' = Pem("key", pair.key) /\ Cert' = Cert
    BY <1>7 DEF Fill, Cert, Key, TwoPaths
  <2> QED BY <1>7, <2>1 DEF Fill, Pem
<1> QED BY <1>4, <1>5, <1>6, <1>7 DEF WriteCertificate

LEMMA AnnounceKeepsFiles == ASSUME FilesInv, Announce PROVE FilesInv'
<1> USE DEF FilesInv, Announce, GoesTo
<1>1. Configured' BY DEF Configured
<1>2. UNCHANGED <<Cert, Key, TwoPaths, ServerRuns(serverCommand), pair>>
  BY DEF Cert, Key, TwoPaths
<1>3. KeyFollowsCertificate' BY <1>2 DEF KeyFollowsCertificate, Writes, IsCert
<1>4. AnnouncedIsInPlace' BY <1>2 DEF AnnouncedIsInPlace, IsCert, Writes
<1> QED BY <1>1, <1>3, <1>4

LEMMA FilesStep == FilesInv /\ [Next]_vars => FilesInv'
<1> SUFFICES ASSUME FilesInv, [Next]_vars PROVE FilesInv' OBVIOUS
<1> USE FilesAreKept
<1>1. CASE \/ ServerLaunch \/ LoadCertificate \/ GenerateCertificate
           \/ WriteCertificate \/ Announce
  BY <1>1, LaunchKeepsFiles, LoadKeepsFiles, GenerateKeepsFiles,
     WriteKeepsFiles, AnnounceKeepsFiles
<1>2. CASE ServerListens \/ LaunchIngress \/ AssignLaunched \/ ServerReady \/ ServerSignal
  BY <1>2 DEF ServerListens, LaunchIngress, AssignLaunched, ServerReady,
     ServerSignal, GoesTo, fileVars, Writes
<1>3. CASE ServerExits \/ ServerPanics \/ ServerCrashes
  BY <1>3 DEF ServerExits, ServerPanics, ServerCrashes, ServerGone, Writes
<1>4. CASE ServerStops \/ ClientLaunch \/ ClientMain \/ ClientSignal
  BY <1>4 DEF ServerStops, ClientLaunch, ClientMain, ClientSignal, LaunchEgress,
     AssignEgress, ClientReady, ClientExits, ClientPanics, StopEgress,
     processVars, fileVars
<1>5. CASE \E n \in Connections : Connect(n) \/ EgressPanics(n) \/ Lose(n) \/ Serve(n)
  BY <1>5 DEF Connect, EgressPanics, Lose, Serve, processVars, fileVars
<1>6. CASE UNCHANGED vars BY <1>6 DEF vars, processVars, fileVars
<1> QED BY <1>1, <1>2, <1>3, <1>4, <1>5, <1>6 DEF Next, ServerMain

(* FilesInv is an inductive invariant. *)
THEOREM FilesInductive == Spec => []FilesInv
BY FilesInit, FilesStep, PTL DEF Spec

(* However often the server crashed, between any two of its four writes,   *)
(* the certificate and the key it will load belong together, unless the    *)
(* key was there before the first launch: utils.rs:26-49.                  *)
THEOREM PairsMatch == Spec => []PairMatches
<1>1. FilesInv => PairMatches
  BY DEF FilesInv, Configured, KeyFollowsCertificate, PairMatches, TwoPaths,
     CertFile, KeyFile, Cert, Key, IsCert
<1> QED BY <1>1, FilesInductive, PTL

(* With two different paths the hash that was logged first is logged at    *)
(* every later launch (utils.rs:26-56).  With one path for both files the  *)
(* key would overwrite the certificate, and every launch would generate    *)
(* another pair.                                                           *)
THEOREM HashStays ==
    ASSUME \A command \in ServerCommands : ServerRuns(command) =>
             Tls(command).cert_pem_path # Tls(command).key_pem_path
    PROVE  Spec => AnnouncedHashStays
<1>1. ASSUME FilesInv, [Next]_vars, announced # 0 PROVE announced' = announced
  <2>1. CASE Announce
    <3>1. /\ server = "announce" /\ announced' = pair.cert
          /\ ServerRuns(serverCommand) /\ TwoPaths
      BY <1>1, <2>1 DEF Announce, GoesTo, FilesInv, Configured, TwoPaths
    <3> QED BY <1>1, <3>1 DEF FilesInv, AnnouncedIsInPlace, IsCert
  <2>2. CASE UNCHANGED vars BY <2>2 DEF vars, fileVars
  <2>3. CASE Next /\ ~Announce
    BY <2>3 DEF Next, ServerMain, ClientMain, ServerLaunch, LoadCertificate,
       GenerateCertificate, WriteCertificate, Truncate, Fill, ServerListens,
       LaunchIngress, AssignLaunched, ServerReady, ServerSignal, ServerExits,
       ServerPanics, ServerCrashes, ServerGone, ServerStops, ClientLaunch,
       ClientSignal, LaunchEgress, AssignEgress, ClientReady, ClientExits,
       ClientPanics, StopEgress, Connect, EgressPanics, Lose, Serve, fileVars
  <2> QED BY <1>1, <2>1, <2>2, <2>3
<1>2. FilesInv /\ [Next]_vars => [announced # 0 => announced' = announced]_announced
  BY <1>1
<1> QED BY <1>2, FilesInductive, PTL DEF Spec, AnnouncedHashStays
----------------------------------------------------------------------------
(***************************************************************************)
(* What the server has open                                                *)
(***************************************************************************)

BeforeListen == {"down", "load", "announce", "listen"} \cup Writes

(* Ingresses are a sequence, whatever is in it. *)
IsSequence(s) == \E S : s \in Seq(S)

ConnFields == {"pc", "up", "id", "key", "ingress"}

(* The part of the types that the argument needs: connections and          *)
(* ingresses by their slots, the registry and the connections naming       *)
(* ingresses that exist.                                                   *)
Shapes ==
    /\ endpoint \in BOOLEAN /\ open \in BOOLEAN
    /\ stopping \in {"no", "drain", "close", "idle"}
    /\ IsSequence(ingresses)
    /\ registry \subseteq DOMAIN ingresses
    /\ DOMAIN conn = Connections
    /\ \A k \in Connections :
        /\ DOMAIN conn[k] = ConnFields
        /\ conn[k].pc = "assign" => conn[k].ingress \in DOMAIN ingresses
    /\ server = "assign" => Len(ingresses) # 0

(* The QUIC endpoint is open from listen() to the close() in stop(), and a *)
(* connection is up only while it is.                                      *)
OpenUntilClosed ==
    /\ stopping # "no" => ~endpoint
    /\ open <=> endpoint \/ stopping \in {"drain", "close"}
    /\ ~open => \A k \in Connections : ~conn[k].up

(* Ingresses stop, and refuse, after stop() took the endpoint. *)
ServedWhileListening ==
    endpoint => /\ \A i \in DOMAIN ingresses : ingresses[i].state = "listening"
                /\ \A k \in Connections : conn[k].pc # "refused"

(* A process that does not listen yet has nothing. *)
FreshBeforeListen ==
    server \in BeforeListen => /\ ~open
                               /\ ingresses = <<>>
                               /\ \A k \in Connections : conn[k].pc = "none"

OpenInv == Shapes /\ OpenUntilClosed /\ ServedWhileListening /\ FreshBeforeListen

LEMMA OpenInit == Init => OpenInv
<1> SUFFICES ASSUME Init PROVE OpenInv OBVIOUS
<1> USE DEF Init, ServerInit, NoConnection
<1>1. IsSequence(<<>>)
  <2>1. <<>> \in Seq({}) OBVIOUS
  <2> QED BY <2>1 DEF IsSequence
<1>2. Shapes BY <1>1 DEF Shapes, ConnFields
<1>3. OpenUntilClosed /\ ServedWhileListening /\ FreshBeforeListen
  BY DEF OpenUntilClosed, ServedWhileListening, FreshBeforeListen
<1> QED BY <1>2, <1>3 DEF OpenInv

(* What the tasks of connections, their clients and the network may do to  *)
(* a connection.                                                           *)
ConnectionsMove ==
    /\ UNCHANGED <<server, endpoint, open, ingresses, registry, stopping>>
    /\ DOMAIN conn' = Connections
    /\ \A k \in Connections :
        /\ DOMAIN conn'[k] = ConnFields
        /\ conn'[k].pc = "assign" => conn'[k].ingress \in DOMAIN ingresses
        /\ conn'[k].up => conn[k].up \/ open
        /\ conn'[k].pc = "refused" => conn[k].pc = "refused" \/ ~endpoint
        /\ conn'[k].pc = "none" \/ conn[k].pc # "none" \/ open

LEMMA OpenAfterConnections == ASSUME OpenInv, ConnectionsMove PROVE OpenInv'
<1> USE DEF OpenInv, ConnectionsMove
<1>1. Shapes' BY DEF Shapes
<1>2. OpenUntilClosed' BY DEF OpenUntilClosed
<1>3. ServedWhileListening' BY DEF ServedWhileListening
<1>4. FreshBeforeListen' BY DEF FreshBeforeListen
<1> QED BY <1>1, <1>2, <1>3, <1>4

(* One connection changes: k is given the record r. *)
LEMMA OneConnectionMoves ==
    ASSUME OpenInv, NEW k \in Connections, NEW r,
           UNCHANGED <<server, endpoint, open, ingresses, registry, stopping>>,
           conn' = [conn EXCEPT ![k] = r],
           DOMAIN r = ConnFields,
           r.pc = "assign" => r.ingress \in DOMAIN ingresses,
           r.up => conn[k].up \/ open,
           r.pc = "refused" => conn[k].pc = "refused" \/ ~endpoint,
           r.pc = "none" \/ conn[k].pc # "none" \/ open
    PROVE  ConnectionsMove
BY DEF OpenInv, Shapes, ConnectionsMove

LEMMA NoConnectionFields ==
    /\ DOMAIN NoConnection = ConnFields
    /\ NoConnection.pc = "none" /\ NoConnection.up = FALSE
BY DEF NoConnection, ConnFields

LEMMA TaskMoves ==
    ASSUME OpenInv, NEW k \in Connections, ConnectionTask(k), UNCHANGED server
    PROVE  ConnectionsMove
<1> DEFINE r == conn[k]
<1>0. DOMAIN r = ConnFields /\ DOMAIN conn = Connections BY DEF OpenInv, Shapes
<1>1. CASE LookUp(k) /\ Reject(k)
  BY <1>1, NoConnectionFields, OneConnectionMoves, Zenon DEF LookUp, Reject
<1>2. CASE LookUp(k) /\ Authenticate(k)
  <2>1. PICK i \in Matching(k) :
          conn' = [conn EXCEPT ![k].pc = "assign", ![k].ingress = i]
    BY <1>2 DEF Authenticate
  <2>2. i \in DOMAIN ingresses BY DEF Matching, OpenInv, Shapes
  <2> DEFINE a == [[r EXCEPT !.pc = "assign"] EXCEPT !.ingress = i]
  <2>3. conn' = [conn EXCEPT ![k] = a] BY <2>1, <1>0
  <2>4. DOMAIN a = ConnFields /\ a.pc = "assign" /\ a.ingress = i /\ a.up = r.up
    BY <1>0 DEF ConnFields
  <2>5. conn[k].pc # "none" BY <1>2 DEF LookUp
  <2> HIDE DEF a
  <2> QED BY <1>2, <2>2, <2>3, <2>4, <2>5, OneConnectionMoves DEF LookUp
<1>3. CASE LookUpBlocks(k)
  <2> DEFINE a == [r EXCEPT !.pc = "blocked"]
  <2>1. conn' = [conn EXCEPT ![k] = a] BY <1>3 DEF LookUpBlocks
  <2>2. DOMAIN a = ConnFields /\ a.pc = "blocked" /\ a.up = r.up
    BY <1>0 DEF ConnFields
  <2> HIDE DEF a
  <2> QED BY <1>3, <2>1, <2>2, OneConnectionMoves DEF LookUpBlocks
<1>4. CASE AssignTunnel(k)
  <2> DEFINE i == ingresses[conn[k].ingress]
             a == [r EXCEPT !.pc = IF i.kind = "UDP" /\ i.state = "stopped"
                                   THEN "refused" ELSE "tunnel"]
  <2>1. conn' = [conn EXCEPT ![k] = a] BY <1>4 DEF AssignTunnel
  <2>2. /\ DOMAIN a = ConnFields /\ a.pc \in {"refused", "tunnel"}
        /\ a.pc = "refused" => i.state = "stopped"
        /\ a.up = r.up
    BY <1>0 DEF ConnFields
  <2>3. endpoint => i.state = "listening"
    BY <1>4 DEF AssignTunnel, OpenInv, Shapes, ServedWhileListening
  <2> HIDE DEF a, i
  <2> QED BY <1>4, <2>1, <2>2, <2>3, OneConnectionMoves DEF AssignTunnel
<1>5. CASE ConnectionEnds(k)
  BY <1>5, NoConnectionFields, OneConnectionMoves, Zenon DEF ConnectionEnds
<1>6. CASE ReaderCloses(k)
  <2> DEFINE a == [r EXCEPT !.up = FALSE]
  <2>1. conn' = [conn EXCEPT ![k] = a] BY <1>6 DEF ReaderCloses
  <2>2. DOMAIN a = ConnFields /\ a.pc = "tunnel" /\ a.up = FALSE
    BY <1>0, <1>6 DEF ConnFields, ReaderCloses
  <2> HIDE DEF a
  <2> QED BY <1>6, <2>1, <2>2, OneConnectionMoves DEF ReaderCloses
<1> QED BY <1>1, <1>2, <1>3, <1>4, <1>5, <1>6 DEF ConnectionTask, LookUp

LEMMA AcceptMoves ==
    ASSUME OpenInv, NEW k \in Connections, NEW id, NEW key, Accept(k, id, key),
           UNCHANGED server
    PROVE  ConnectionsMove
<1> DEFINE a == [NoConnection EXCEPT !.pc = "auth", !.up = TRUE, !.id = id, !.key = key]
<1>1. conn' = [conn EXCEPT ![k] = a] BY DEF Accept
<1>2. DOMAIN a = ConnFields /\ a.pc = "auth" BY DEF NoConnection, ConnFields
<1> HIDE DEF a
<1> QED BY <1>1, <1>2, OneConnectionMoves DEF Accept

(* Connections go down and are otherwise what they were. *)
LEMMA LossMoves ==
    ASSUME OpenInv,
           UNCHANGED <<server, endpoint, open, ingresses, registry, stopping>>,
           \/ \E ns \in SUBSET Connections : Disconnect(ns)
           \/ \E k \in Connections : LinkLost(k)
    PROVE  ConnectionsMove
<1>1. DOMAIN conn' = Connections
  BY DEF OpenInv, Shapes, Disconnect, LinkLost
<1> SUFFICES ASSUME NEW k \in Connections
    PROVE  /\ DOMAIN conn'[k] = ConnFields
           /\ conn'[k].pc = "assign" => conn'[k].ingress \in DOMAIN ingresses
           /\ conn'[k].up => conn[k].up \/ open
           /\ conn'[k].pc = "refused" => conn[k].pc = "refused" \/ ~endpoint
           /\ conn'[k].pc = "none" \/ conn[k].pc # "none" \/ open
  BY <1>1 DEF ConnectionsMove
<1>2. conn'[k] = conn[k] \/ conn'[k] = [conn[k] EXCEPT !.up = FALSE]
  BY DEF OpenInv, Shapes, Disconnect, LinkLost
<1>3. /\ DOMAIN conn[k] = ConnFields
      /\ conn[k].pc = "assign" => conn[k].ingress \in DOMAIN ingresses
  BY DEF OpenInv, Shapes
<1>4. CASE conn'[k] = conn[k] BY <1>3, <1>4
<1>5. CASE conn'[k] = [conn[k] EXCEPT !.up = FALSE]
  <2>1. /\ DOMAIN conn'[k] = ConnFields /\ conn'[k].up = FALSE
        /\ conn'[k].pc = conn[k].pc /\ conn'[k].ingress = conn[k].ingress
    BY <1>3, <1>5 DEF ConnFields
  <2> QED BY <1>3, <2>1
<1> QED BY <1>2, <1>4, <1>5

(* The steps of main() that leave the state of the server alone. *)
LEMMA OpenIsKept ==
    ASSUME OpenInv, UNCHANGED serverVars,
           \/ server' = server
           \/ server \in BeforeListen /\ server' \in BeforeListen
           \/ server \notin BeforeListen /\ server' = "serve"
    PROVE  OpenInv'
BY DEF OpenInv, serverVars, Shapes, OpenUntilClosed, ServedWhileListening,
   FreshBeforeListen, BeforeListen, Writes

LEMMA GoneIsFresh == ASSUME OpenInv, ServerGone PROVE OpenInv'
<1>1. IsSequence(<<>>)
  <2>1. <<>> \in Seq({}) OBVIOUS
  <2> QED BY <2>1 DEF IsSequence
<1> USE DEF ServerGone, NoConnection
<1>2. Shapes' BY <1>1 DEF Shapes, ConnFields
<1>3. OpenUntilClosed' /\ ServedWhileListening' /\ FreshBeforeListen'
  BY DEF OpenUntilClosed, ServedWhileListening, FreshBeforeListen
<1> QED BY <1>2, <1>3 DEF OpenInv

LEMMA ListenOpens == ASSUME OpenInv, ServerListens PROVE OpenInv'
BY DEF ServerListens, GoesTo, Listen, OpenInv, Shapes, OpenUntilClosed,
   ServedWhileListening, FreshBeforeListen, BeforeListen, Writes

LEMMA AppendToSequence ==
    ASSUME NEW s, IsSequence(s), NEW e
    PROVE  /\ IsSequence(Append(s, e))
           /\ DOMAIN s \subseteq DOMAIN Append(s, e)
           /\ Len(Append(s, e)) # 0
           /\ \A i \in DOMAIN Append(s, e) :
                Append(s, e)[i] = e \/ (i \in DOMAIN s /\ Append(s, e)[i] = s[i])
<1>1. PICK S : s \in Seq(S) BY DEF IsSequence
<1>2. s \in Seq(S \cup {e}) BY <1>1
<1>3. Append(s, e) \in Seq(S \cup {e}) BY <1>2
<1>4. IsSequence(Append(s, e)) BY <1>3 DEF IsSequence
<1>5. /\ DOMAIN s \subseteq DOMAIN Append(s, e)
      /\ Len(Append(s, e)) # 0
  BY <1>2
<1>6. \A i \in DOMAIN Append(s, e) :
        Append(s, e)[i] = e \/ (i \in DOMAIN s /\ Append(s, e)[i] = s[i])
  <2>1. DOMAIN Append(s, e) = 1..(Len(s) + 1) /\ Len(s) \in Nat BY <1>2, <1>3, AppendProperties
  <2>2. /\ \A i \in 1..Len(s) : Append(s, e)[i] = s[i]
        /\ Append(s, e)[Len(s) + 1] = e
    BY <1>2, AppendProperties
  <2>3. DOMAIN s = 1..Len(s) BY <1>2
  <2>4. \A i \in 1..(Len(s) + 1) : i = Len(s) + 1 \/ i \in 1..Len(s) BY <2>1
  <2> QED BY <2>1, <2>2, <2>3, <2>4
<1> QED BY <1>4, <1>5, <1>6

LEMMA LaunchKeepsOpen == ASSUME OpenInv, LaunchIngress PROVE OpenInv'
<1> DEFINE c == config[1].ingresses[Launched + 1]
           e == [kind |-> c.kind, id |-> c.id, addr |-> c.addr,
                 auth_key |-> c.auth_key, state |-> "listening"]
<1>1. /\ ingresses' = Append(ingresses, e) /\ e.state = "listening"
      /\ UNCHANGED <<endpoint, open, registry, stopping, conn>>
      /\ server = "launch" /\ server' = "assign"
  BY DEF LaunchIngress, StartIngress, GoesTo
<1> HIDE DEF e
<1>2. IsSequence(ingresses) BY DEF OpenInv, Shapes
<1>3. /\ IsSequence(ingresses') /\ DOMAIN ingresses \subseteq DOMAIN ingresses'
      /\ Len(ingresses') # 0
      /\ \A i \in DOMAIN ingresses' :
           \/ ingresses'[i] = e
           \/ i \in DOMAIN ingresses /\ ingresses'[i] = ingresses[i]
  BY <1>1, <1>2, AppendToSequence, Zenon
<1>4. Shapes' BY <1>1, <1>3 DEF OpenInv, Shapes
<1>5. OpenUntilClosed' BY <1>1 DEF OpenInv, OpenUntilClosed
<1>6. ServedWhileListening' BY <1>1, <1>3 DEF OpenInv, ServedWhileListening
<1>7. FreshBeforeListen' BY <1>1 DEF FreshBeforeListen, BeforeListen, Writes
<1> QED BY <1>4, <1>5, <1>6, <1>7 DEF OpenInv

LEMMA AssignKeepsOpen == ASSUME OpenInv, AssignLaunched PROVE OpenInv'
<1> USE DEF AssignLaunched, AssignIngress, GoesTo, OpenInv
<1>1. Launched \in DOMAIN ingresses
  <2>1. PICK S : ingresses \in Seq(S) BY DEF Shapes, IsSequence
  <2> QED BY <2>1 DEF Shapes, Launched
<1>2. Shapes' BY <1>1 DEF Shapes
<1> QED BY <1>2 DEF OpenUntilClosed, ServedWhileListening, FreshBeforeListen,
     BeforeListen, Writes

LEMMA StopKeepsOpen ==
    ASSUME OpenInv, ServerSignal \/ ServerStops
    PROVE  OpenInv'
<1> USE DEF OpenInv, GoesTo
<1>1. CASE ServerSignal
  BY <1>1 DEF ServerSignal, StopTake, Shapes, OpenUntilClosed,
     ServedWhileListening, FreshBeforeListen, BeforeListen, Writes
<1>2. ASSUME ServerStops PROVE server = "stop" /\ server' = "stop"
  BY <1>2 DEF ServerStops, processVars
<1>3. FreshBeforeListen' BY <1>1, <1>2 DEF FreshBeforeListen, BeforeListen, Writes
<1>4. CASE ServerStops /\ (StopRelease \/ StopIdle)
  BY <1>2, <1>3, <1>4 DEF StopRelease, StopIdle, Shapes, OpenUntilClosed,
     ServedWhileListening
<1>5. CASE ServerStops /\ StopClose
  <2> USE <1>5 DEF StopClose
  <2>1. ~endpoint' /\ ~open' BY DEF OpenUntilClosed
  <2>2. \A k \in Connections :
          /\ DOMAIN conn'[k] = ConnFields /\ conn'[k].up = FALSE
          /\ conn'[k].pc = conn[k].pc /\ conn'[k].ingress = conn[k].ingress
    <3> SUFFICES ASSUME NEW k \in Connections
        PROVE  /\ DOMAIN conn'[k] = ConnFields /\ conn'[k].up = FALSE
               /\ conn'[k].pc = conn[k].pc /\ conn'[k].ingress = conn[k].ingress
      OBVIOUS
    <3>1. DOMAIN conn[k] = ConnFields BY DEF Shapes
    <3>2. conn'[k] = [conn[k] EXCEPT !.up = FALSE] OBVIOUS
    <3> QED BY <3>1, <3>2 DEF ConnFields
  <2>3. Shapes' BY <1>2, <2>2 DEF Shapes
  <2>4. OpenUntilClosed' /\ ServedWhileListening'
    BY <2>1, <2>2 DEF OpenUntilClosed, ServedWhileListening
  <2> QED BY <1>3, <2>3, <2>4
<1>6. CASE ServerStops /\ \E i \in registry : StopIngress(i)
  <2>1. PICK i \in registry : StopIngress(i) BY <1>6
  <2> USE <2>1 DEF StopIngress
  <2>2. ~endpoint' BY DEF OpenUntilClosed
  <2>3. IsSequence(ingresses') /\ DOMAIN ingresses' = DOMAIN ingresses
    <3>1. PICK S : ingresses \in Seq(S) BY DEF Shapes, IsSequence
    <3> DEFINE e == [ingresses[i] EXCEPT !.state = "stopped"]
    <3>2. ingresses' = [ingresses EXCEPT ![i] = e] OBVIOUS
    <3> HIDE DEF e
    <3>3. ingresses \in Seq(S \cup {e}) BY <3>1
    <3>4. i \in 1..Len(ingresses) BY <3>1 DEF Shapes
    <3>5. ingresses' \in Seq(S \cup {e})
      <4> DEFINE T == S \cup {e}
      <4>1. e \in T /\ ingresses \in Seq(T) BY <3>3
      <4> HIDE DEF T
      <4>2. [ingresses EXCEPT ![i] = e] \in Seq(T) BY <3>4, <4>1, ExceptSeq
      <4> QED BY <3>2, <4>2 DEF T
    <3>6. DOMAIN ingresses' = DOMAIN ingresses BY <3>2
    <3> QED BY <3>5, <3>6 DEF IsSequence
  <2>4. Shapes' BY <1>2, <1>6, <2>3 DEF Shapes
  <2>5. OpenUntilClosed' /\ ServedWhileListening'
    BY <2>2 DEF OpenUntilClosed, ServedWhileListening
  <2> QED BY <1>3, <1>6, <2>4, <2>5
<1> QED BY <1>1, <1>4, <1>5, <1>6 DEF ServerStops, Stopping

LEMMA OpenStep == OpenInv /\ [Next]_vars => OpenInv'
<1> SUFFICES ASSUME OpenInv, [Next]_vars PROVE OpenInv' OBVIOUS
<1>1. CASE \/ ServerLaunch \/ LoadCertificate \/ GenerateCertificate
           \/ WriteCertificate \/ Announce \/ ServerReady
  BY <1>1, OpenIsKept DEF ServerLaunch, LoadCertificate, GenerateCertificate,
     WriteCertificate, Truncate, Fill, Announce, ServerReady, GoesTo,
     BeforeListen, Writes
<1>2. CASE ServerListens \/ LaunchIngress \/ AssignLaunched
  BY <1>2, ListenOpens, LaunchKeepsOpen, AssignKeepsOpen
<1>3. CASE ServerSignal \/ ServerStops BY <1>3, StopKeepsOpen
<1>4. CASE ServerExits \/ ServerPanics \/ ServerCrashes
  BY <1>4, GoneIsFresh DEF ServerExits, ServerPanics, ServerCrashes
<1>5. CASE \/ ClientLaunch \/ LaunchEgress \/ AssignEgress \/ ClientReady
           \/ ClientExits \/ ClientSignal \/ \E n \in Connections : EgressPanics(n)
  BY <1>5, OpenIsKept DEF ClientLaunch, LaunchEgress, AssignEgress, ClientReady,
     ClientExits, ClientSignal, EgressPanics, processVars
<1>6. CASE ClientPanics
  <2>1. /\ Disconnect(Connections)
        /\ UNCHANGED <<server, endpoint, open, ingresses, registry, stopping>>
    BY <1>6 DEF ClientPanics, processVars
  <2> QED BY <2>1, LossMoves, OpenAfterConnections
<1>7. CASE \E n \in draining : StopEgress(n)
  <2>1. PICK n : StopEgress(n) BY <1>7
  <2>2. /\ Disconnect(Connections \cap {n})
        /\ UNCHANGED <<server, endpoint, open, ingresses, registry, stopping>>
    BY <2>1 DEF StopEgress, Disconnect, processVars
  <2> QED BY <2>2, LossMoves, OpenAfterConnections
<1>8. CASE \E n \in Connections : Connect(n) \/ Lose(n) \/ Serve(n)
  <2>1. PICK n \in Connections : Connect(n) \/ Lose(n) \/ Serve(n) BY <1>8
  <2>2. CASE Connect(n)
    BY <2>2, AcceptMoves, OpenAfterConnections DEF Connect, processVars
  <2>3. CASE Lose(n)
    BY <2>3, LossMoves, OpenAfterConnections DEF Lose, LinkLost, processVars
  <2>4. CASE Serve(n)
    BY <2>4, TaskMoves, OpenAfterConnections DEF Serve, processVars
  <2> QED BY <2>1, <2>2, <2>3, <2>4
<1>9. CASE UNCHANGED vars BY <1>9, OpenIsKept DEF vars, processVars
<1> QED BY <1>1, <1>2, <1>3, <1>4, <1>5, <1>6, <1>7, <1>8, <1>9
     DEF Next, ServerMain, ClientMain

(* OpenInv is an inductive invariant. *)
THEOREM OpenInductive == Spec => []OpenInv
BY OpenInit, OpenStep, PTL DEF Spec

(* When stop() has returned, or the process is gone, the endpoint is       *)
(* closed and no connection is up, for any number of connections and of    *)
(* workers and however their tasks interleave with stop(); an ingress      *)
(* refuses a tunnel only while stop() runs: server.rs:144-168, 202.        *)
THEOREM StopIsComplete == Spec => []StopClosesTunnels
<1>1. OpenInv => StopClosesTunnels
  BY DEF OpenInv, OpenUntilClosed, ServedWhileListening, StopClosesTunnels
<1> QED BY <1>1, OpenInductive, PTL
----------------------------------------------------------------------------
(***************************************************************************)
(* The egresses of the client                                              *)
(***************************************************************************)

(* The egresses that were started and not stopped. *)
On == {n \in Connections : egress[n] # "off"}

(* Every configured egress has its slot. *)
EntriesHaveSlots ==
    /\ clientCommand \in ClientCommands
    /\ client \in {"down", "launch", "assign", "wait", "stop", "exited", "ended"}
    /\ DOMAIN egress = Connections
    /\ client \in {"launch", "assign", "wait"} =>
        /\ Len(entries) \in Nat
        /\ DOMAIN entries = 1..Len(entries)
        /\ DOMAIN entries \subseteq Connections

(* Egresses start in the order of the configuration, and each is assigned  *)
(* before the next one starts.                                             *)
Launching ==
    /\ client = "launch" => \E m \in 0..Len(entries) :
                              On = 1..m /\ egressById = 1..m
    /\ client = "assign" => \E m \in 1..Len(entries) :
                              On = 1..m /\ egressById = 1..(m - 1)
    /\ client = "wait" => On = DOMAIN entries /\ egressById = DOMAIN entries

(* Before the launch and after the end nothing runs, and stop() has in its *)
(* hands what still does.                                                  *)
NothingElseRuns ==
    /\ client \in {"down", "exited", "ended"} => On = {}
    /\ client = "down" => egressById = {}
    /\ client = "stop" => On \subseteq draining

EgressInv == EntriesHaveSlots /\ Launching /\ NothingElseRuns

LEMMA StartedIsCounted ==
    ASSUME NEW m \in Nat, On = 1..m
    PROVE  Started = m
<1>1. Cardinality(1..m) = m BY FS_Interval
<1> QED BY <1>1 DEF Started, On

LEMMA EgressInit == Init => EgressInv
BY DEF Init, EgressInv, EntriesHaveSlots, Launching, NothingElseRuns, On

LEMMA EgressIsKept ==
    ASSUME EgressInv, UNCHANGED <<clientCommand, client, entries, egressById, draining>>,
           DOMAIN egress' = DOMAIN egress, On' = On
    PROVE  EgressInv'
BY DEF EgressInv, EntriesHaveSlots, Launching, NothingElseRuns

LEMMA ClientLaunchStarts == ASSUME EgressInv, ClientLaunch PROVE EgressInv'
<1> USE DEF EgressInv, ClientLaunch
<1>1. On' = On /\ On = {} BY DEF On, NothingElseRuns
<1>2. EntriesHaveSlots' BY SlotsAssumption DEF EntriesHaveSlots
<1>3. Launching'
  <2>1. client' = "launch" => Len(entries') \in Nat BY <1>2 DEF EntriesHaveSlots
  <2>2. {} = 1..0 OBVIOUS
  <2>3. egressById' = {} BY DEF NothingElseRuns
  <2> QED BY <1>1, <2>1, <2>2, <2>3 DEF Launching
<1>4. NothingElseRuns' BY <1>1 DEF NothingElseRuns
<1> QED BY <1>2, <1>3, <1>4

LEMMA LaunchEgressStarts == ASSUME EgressInv, LaunchEgress PROVE EgressInv'
<1> USE DEF EgressInv, LaunchEgress
<1>1. PICK m \in 0..Len(entries) : On = 1..m /\ egressById = 1..m
  BY DEF Launching
<1>2. /\ Len(entries) \in Nat /\ DOMAIN entries = 1..Len(entries)
      /\ DOMAIN entries \subseteq Connections /\ DOMAIN egress = Connections
  BY DEF EntriesHaveSlots
<1>3. Started = m BY <1>1, <1>2, StartedIsCounted
<1>4. m + 1 \in 1..Len(entries) /\ m + 1 \in Connections
  <2>1. m # Len(entries) BY <1>3 DEF AllStarted
  <2>2. m \in 0..Len(entries) /\ Len(entries) \in Nat BY <1>1, <1>2
  <2>3. m + 1 \in 1..Len(entries) BY <2>1, <2>2
  <2> QED BY <1>2, <2>3
<1>5. EntriesHaveSlots' BY <1>2 DEF EntriesHaveSlots
<1>6. On' = On \cup {m + 1}
  <2>1. egress' = [egress EXCEPT ![m + 1] = "on"] BY <1>3
  <2> QED BY <1>2, <1>4, <2>1 DEF On
<1>7. On' = 1..(m + 1) /\ egressById' = 1..((m + 1) - 1) BY <1>1, <1>2, <1>6
<1>8. Launching' BY <1>4, <1>7 DEF Launching
<1>9. NothingElseRuns' BY DEF NothingElseRuns
<1> QED BY <1>5, <1>8, <1>9

LEMMA AssignEgressKeeps == ASSUME EgressInv, AssignEgress PROVE EgressInv'
<1> USE DEF EgressInv, AssignEgress
<1>1. PICK m \in 1..Len(entries) : On = 1..m /\ egressById = 1..(m - 1)
  BY DEF Launching
<1>2. Len(entries) \in Nat BY DEF EntriesHaveSlots
<1>3. Started = m BY <1>1, <1>2, StartedIsCounted
<1>4. On' = On BY DEF On
<1>5. egressById' = 1..m BY <1>1, <1>2, <1>3
<1>6. EntriesHaveSlots' BY DEF EntriesHaveSlots
<1>7. Launching' BY <1>1, <1>2, <1>4, <1>5 DEF Launching
<1>8. NothingElseRuns' BY DEF NothingElseRuns
<1> QED BY <1>6, <1>7, <1>8

LEMMA ClientReadyHasAll == ASSUME EgressInv, ClientReady PROVE EgressInv'
<1> USE DEF EgressInv, ClientReady
<1>1. PICK m \in 0..Len(entries) : On = 1..m /\ egressById = 1..m
  BY DEF Launching
<1>2. Len(entries) \in Nat /\ DOMAIN entries = 1..Len(entries)
  BY DEF EntriesHaveSlots
<1>3. m = Len(entries) BY <1>1, <1>2, StartedIsCounted DEF AllStarted
<1>4. On' = On BY DEF On
<1> QED BY <1>1, <1>2, <1>3, <1>4 DEF EntriesHaveSlots, Launching, NothingElseRuns

(* stop() takes every egress out of the map, and each is stopped whether   *)
(* the one before it failed or not.                                        *)
LEMMA ClientStops ==
    ASSUME EgressInv,
           ClientSignal \/ ClientExits \/ ClientPanics \/ \E n \in draining : StopEgress(n)
    PROVE  EgressInv'
<1> USE DEF EgressInv
<1>1. CASE ClientSignal
  <2>1. On' = On BY <1>1 DEF ClientSignal, On
  <2> QED BY <1>1, <2>1 DEF ClientSignal, EntriesHaveSlots, Launching, NothingElseRuns
<1>2. CASE ClientExits
  <2>1. On' = On BY <1>2 DEF ClientExits, On
  <2> QED BY <1>2, <2>1 DEF ClientExits, EntriesHaveSlots, Launching, NothingElseRuns
<1>3. CASE ClientPanics
  <2>1. On' = {} BY <1>3 DEF ClientPanics, On
  <2> QED BY <1>3, <2>1 DEF ClientPanics, EntriesHaveSlots, Launching, NothingElseRuns
<1>4. CASE \E n \in draining : StopEgress(n)
  <2>1. PICK n \in draining : StopEgress(n) BY <1>4
  <2>2. On' = On \ {n} BY <2>1 DEF StopEgress, EntriesHaveSlots, On
  <2> QED BY <2>1, <2>2 DEF StopEgress, EntriesHaveSlots, Launching, NothingElseRuns
<1> QED BY <1>1, <1>2, <1>3, <1>4

LEMMA EgressStep == EgressInv /\ [Next]_vars => EgressInv'
<1> SUFFICES ASSUME EgressInv, [Next]_vars PROVE EgressInv' OBVIOUS
<1>1. CASE ClientLaunch \/ LaunchEgress \/ AssignEgress \/ ClientReady
  BY <1>1, ClientLaunchStarts, LaunchEgressStarts, AssignEgressKeeps, ClientReadyHasAll
<1>2. CASE \/ ClientSignal \/ ClientExits \/ ClientPanics
           \/ \E n \in draining : StopEgress(n)
  BY <1>2, ClientStops
<1>3. CASE \E n \in Connections : EgressPanics(n)
  <2>1. PICK n \in Connections : EgressPanics(n) BY <1>3
  <2>2. On' = On /\ DOMAIN egress' = DOMAIN egress
    BY <2>1 DEF EgressPanics, EgressInv, EntriesHaveSlots, On
  <2> QED BY <2>1, <2>2, EgressIsKept DEF EgressPanics
<1>4. ASSUME UNCHANGED clientVars PROVE EgressInv'
  <2>1. On' = On BY <1>4 DEF On, clientVars
  <2> QED BY <1>4, <2>1, EgressIsKept DEF clientVars
<1>5. CASE \/ ServerLaunch \/ ServerMain \/ ServerSignal \/ ServerCrashes
           \/ \E n \in Connections : Connect(n) \/ Lose(n) \/ Serve(n)
           \/ UNCHANGED vars
  <2>1. UNCHANGED clientVars
    BY <1>5 DEF ServerMain, ServerLaunch, LoadCertificate, GenerateCertificate,
       WriteCertificate, Truncate, Fill, Announce, ServerListens, LaunchIngress,
       AssignLaunched, ServerReady, ServerSignal, ServerStops, ServerExits,
       ServerPanics, ServerCrashes, ServerGone, Connect, Lose, Serve, vars
  <2> QED BY <1>4, <2>1
<1> QED BY <1>1, <1>2, <1>3, <1>5 DEF Next, ClientMain

(* EgressInv is an inductive invariant. *)
THEOREM EgressInductive == Spec => []EgressInv
BY EgressInit, EgressStep, PTL DEF Spec

(* For any number of egresses, a client that waits for its signal has each *)
(* of them in its map, and one that has exited has left none running, the  *)
(* ones whose stop() failed included: client.rs:16-33 of the program,      *)
(* client.rs of the library.                                               *)
THEOREM AllEgressesStop == Spec => []NoEgressIsForgotten
<1>1. EgressInv => NoEgressIsForgotten
  BY DEF EgressInv, EntriesHaveSlots, Launching, NothingElseRuns,
     NoEgressIsForgotten, On
<1> QED BY <1>1, EgressInductive, PTL
============================================================================

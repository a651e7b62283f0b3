------------------------------- MODULE Config -------------------------------
(***************************************************************************)
(* How the command line program turns its arguments or a TOML file into    *)
(* the configuration it launches.                                          *)
(*                                                                         *)
(* An Option is a sequence of at most one value.  Identifiers and keys are *)
(* triples: a name that was configured, or the word "random" with the      *)
(* launch and the entry it was generated for.  An address is a port; the   *)
(* address of a server is None when it does not resolve.  The subject of   *)
(* the certificate is left out: neither end compares it with anything.     *)
(***************************************************************************)
EXTENDS Naturals, Sequences

LOCAL INSTANCE SequencesExt

None == <<>>
Some(x) == <<x>>
UnwrapOr(option, default) == IF option = None THEN default ELSE option[1]

Named(name) == <<name, 0, 0>>

(* new() of an identifier or a key takes between 1 and 255 bytes; the      *)
(* length of a name is written in one byte of a frame (module Codec).      *)
Accepted(name) == name \notin {Named(""), Named("256 bytes")}

(* generate_secure_random_key(): no two values are the same. *)
Random(launch, n) == <<"random", launch, n>>

DEFAULT_SERVER_PORT == 8765
DEFAULT_SERVER_TLS_CERTIFICATE_FILE == "siffleux-cert.pem"
DEFAULT_SERVER_TLS_PRIVATE_KEY_FILE == "siffleux-key.pem"
----------------------------------------------------------------------------
(* The server.  A [tls] table has both paths: without one the file does    *)
(* not parse.                                                              *)

TlsConfig(tls) ==
    IF tls = None
    THEN [cert_pem_path |-> DEFAULT_SERVER_TLS_CERTIFICATE_FILE,
          key_pem_path |-> DEFAULT_SERVER_TLS_PRIVATE_KEY_FILE]
    ELSE [cert_pem_path |-> tls[1].cert_pem_path[1],
          key_pem_path |-> tls[1].key_pem_path[1]]

TlsParses(tls) ==
    tls = None \/ (tls[1].cert_pem_path # None /\ tls[1].key_pem_path # None)

TcpIngressToml(launch, n, entry) ==
    [kind |-> "TCP", addr |-> entry.port, auth_key |-> entry.auth_key,
     id |-> UnwrapOr(entry.id, Random(launch, n))]

UdpIngressToml(launch, n, entry) ==
    [kind |-> "UDP", addr |-> entry.port, auth_key |-> entry.auth_key,
     id |-> UnwrapOr(entry.id, Random(launch, n))]

(* The file is an error as a whole if one of its names is. *)
ServerParses(toml) ==
    /\ TlsParses(toml.tls)
    /\ \A entry \in ToSet(toml.tcp_ingress) \cup ToSet(toml.udp_ingress) :
        /\ Accepted(entry.auth_key)
        /\ \A id \in ToSet(entry.id) : Accepted(id)

(* The TCP ingresses come first. *)
ServerToml(launch, toml) ==
    [client_addr |-> UnwrapOr(toml.port, DEFAULT_SERVER_PORT),
     tls |-> TlsConfig(toml.tls),
     ingresses |->
        [n \in DOMAIN toml.tcp_ingress |-> TcpIngressToml(launch, n, toml.tcp_ingress[n])]
        \o [n \in DOMAIN toml.udp_ingress |->
                UdpIngressToml(launch, n + Len(toml.tcp_ingress), toml.udp_ingress[n])]]

(* `siffleux server tcp` or udp: one ingress, with a key of its own when   *)
(* none is given.  Each path has its own default here.                     *)
IngressArgs(launch, args) ==
    [kind |-> args.kind, addr |-> UnwrapOr(args.port, 3000),
     auth_key |-> UnwrapOr(args.auth_key, Random(launch, 0)),
     id |-> UnwrapOr(args.id, Random(launch, 1))]

ServerArgs(launch, command) ==
    [client_addr |-> UnwrapOr(command.port, DEFAULT_SERVER_PORT),
     tls |-> [cert_pem_path |-> UnwrapOr(command.tls.cert_pem_path,
                                         DEFAULT_SERVER_TLS_CERTIFICATE_FILE),
              key_pem_path |-> UnwrapOr(command.tls.key_pem_path,
                                        DEFAULT_SERVER_TLS_PRIVATE_KEY_FILE)],
     ingresses |-> <<IngressArgs(launch, command.ingress[1])>>]

(* A configuration file takes precedence over the arguments. *)
ServerCommand(launch, command) ==
    IF command.config # None THEN ServerToml(launch, command.config[1])
    ELSE ServerArgs(launch, command)
----------------------------------------------------------------------------
(* The client *)

\* The shared [server] wins over the one of the egress.
ServerOfShared(toml, entry) == IF toml.server = None THEN entry.server ELSE toml.server

(* The server of an egress: its own or, failing that, the shared one. *)
ServerOf(toml, entry) == IF entry.server = None THEN toml.server ELSE entry.server

EgressToml(kind, n, toml, entry) ==
    [kind |-> kind, server |-> ServerOf(toml, entry)[1],
     id |-> UnwrapOr(entry.id, Random(0, n)),
     ingress_id |-> entry.ingress_id, auth_key |-> entry.auth_key,
     target |-> entry.target]

ClientParses(toml) ==
    \A entry \in ToSet(toml.tcp_egress) \cup ToSet(toml.udp_egress) :
        /\ Accepted(entry.auth_key)
        /\ Accepted(entry.ingress_id)
        /\ \A id \in ToSet(entry.id) : Accepted(id)

(* An egress without a server is an error, found before anything starts. *)
ClientTomlFails(toml) ==
    \E entry \in ToSet(toml.tcp_egress) \cup ToSet(toml.udp_egress) :
        ServerOf(toml, entry) = None

ClientToml(toml) ==
    [n \in DOMAIN toml.tcp_egress |-> EgressToml("TCP", n, toml, toml.tcp_egress[n])]
    \o [n \in DOMAIN toml.udp_egress |->
            EgressToml("UDP", n + Len(toml.tcp_egress), toml, toml.udp_egress[n])]

(* `siffleux client tcp` or udp: one egress with its server. *)
EgressArgs(args) ==
    [kind |-> args.kind, server |-> args.server, id |-> UnwrapOr(args.id, Random(0, 1)),
     ingress_id |-> args.ingress_id, auth_key |-> args.auth_key, target |-> args.target]
============================================================================

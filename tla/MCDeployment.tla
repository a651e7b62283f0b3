---------------------------- MODULE MCDeployment ----------------------------
(* Command lines and directories for module Deployment. *)
EXTENDS Deployment

Tls(cert, key) == Some([cert_pem_path |-> cert, key_pem_path |-> key])
Ingress(port, id) == [port |-> port, id |-> id, auth_key |-> Named("k")]

ServerFile(port, tls, tcp, udp) ==
    [config |-> Some([port |-> port, tls |-> tls, tcp_ingress |-> tcp, udp_ingress |-> udp]),
     ingress |-> None]

ServerLine(kind, id) ==
    [config |-> None, port |-> None,
     tls |-> [cert_pem_path |-> None, key_pem_path |-> Some("key.pem")],
     ingress |-> Some([kind |-> kind, port |-> None, id |-> id, auth_key |-> None])]

(* Two ingresses and a port of its own; two ingresses of one name; a       *)
(* random name, and a TCP ingress whose port is taken; a table [tls] with  *)
(* one path; one ingress and the default port; an empty name; a random     *)
(* key; nothing at all.                                                    *)
MCServerCommands ==
    {ServerFile(Some(9000), Tls(Some("cert.pem"), Some("key.pem")),
                <<Ingress(1, Some(Named("i1")))>>, <<Ingress(1, Some(Named("i2")))>>),
     ServerFile(None, None,
                <<Ingress(1, Some(Named("i1")))>>, <<Ingress(2, Some(Named("i1")))>>),
     ServerFile(None, None,
                <<Ingress(1, None), Ingress(1, Some(Named("i2")))>>, <<>>),
     ServerFile(None, Tls(Some("cert.pem"), None), <<>>, <<Ingress(1, Some(Named("i2")))>>),
     ServerFile(None, None, <<>>, <<Ingress(1, Some(Named("i2")))>>),
     ServerFile(None, None, <<>>, <<Ingress(1, Some(Named("")))>>),
     ServerLine("UDP", Some(Named("i2"))),
     [config |-> None, ingress |-> None]}

At(port, hash) == [address |-> port, cert_hash |-> hash]
Egress(own, id, ingress_id, target) ==
    [server |-> own, id |-> id, ingress_id |-> Named(ingress_id),
     auth_key |-> Named("k"), target |-> target]

ClientFile(shared, tcp, udp) ==
    [config |-> Some([server |-> shared, tcp_egress |-> tcp, udp_egress |-> udp]),
     egress |-> None]

(* Both egresses on the shared server; one of them, on a server at the     *)
(* default port; an egress whose own server is right and the shared one    *)
(* wrong; names twice; a hash that is none; no server; a name too long;    *)
(* what does not resolve; one egress by arguments; nothing.                *)
MCClientCommands ==
    {ClientFile(Some(At(Some(9000), "logged")),
                <<Egress(None, None, "i1", "target")>>,
                <<Egress(None, None, "i2", "target")>>),
     ClientFile(Some(At(Some(8765), "logged")), <<>>, <<Egress(None, None, "i2", "target")>>),
     ClientFile(Some(At(Some(9000), "other")),
                <<Egress(Some(At(Some(9000), "logged")), None, "i1", "target")>>, <<>>),
     ClientFile(Some(At(Some(8765), "logged")),
                <<Egress(None, Some(Named("e")), "i1", "target")>>,
                <<Egress(None, Some(Named("e")), "i2", "target")>>),
     ClientFile(None, <<Egress(Some(At(Some(8765), "garbled")), None, "i1", "target")>>, <<>>),
     ClientFile(None, <<Egress(None, None, "i1", "target")>>, <<>>),
     ClientFile(Some(At(Some(9000), "logged")),
                <<Egress(None, None, "256 bytes", "target")>>, <<>>),
     ClientFile(Some(At(Some(9000), "logged")),
                <<Egress(None, None, "i1", "target"), Egress(None, None, "i1", "unknown")>>, <<>>),
     [config |-> None,
      egress |-> Some([kind |-> "UDP", server |-> At(Some(8765), "logged"), id |-> None,
                       ingress_id |-> Named("i2"), auth_key |-> Named("k"),
                       target |-> "target"])],
     [config |-> None, egress |-> None]}

Paths == {DEFAULT_SERVER_TLS_CERTIFICATE_FILE, DEFAULT_SERVER_TLS_PRIVATE_KEY_FILE,
          "cert.pem", "key.pem"}
Files(certs, keys) ==
    [path \in Paths |-> CASE path \in certs -> Pem("cert", 1)
                          [] path \in keys -> Pem("key", 1)
                          [] OTHER -> Absent]

(* An empty directory, the user's own pair, a certificate or a key alone. *)
MCDirectories == {Files({}, {}), Files({"cert.pem"}, {"key.pem"}),
                  Files({"cert.pem"}, {}), Files({}, {"key.pem"})}
============================================================================

--------------------------- MODULE MCOperationForms ---------------------------
(* OperationForms for TLC, with every operation of src/domains and the       *)
(* class of every entry of the manifest.                                     *)
EXTENDS OperationForms, FormsSys, FormsWan, FormsLan, FormsSecurity,
        FormsServers, FormsIp, FormsIp6, ManifestClasses

MCOperations ==
  SystemOps \union UplinkOps \union LanOps \union SecurityOps \union ServersOps
  \union IpOps \union Ip6Ops
===============================================================================

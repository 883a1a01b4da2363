------------------------------- MODULE FormsIp -------------------------------
(*****************************************************************************)
(* The operations of src/domains/ip.ts, and the commands each can build.     *)
(*****************************************************************************)
EXTENDS CommandForms

\* src/domains/ip.ts
IpAddressOps == Under(<<"ip">>, {
    Write("cli.ip.pubsubnet", {Say(<<"pubsubnet">>) \o One({"enable", "disable"})}),
    Write("cli.ip.pubaddr", {Say(<<"pubaddr">>) \o Ip}),
    Write("cli.ip.pubmask", {Say(<<"pubmask">>) \o Ip}),
    Write("cli.ip.lanalias", After(Say(<<"lanalias">>) \o N(1, 5), {
        F("-e") \o Bit, F("-a") \o Ip, F("-w") \o N(0, 5), F("-r")})),
    Write("cli.ip.addr", {Say(<<"addr">>) \o Ip})})

IpArpOps == Under(<<"ip">>, {
    Write("cli.ip.nmask", {Say(<<"nmask">>) \o Ip}),
    Read("cli.ip.arp", {Say(<<"arp", "status">>), Say(<<"arp", "accept", "status">>)}),
    Write("cli.ip.arp.add", {Say(<<"arp", "add">>) \o Ip \o Mac \o One({"LAN", "WAN"})}),
    Write("cli.ip.arp.del", {Say(<<"arp", "del">>) \o Ip \o One({"LAN", "WAN"})}),
    Write("cli.ip.arp.flush", {Say(<<"arp", "flush">>)}),
    Write("cli.ip.arp.accept", {Say(<<"arp", "accept">>) \o N(0, 7)}),
    Write("cli.ip.arp.setcachelife", {Say(<<"arp", "setCacheLife">>) \o N(10, 2550)})})

IpDhcpcOps == Under(<<"ip", "dhcpc">>, {
    Write("cli.ip.dhcpc", {
        Say(<<"status">>),
        One({"release", "renew"}) \o N(1, 12),
        Say(<<"option">>) \o F("-e") \o Bit \o F("-w") \o N(1, 12) \o F("-c") \o N(0, 255)
        \o Flags({"-v", "-x", "-a"}) \o Name,
        Say(<<"option">>) \o Opt(Flags({"-h", "-l", "-r"})),
        Say(<<"option">>) \o Flags({"-d", "-u"}) \o PosInt})})

\* The probes: what follows the target is documented in a fixed order.
IpProbeOps == Under(<<"ip">>, {
    Read("cli.ip.ping",
        {Say(<<"ping">>) \o Ip,
         Say(<<"ping">>) \o Ip \o Or(One({"AUTO"}), Kind("WAN")) \o Opt(Ip)}),
    Read("cli.ip.tracert",
        {Say(<<"tracert">>) \o Ip,
         Say(<<"tracert">>) \o Ip \o Kind("WAN") \o Opt(One({"Udp", "Icmp"}))})})

IpRouteOps == Under(<<"ip", "route">>, {
    Read("cli.ip.route", {Say(<<"status">>)}),
    Write("cli.ip.route.add",
        {Say(<<"add">>) \o Ip \o Ip \o Ip \o N(3, 12) \o One({"default", "static"})}),
    Write("cli.ip.route.del", {Say(<<"del">>) \o Ip \o Ip \o One({"default", "static"})}),
    Read("cli.ip.route.cnc", {Say(<<"cnc">>)}),
    Read("cli.ip.route.tel", {Say(<<"tel">>)}),
    Destructive("cli.ip.route.default", {Say(<<"default">>) \o One({"add", "del", "off"})}),
    Destructive("cli.ip.route.clean", {Say(<<"clean">>) \o Bit})})

IpSessionOps == Under(<<"ip", "session">>, {
    Read("cli.ip.session", {One({"status", "show"})}),
    Read("cli.ip.session.list", {<<>>}),
    Write("cli.ip.session.on", {Say(<<"on">>)}),
    Write("cli.ip.session.off", {Say(<<"off">>)}),
    Write("cli.ip.session.default", {Say(<<"default">>) \o NonNeg}),
    Write("cli.ip.session.defaultp2p", {Say(<<"defaultp2p">>) \o NonNeg}),
    Write("cli.ip.session.timer", {Say(<<"timer">>) \o NonNeg}),
    Write("cli.ip.session.block", {Say(<<"block">>) \o Ip}),
    Write("cli.ip.session.unblock", {Say(<<"unblock">>) \o Ip}),
    Write("cli.ip.session.add", {Say(<<"add">>) \o Kind("ipv4 range") \o NonNeg \o NonNeg}),
    Write("cli.ip.session.del", {Say(<<"del">>) \o Kind("ipv4 range") \o NonNeg \o NonNeg})})

IpBandwidthOps == Under(<<"ip", "bandwidth">>, {
    Write("cli.ip.bandwidth", {
        OnOff,
        Say(<<"default">>) \o N(0, 30000) \o N(0, 30000),
        One({"status", "show"}),
        Say(<<"routing">>) \o OnOff,
        Say(<<"schedule">>) \o N(1, 16) \o N(1, 16) \o N(1, 16) \o N(1, 16),
        One({"add", "del"}) \o Kind("ipv4 range") \o N(0, 30000) \o N(0, 30000) \o Bit})})

IpBindmacOps == Under(<<"ip">>, {
    Write("cli.ip.bindmac", After(Say(<<"bindmac">>), {
        One({"on", "off", "strict_on", "strict_off", "show"}),
        Say(<<"add">>) \o Ip \o Mac \o Text,
        Say(<<"del">>) \o Or(Ip, One({"all"})),
        Say(<<"subnet">>) \o One({"all", "clear", "show"}),
        Say(<<"subnet">>) \o One({"set", "unset"}) \o Kind("LAN")})),
    Write("cli.ip.rip", {Say(<<"rip">>) \o N(0, 2)}),
    Write("cli.ip.wanrip", {Say(<<"wanrip">>) \o N(1, 52) \o F("-e") \o Bit})})

IpIgmpProxyOps == Under(<<"ip", "igmp_proxy">>, {
    Read("cli.ip.igmpproxy.status", {Say(<<"status">>)}),
    Write("cli.ip.igmpproxy.set", {Say(<<"set">>)}),
    Write("cli.ip.igmpproxy.reset", {Say(<<"reset">>)}),
    Write("cli.ip.igmpproxy.wan", {Say(<<"wan">>)}),
    Write("cli.ip.igmpproxy.query", {Say(<<"query">>) \o NonNeg}),
    Write("cli.ip.igmpproxy.ppp", {Say(<<"ppp">>) \o Bit}),
    Write("cli.ip.igmpproxy.version",
        {Say(<<"version">>) \o Opt(One({"v2", "v3", "auto", "show"}))}),
    Write("cli.ip.igmpproxy.syslog", {Say(<<"syslog">>) \o Opt(Bit)})})

IpIgmpSnoopOps == Under(<<"ip", "igmp_snoop">>, {
    Read("cli.ip.igmpsnoop.status", {Say(<<"status">>)}),
    Read("cli.ip.igmpsnoop.table", {Say(<<"table">>)}),
    Write("cli.ip.igmpsnoop.enable", {Say(<<"enable">>)}),
    Write("cli.ip.igmpsnoop.disable", {Say(<<"disable">>)}),
    Write("cli.ip.igmpsnoop.txquery", {Say(<<"txquery">>) \o OnOff \o One({"v2", "v3"})}),
    Write("cli.ip.igmpsnoop.mode", {Say(<<"mode">>) \o One({"hw", "sw"})}),
    Write("cli.ip.igmpsnoop.chkleave", {Say(<<"chkleave">>) \o OnOff}),
    Write("cli.ip.igmpsnoop.separate", {Say(<<"separate">>) \o OnOff}),
    Write("cli.ip.igmpsnoop.portchk", {Say(<<"portchk">>) \o OnOff}),
    Write("cli.ip.igmpsnoop.acceptlist", After(Say(<<"acceptlist">>), {
        N(0, 0) \o N(0, 0), N(1, 1) \o N(0, 500), N(2, 2) \o N(0, 32)}))})

IpBgpReadOps == Under(<<"ip">>, {
    Read("cli.ip.dataflowmonitor.status", {Say(<<"dataflowmonitor", "status">>)}),
    Write("cli.ip.dataflowmonitor.on", {Say(<<"dataflowmonitor", "on">>)}),
    Write("cli.ip.dataflowmonitor.off", {Say(<<"dataflowmonitor", "off">>)}),
    Read("cli.ip.bgp.show", {Say(<<"bgp", "show">>)}),
    Read("cli.ip.bgp.neighbor.show", {
        Say(<<"bgp", "neighbor", "show", "all">>),
        Say(<<"bgp", "neighbor">>) \o N(1, 8) \o Say(<<"show">>)}),
    Read("cli.ip.bgp.static.show", {Say(<<"bgp", "static", "show">>)})})

\* AS numbers reach 2^32 - 1, beyond what AnyInt stands for.
IpBgpOps == Under(<<"ip", "bgp">>, {
    Write("cli.ip.bgp", {
        Say(<<"mode">>) \o Bit,
        Say(<<"as">>) \o NonNeg,
        Say(<<"hold">>) \o N(10, 65535),
        Say(<<"retry">>) \o N(3, 255),
        Say(<<"id">>) \o Ip,
        Say(<<"static">>) \o N(1, 16) \o Ip \o Ip,
        Say(<<"static">>) \o N(1, 16) \o Say(<<"delete">>)}
      \union After(Say(<<"neighbor">>) \o N(1, 8), {
        One({"mode", "md5"}) \o Bit,
        One({"name", "key"}) \o Name,
        Say(<<"ip">>) \o Ip,
        Say(<<"as">>) \o PosInt,
        One({"weight", "prepend"}) \o N(0, 7)}))})

IpOspfOps == Under(<<"ip">>, {
    Read("cli.ip.ospf.status", {Say(<<"ospf", "status">>)}),
    Read("cli.ip.ospf.cfg.show", {Say(<<"ospf", "cfg", "show">>)}),
    Read("cli.ip.ospf.nbr", {Say(<<"ospf", "nbr">>)}),
    Write("cli.ip.ospf.en", {Say(<<"ospf", "en">>)}),
    Write("cli.ip.ospf.dis", {Say(<<"ospf", "dis">>)}),
    Write("cli.ip.ospf.cfg.set", After(Say(<<"ospf", "cfg", "set">>) \o N(1, 64), {
        Say(<<"state">>) \o One({"en", "dis"}),
        Say(<<"area">>) \o PosInt,
        Say(<<"lan">>) \o N(1, 20),
        Say(<<"wan">>) \o N(1, 2)})),
    Write("cli.ip.maxnatuser", {Say(<<"maxnatuser">>) \o NonNeg})})

PolicyRtFlags ==
  {"-i", "-e", "-o", "-1", "-2", "-3", "-G", "-L", "-s", "-S", "-d", "-D", "-p", "-P",
   "-y", "-I", "-g", "-l", "-t", "-n", "-F", "-M", "-a", "-f", "-b", "-v"}

IpPolicyOps == Under(<<"ip">>, {
    Write("cli.ip.policyrt", {Say(<<"policy_rt">>) \o FlagArgsOr({"diagnose"}, PolicyRtFlags)}),
    Read("cli.ip.landnsres", {Say(<<"lanDNSRes">>)}),
    Read("cli.ip.dnsforward", {Say(<<"dnsforward">>)}),
    Write("cli.ip.spoofdef", {Say(<<"spoofdef">>) \o One({"WAN", "LAN"}) \o Bit}),
    Write("cli.ip.igmpfl", {Say(<<"igmp_fl">>) \o One({"enable", "disable"})}),
    Read("cli.ip.igmpfl.status", {Say(<<"igmp_fl", "status">>)})})

IpOps ==
  IpAddressOps \union IpArpOps \union IpDhcpcOps \union IpProbeOps \union IpRouteOps
  \union IpSessionOps \union IpBandwidthOps \union IpBindmacOps \union IpIgmpProxyOps
  \union IpIgmpSnoopOps \union IpBgpReadOps \union IpBgpOps \union IpOspfOps
  \union IpPolicyOps
==============================================================================

------------------------------- MODULE FormsWan -------------------------------
(*****************************************************************************)
(* The operations of src/domains/ {vrrp, wol, upnp, ha, internet, wan,       *)
(* vpn}.ts, and the commands each can build.                                 *)
(*****************************************************************************)
EXTENDS CommandForms

\* src/domains/vrrp.ts: the syntax of "vrrp set" is undocumented.
VrrpOps == Under(<<"vrrp">>, {
    Read("cli.vrrp.show", {Say(<<"show">>)}),
    Write("cli.vrrp.enable", {Say(<<"enable">>) \o OnOff}),
    Write("cli.vrrp.set", {Say(<<"set">>) \o Token \o Many(Token)}),
    Write("cli.vrrp.apply", {Say(<<"apply">>)}),
    Write("cli.vrrp.reset", {Say(<<"reset">>)})})

\* src/domains/wol.ts
WolOps == Under(<<"wol">>, {
    Write("cli.wol", {Say(<<"up">>) \o Or(Ip, Mac)}),
    Write("cli.wol.fromwan", {Say(<<"fromWan">>) \o One({"on", "off", "any"})}),
    Write("cli.wol.fromwansetting", {Say(<<"fromWan_Setting">>) \o PosInt \o Ip \o Ip})})

\* src/domains/upnp.ts
UpnpOps == Under(<<"upnp">>, {
    Write("cli.upnp.off", {Say(<<"off">>)}),
    Write("cli.upnp.on", {Say(<<"on">>)}),
    Read("cli.upnp.nat", {Say(<<"nat">>)}),
    Read("cli.upnp.service", {Say(<<"service">>)}),
    Read("cli.upnp.subscribe", {Say(<<"subscribe">>)}),
    Read("cli.upnp.tmpvs", {Say(<<"tmpvs">>)}),
    Write("cli.upnp.wan", {Say(<<"wan">>) \o N(0, 12)})})

\* src/domains/ha.ts
HaSetFlags == {"-e", "-l", "-M", "-v", "-R", "-p", "-k", "-u", "-m", "-s", "-y",
               "-c", "-C", "-I", "-h", "-d", "-o"}

HaOps == Under(<<"ha">>, {
    Write("cli.ha.set", {Say(<<"set">>) \o FlagArgs(HaSetFlags)}),
    Read("cli.ha.show", {Say(<<"show">>) \o Flags({"-c", "-g"})}),
    Read("cli.ha.status", {Say(<<"status">>) \o Flags({"-a", "-m"}) \o N(0, 2)})})

\* src/domains/internet.ts: the options, each at most once, in this order.
InternetOps == Under(<<"internet">>, {
    Read("cli.internet.v", {F("-V")}),
    Write("cli.internet", {
        Opt(F("-W") \o N(1, 12)) \o F("-M") \o N(0, 7)
        \o AnyOf(<<F("-S") \o Name, F("-P") \o OnOff, F("-u") \o Name, F("-p") \o Name,
                 F("-a") \o Bit, F("-t") \o N(-1, 999), F("-i") \o Name,
                 F("-w") \o Name, F("-n") \o Name, F("-g") \o Name, F("-s") \o Name,
                 F("-A") \o N(1, 12), F("-B") \o Bit>>)})})

\* src/domains/wan.ts
WanLinkOps == Under(<<"wan">>, {
    Write("cli.wan.pppmru", {Say(<<"ppp_mru">>) \o N(1, 12) \o N(1400, 1600)}),
    Write("cli.wan.mtu.mtu2", {One({"mtu", "mtu2"}) \o N(1000, 1500)}),
    Write("cli.wan.dns", {Say(<<"dns">>) \o N(1, 10) \o One({"pri", "sec"}) \o Ip}),
    Write("cli.wan.disable", {Say(<<"disable">>) \o Kind("WAN")}),
    Write("cli.wan.enable", {Say(<<"enable">>) \o Kind("WAN")})})

WanDetectModeOps == Under(<<"wan">>, {
    Write("cli.wan.forward", {Say(<<"forward">>) \o OnOff}),
    Read("cli.wan.status", {Say(<<"status">>)}),
    Read("cli.wan.detect", {Say(<<"detect", "status">>)}),
    Write("cli.wan.detect.mode", After(Say(<<"detect">>) \o Kind("wan"), {
        One({"on", "off", "strict", "always_on"}),
        Say(<<"off">>) \o Flags({"-t", "-i"}) \o N(0, 256)}))})

WanDetectTargetOps == Under(<<"wan">>, {
    Write("cli.wan.detect.target",
        {Say(<<"detect">>) \o Kind("wan") \o Say(<<"target">>) \o Ip}),
    Write("cli.wan.detect.target2",
        {Say(<<"detect">>) \o Kind("wan") \o Say(<<"target2">>) \o Ip}),
    Write("cli.wan.detect.targetgw",
        {Say(<<"detect">>) \o Kind("wan") \o Say(<<"target_gw">>) \o Bit}),
    Write("cli.wan.detect.ttl",
        {Say(<<"detect">>) \o Kind("wan") \o Say(<<"ttl">>) \o N(0, 255)}),
    Write("cli.wan.detect.interval",
        {Say(<<"detect">>) \o Kind("wan") \o Say(<<"interval">>) \o N(1, 3600)}),
    Write("cli.wan.detect.retry",
        {Say(<<"detect">>) \o Kind("wan") \o Say(<<"retry">>) \o N(1, 255)}),
    Write("cli.wan.lb", {Say(<<"lb">>) \o Kind("wan") \o OnOff})})

WanVlanOps == Under(<<"wan">>, {
    Write("cli.wan.mvlan",
        {Say(<<"mvlan">>) \o N(2, 7) \o OnOff \o Many(One({"p2", "p3", "p4"}))}),
    Write("cli.wan.vlan", After(Say(<<"vlan", "wan">>) \o N(1, 12), {
        Say(<<"tag">>) \o N(-1, -1), Say(<<"tag">>) \o N(1, 4095),
        One({"enable", "disable"}),
        Say(<<"pri">>) \o N(0, 7)}))})

WanBudgetOps == Under(<<"wan">>, {
    Write("cli.wan.budget", After(Say(<<"budget", "wan">>) \o N(1, 12), {
        One({"enable", "disable"}),
        One({"thres", "gthres", "psday"}) \o PosInt,
        Say(<<"rdate">>) \o N(1, 30) \o N(1, 23),
        Say(<<"mode">>) \o One({"monthly", "periodic", "none"}),
        Say(<<"custom_mode">>) \o Bit,
        Say(<<"custom_mode_reset_hour">>) \o N(1, 23),
        Say(<<"action">>) \o N(0, 7)}))})

WanProbeOps == Under(<<"wan">>, {
    Read("cli.wan.detectmtu", {
        Say(<<"detect_mtu">>) \o F("-i") \o Name \o F("-s") \o N(1000, 1500)
        \o F("-d") \o N(1, 100) \o F("-w") \o N(1, 12) \o F("-c") \o N(1, 10)}),
    Read("cli.wan.detectmtu6", {
        Say(<<"detect_mtu6">>) \o F("-i") \o Name \o F("-s") \o N(1280, 1500)
        \o F("-w") \o N(1, 12)})})

WanFailoverOps == Under(<<"wan">>, {
    Write("cli.wan.failover", After(Say(<<"failover">>),
        {One({"off", "show"}) \o N(1, 12),
         Say(<<"on">>) \o N(1, 7) \o Bit \o Bit \o N(1, 7) \o NonNeg \o NonNeg}
        \cup {Say(<<"newlb">>) \o N(1, 12) \o f : f \in Listed(
            <<Flags({"-a", "-u", "-d", "-l", "-j", "-p"}) \o Bit,
              Flags({"-m", "-n", "-x", "-y", "-z"}) \o N(0, 1000000)>>)}))})

WanLbelOps == Under(<<"wan">>, {
    Write("cli.wan.dfcheck", {Say(<<"DF_check">>) \o OnOff}),
    Read("cli.wan.lbel.status", {Say(<<"lbel", "status">>) \o N(1, 32)}),
    Write("cli.wan.lbel", {
        Say(<<"lbel">>) \o N(1, 32) \o Bit \o One({"tcp", "udp", "all"}) \o N(0, 2)
        \o N(0, 500) \o N(0, 65535) \o N(0, 65535) \o Name}),
    Read("cli.wan.multifno.status", {Say(<<"multifno", "status">>)}),
    Write("cli.wan.multifno", {Say(<<"multifno">>) \o N(13, 52) \o N(1, 20)})})

WanDropOps == Under(<<"wan">>, {
    Write("cli.wan.lb.mode", {Say(<<"lb">>) \o One({"ip", "session"})}),
    Read("cli.wan.lb.status", {Say(<<"lb", "status">>)}),
    Read("cli.wan.vlan.stat", {Say(<<"vlan", "stat">>)}),
    Read("cli.wan.budget.status", {Say(<<"budget", "status">>)}),
    Write("cli.wan.dpdkport", {Say(<<"dpdk-port">>) \o N(1, 12) \o N(0, 64)}),
    Destructive("cli.wan.drop", {Say(<<"drop">>) \o Kind("wan")})})

WanWeightOps == Under(<<"wan">>, {
    Write("cli.wan.detect2", After(Say(<<"detect2">>), Listed(
        <<F("-w") \o N(1, 12), Flags({"-x", "-b"}) \o N(1, 500), F("-p") \o N(1, 32),
          F("-t") \o N(0, 2), Flags({"-i", "-j"}) \o Ip, F("-k") \o N(1, 20), F("-g") \o Bit,
          F("-d") \o N(0, 65535), F("-v") \o N(1, 65535), Flags({"-r", "-l"}) \o N(1, 255)>>))),
    Read("cli.wan.detect2.show", {Say(<<"detect2">>) \o F("-s")}),
    Read("cli.wan.detect2.result", {Say(<<"detect2">>) \o F("-u")}),
    Write("cli.wan.lbweight", After(Say(<<"lbweight">>), Listed(
        <<Flags({"-u", "-d", "-l", "-j", "-p"}) \o N(1, 3), F("-t") \o N(0, 3)>>))),
    Read("cli.wan.lbweight.status", {Say(<<"lbweight">>) \o F("-s")})})

WanPhymodeOps == Under(<<"wan">>, {
    Write("cli.wan.voipdect", After(Say(<<"voipdect">>), {
        F("-e") \o Bit,
        Flags({"-t", "-b"}) \o Kind("decimal"),
        F("-d") \o N(1, 12)})),
    Read("cli.wan.voipdect.view", {Say(<<"voipdect">>) \o F("-v")}),
    Read("cli.wan.voipdect.rtp", {Say(<<"voipdect">>) \o F("-i")}),
    Read("cli.wan.phymode.status", {Say(<<"phymode", "status">>)}),
    Destructive("cli.wan.phymode", {Say(<<"phymode">>) \o N(1, 12) \o N(0, 0)})})

WanOps == WanLinkOps \cup WanDetectModeOps \cup WanDetectTargetOps \cup WanVlanOps
          \cup WanBudgetOps \cup WanProbeOps \cup WanFailoverOps \cup WanLbelOps
          \cup WanDropOps \cup WanWeightOps \cup WanPhymodeOps

\* src/domains/vpn.ts
VpnSetupOps == Under(<<"vpn">>, {
    Write("cli.vpn.setup", {Say(<<"setup">>) \o N(1, 128) \o Tail0({})}),
    Read("cli.vpn.list", {Say(<<"list">>)}),
    Read("cli.vpn.remote", {Say(<<"remote">>)}),
    Write("cli.vpn.ovpn", {
        Say(<<"ovpn">>) \o TailFrom(
            One({"mode", "show", "udp_mode", "tcp_mode", "udp_port", "tcp_port", "cert",
                 "replay", "certmode", "hmacmode", "ca", "tlsauth_del"}), {})})})

VpnTunnelOps == Under(<<"vpn">>, {
    Write("cli.vpn.dialout", {Say(<<"dial_out">>) \o TailFrom(One({"dial"}), {})}),
    Write("cli.vpn.l2lset", {
        Say(<<"l2lset">>) \o N(1, 500) \o TailFrom(
            One({"peerid", "localid", "main", "aggressive", "pfs", "phase1", "phase2",
                 "x509localid", "compress"}), {})}),
    Write("cli.vpn.l2ldrop", {
        Say(<<"l2lDrop">>),
        Say(<<"l2lDrop">>) \o TailFrom(
            Or(One({"l2lname", "l2lidx", "h2lname", "h2lidx"}), NonNeg), {})}),
    Write("cli.vpn.l2ldialout", {Say(<<"l2lDialout">>) \o N(1, 500)})})

VpnDialInOps == Under(<<"vpn">>, {
    Write("cli.vpn.dinset", {
        Say(<<"dinset">>) \o N(1, 500),
        Say(<<"dinset">>) \o N(1, 500) \o TailFrom(
            One({"on", "off", "username", "password", "motp", "pin_secret", "timeout",
                 "dintype", "subnet", "assignip", "srnode", "remoteip", "peer", "naming",
                 "multicastvpn", "prekey", "assignkey", "digsig", "ipsec", "localid"}), {})}),
    Write("cli.vpn.subnet", {Say(<<"subnet">>) \o N(1, 500) \o N(1, 100)}),
    Write("cli.vpn.option", {
        Say(<<"option">>) \o N(1, 500) \o Kind("setting") \o Many(Kind("setting"))})})

VpnRouteOps == Under(<<"vpn", "mroute">>, {
    Read("cli.vpn.mroute.list", {N(1, 500) \o Say(<<"list">>)}),
    Write("cli.vpn.mroute.add", {N(1, 500) \o Say(<<"add">>) \o Name}),
    Write("cli.vpn.mroute.del", {N(1, 500) \o Say(<<"del">>) \o Name}),
    Write("cli.vpn.mroute.addmsa", {N(1, 500) \o Say(<<"addmsa">>) \o Name \o Name}),
    Write("cli.vpn.mroute.delmsa", {N(1, 500) \o Say(<<"delmsa">>) \o Name \o Name})})

\* Largest MSS of each connection type.
MssMaxByType == <<1412, 1408, 1381, 1361, 1365, 1360, 1380>>

VpnMssOps == Under(<<"vpn">>, {
    Write("cli.vpn.trunk", {
        Say(<<"trunk">>)
        \o TailFrom(One({"show_usable", "backup", "lb", "bind", "SetGre"}), {})}),
    Write("cli.vpn.netbios", {
        Say(<<"NetBios", "set">>) \o One({"H2l", "L2l"}) \o N(1, 500)
        \o One({"Block", "Pass"})}),
    Read("cli.vpn.mss.show", {Say(<<"mss", "show">>)}),
    Write("cli.vpn.mss.default", {Say(<<"mss", "default">>)}),
    Write("cli.vpn.mss.set",
        {Say(<<"mss", "set">>) \o N(t, t) \o N(512, MssMaxByType[t]) : t \in DOMAIN MssMaxByType})})

VpnPassOps == Under(<<"vpn">>, {
    Read("cli.vpn.ike", {Say(<<"ike">>) \o Flags({"-q", "-s"})}),
    Write("cli.vpn.multicast", {
        Say(<<"Multicast", "set">>) \o One({"H2l", "L2l"}) \o N(1, 500)
        \o One({"Block", "Pass"})}),
    Write("cli.vpn.pass2nd", {Say(<<"pass2nd">>) \o OnOff}),
    Write("cli.vpn.pass2nat", {Say(<<"pass2nat">>) \o OnOff}),
    Write("cli.vpn.samesubnet", {
        Say(<<"sameSubnet">>) \o Tail0({"-i", "-e", "-I", "-o", "-E", "-v", "-m"})}),
    Write("cli.vpn.mirror", {Say(<<"mirror">>) \o One({"l2l", "h2l"}) \o N(1, 500)})})

VpnLanOps == Under(<<"vpn">>, {
    Read("cli.vpn.fromlan.status", {Say(<<"fromlan", "status">>)}),
    Write("cli.vpn.fromlan.enable", {Say(<<"fromlan", "enable">>)}),
    Write("cli.vpn.fromlan.disable", {Say(<<"fromlan", "disable">>)}),
    Write("cli.vpn.fromlan.add", {Say(<<"fromlan", "add">>) \o Kind("lan")}),
    Write("cli.vpn.fromlan.remove", {Say(<<"fromlan", "remove">>) \o Kind("lan")}),
    Write("cli.vpn.isolate", {Say(<<"isolate">>) \o OnOff}),
    Write("cli.vpn.mfa", {Say(<<"mfa", "bypass">>) \o Kind("duration")})})

VpnProfileOps == Under(<<"vpn">>, {
    Read("cli.vpn.graph", {Say(<<"graph">>)}),
    Read("cli.vpn.list.profile", {
        Say(<<"list">>) \o N(1, 500) \o One({"all", "com", "out", "in", "net"})}),
    Write("cli.vpn.remote.set", {
        Say(<<"remote">>)
        \o One({"PPTP", "IPsec", "L2TP", "SSLVPN", "OpenVPN", "WireGuard"})
        \o Opt(Kind("wan")) \o OnOff}),
    Write("cli.vpn.udp", After(Say(<<"udp">>), {
        Say(<<"set">>) \o Ip \o N(1, 65535) \o One({"enable", "disable"}),
        Say(<<"clear">>) \o Kind("host"),
        One({"add", "del"}) \o Ip \o N(1, 65535) \o N(1, 65535)}))})

\* The quoted two-word argument of dpdkctrl is one token.
VpnWireguardOps == Under(<<"vpn">>, {
    Write("cli.vpn.passapm", {Say(<<"passAPM">>) \o OnOff}),
    Read("cli.vpn.dpdkctrl.dump", {Say(<<"dpdkctrl">>) \o One({"sp dump", "sa dump"})}),
    Destructive("cli.vpn.dpdkctrl.flush",
        {Say(<<"dpdkctrl">>) \o One({"sp flush", "sa flush"})}),
    Write("cli.vpn.dpdkctrl.set", {
        Say(<<"dpdkctrl", "fastroute">>) \o One({"off", "ip_all", "subnet", "subnet_all"}),
        Say(<<"dpdkctrl">>) \o One({"pptp", "wireguard"}) \o OnOff}),
    Read("cli.vpn.wg.show", {Say(<<"wg", "show">>)}),
    Write("cli.vpn.wg.enable", {Say(<<"wg", "enable">>) \o OnOff}),
    Write("cli.vpn.wg.interface",
        {Say(<<"wg", "interface">>) \o N(1, 65535) \o Name \o Opt(N(576, 9000))}),
    Destructive("cli.vpn.wg.keygen", {Say(<<"wg", "key", "gen">>)}),
    Destructive("cli.vpn.wg.keyset", {Say(<<"wg", "key", "set">>) \o Kind("key")})})

VpnPeerOps == {
    Write("cli.vpn.wg.peer", After(Say(<<"vpn", "wg", "peer">>) \o N(1, 1000), {
        One({"pubkey", "psk"}) \o Kind("key"),
        Say(<<"allowed-ips">>) \o Name,
        Say(<<"keepalive">>) \o N(0, 65535),
        Say(<<"clear">>)}))}

VpnOps == VpnSetupOps \cup VpnTunnelOps \cup VpnDialInOps \cup VpnRouteOps \cup VpnMssOps
          \cup VpnPassOps \cup VpnLanOps \cup VpnProfileOps \cup VpnWireguardOps
          \cup VpnPeerOps

UplinkOps == VrrpOps \cup WolOps \cup UpnpOps \cup HaOps \cup InternetOps \cup WanOps \cup VpnOps
===============================================================================

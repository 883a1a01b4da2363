------------------------------- MODULE FormsLan -------------------------------
(*****************************************************************************)
(* The operations of src/domains/ {portmaptime, vigbrg, vlan, msubnet,       *)
(* port, switch, swm, qos}.ts, and the commands each can build.              *)
(*****************************************************************************)
EXTENDS CommandForms

\* src/domains/portmaptime.ts: at least one timeout.
PortmaptimeOps == Under(<<"portmaptime">>, {
    Read("cli.portmaptime.l", {F("-l")}),
    Write("cli.portmaptime.f", {F("-f")}),
    Write("cli.portmaptime", Some(<<F("-t") \o PosInt, F("-u") \o PosInt, F("-i") \o PosInt,
                                    F("-w") \o PosInt, F("-s") \o PosInt>>))})

\* src/domains/vigbrg.ts
VigbrgOps == Under(<<"vigbrg">>, {
    Write("cli.vigbrg.set", {
        Say(<<"set">>) \o F("-v") \o N(4, 6) \o F("-w") \o N(1, 10) \o F("-l") \o N(1, 100)
        \o F("-e") \o Bit \o Opt(F("-f") \o Bit)}),
    Read("cli.vigbrg.status", {Say(<<"status">>)}),
    Read("cli.vigbrg.wanstatus", {Say(<<"wanstatus">>)}),
    Read("cli.vigbrg.wlanstatus", {Say(<<"wlanstatus">>)}),
    Write("cli.vigbrg.closeall", {Say(<<"closeall">>)}),
    Write("cli.vigbrg.cfgip", {Say(<<"cfgip">>) \o Ip})})

\* src/domains/vlan.ts
LanPort == One({"p1", "p2", "p3", "p4", "p5", "p6", "p7", "p8", "p9", "p10", "p11", "p12"})

VlanGroupOps == Under(<<"vlan">>, {
    Write("cli.vlan.group", After(Say(<<"group">>) \o N(0, 99), {
        Say(<<"show">>) \o Many(LanPort),
        One({"add", "add_ex", "set", "set_ex"}) \o LanPort \o Many(LanPort)})),
    Write("cli.vlan.off", {Say(<<"off">>)}),
    Write("cli.vlan.on", {Say(<<"on">>)}),
    Read("cli.vlan.status", {Say(<<"status">>)}),
    Write("cli.vlan.subnet", {Say(<<"subnet", "group_id">>) \o N(1, 100)})})

VlanTagOps == Under(<<"vlan">>, {
    Write("cli.vlan.tagged",
        {Say(<<"tagged">>) \o Or(N(0, 99), One({"unlimited", "p1_untag"})) \o OnOff}),
    Write("cli.vlan.vid", {Say(<<"vid">>) \o N(0, 7) \o N(0, 4095)}),
    Write("cli.vlan.sysvid", {Say(<<"sysvid">>) \o Or(N(0, 3828), One({"show"}))}),
    Write("cli.vlan.pri", {Say(<<"pri">>) \o N(0, 7) \o N(0, 7)}),
    Write("cli.vlan.restart", {Say(<<"restart">>)})})

VlanSubmodeOps == Under(<<"vlan">>, {
    Read("cli.vlan.submode.status", {Say(<<"submode", "status">>)}),
    Write("cli.vlan.submode.on", {Say(<<"submode", "on">>)}),
    Write("cli.vlan.submode.off", {Say(<<"submode", "off">>)}),
    Read("cli.vlan.map", {Say(<<"map">>)})})

\* src/domains/msubnet.ts
MsubnetSwitch == One({"On", "Off"})

MsubnetAddrOps == Under(<<"msubnet">>, {
    Write("cli.msubnet.switch", {Say(<<"switch">>) \o N(2, 100) \o MsubnetSwitch}),
    Write("cli.msubnet.addr", {Say(<<"addr">>) \o N(2, 100) \o Ip}),
    Write("cli.msubnet.nmask", {Say(<<"nmask">>) \o N(2, 100) \o Ip}),
    Read("cli.msubnet.status", {Say(<<"status">>) \o N(2, 100)}),
    Write("cli.msubnet.dhcps", {Say(<<"dhcps">>) \o N(2, 100) \o MsubnetSwitch})})

MsubnetNatOps == Under(<<"msubnet">>, {
    Write("cli.msubnet.nat", {Say(<<"nat">>) \o N(2, 100) \o MsubnetSwitch}),
    Write("cli.msubnet.gateway", {Say(<<"gateway">>) \o N(2, 100) \o Ip}),
    Write("cli.msubnet.ipcnt", {Say(<<"ipcnt">>) \o N(2, 100) \o N(0, 220)}),
    Write("cli.msubnet.talk", {Say(<<"talk">>) \o N(1, 100) \o N(1, 100) \o MsubnetSwitch}),
    Write("cli.msubnet.startip", {Say(<<"startip">>) \o N(2, 100) \o Ip})})

MsubnetServerOps == Under(<<"msubnet">>, {
    Write("cli.msubnet.pppip", {Say(<<"pppip">>) \o N(2, 100) \o Ip}),
    Write("cli.msubnet.nodetype",
        {Say(<<"nodetype">>) \o N(2, 100) \o N(t, t) : t \in {0, 1, 2, 4, 8}}),
    Write("cli.msubnet.primwins", {Say(<<"primWINS">>) \o N(2, 100) \o Ip}),
    Write("cli.msubnet.secwins", {Say(<<"secWINS">>) \o N(2, 100) \o Ip}),
    Write("cli.msubnet.tftp", {Say(<<"tftp">>) \o N(2, 100) \o Name})})

MsubnetMtuOps == Under(<<"msubnet">>, {
    Write("cli.msubnet.mtu", {
        Say(<<"mtu">>) \o Or(Kind("LAN"), One({"IP_Routed_Subnet", "DMZ"})) \o N(1000, 1508)}),
    Write("cli.msubnet.leasetime",
        {Say(<<"leasetime">>) \o N(1, 100) \o Opt(N(1, 259200))})})

\* src/domains/port.ts
PortSniffOps == Under(<<"port">>, {
    Read("cli.port.status", {Say(<<"status">>)}),
    Read("cli.port.sniff.status", {Say(<<"sniff", "status">>)}),
    Write("cli.port.sniff", After(Say(<<"sniff">>), {
        One({"on", "off", "restart"}),
        Say(<<"port">>) \o One({"p1", "p2", "p3", "p4"}),
        Say(<<"txrx">>) \o PosInt \o One({"p1", "p2", "p3", "p4"})}))})

Port8021xOps == Under(<<"port">>, {
    Read("cli.port.8021x.status", {Say(<<"802.1x", "status">>)}),
    Write("cli.port.8021x.enable", {Say(<<"802.1x", "enable">>)}),
    Write("cli.port.8021x.disable", {Say(<<"802.1x", "disable">>)}),
    Write("cli.port.8021x.addport", {Say(<<"802.1x", "addport">>) \o N(1, 5)}),
    Write("cli.port.8021x.delport", {Say(<<"802.1x", "delport">>) \o N(1, 5)}),
    Write("cli.port", {
        Or(N(1, 12), One({"all"})) \o One({"AN", "100F", "100H", "10F", "10H"}),
        One({"wan1", "wan2", "wan3", "wan4"})
        \o One({"AN", "1000F", "100F", "100H", "10F", "10H"})})})

\* src/domains/switch.ts
SwitchListOps == Under(<<"switch">>, {
    Read("cli.switch.status", {Say(<<"status">>)}),
    Write("cli.switch.on", {Say(<<"on">>)}),
    Write("cli.switch.off", {Say(<<"off">>)}),
    Read("cli.switch.list", {Say(<<"list">>)}),
    Read("cli.switch.query", {Say(<<"query">>)})})

SwitchSetOps == Under(<<"switch">>, {
    Write("cli.switch.i", {
        F("-i") \o N(1, 8) \o Say(<<"traffic">>) \o One({"on", "off", "status", "tx", "rx"})}),
    Write("cli.switch.notrespond", {Say(<<"not_respond">>) \o Bit}),
    Write("cli.switch.clear", {Say(<<"clear">>) \o Or(N(1, 8), F("-f"))}),
    Write("cli.switch.syslog", {Say(<<"syslog">>) \o OnOff})})

\* src/domains/swm.ts: a switch goes by its twelve hex digits, but in alerts.
SwitchMac == Kind("mac12")

SwmGroupOps == Under(<<"swm">>, {
    Read("cli.swm.show", {Say(<<"show">>) \o N(1, 12)}),
    Read("cli.swm.get", {Say(<<"get">>) \o SwitchMac}),
    Write("cli.swm.post", {Say(<<"post">>) \o SwitchMac}),
    Write("cli.swm.enable.disable", {One({"enable", "disable"})}),
    Write("cli.swm.group", After(Say(<<"group">>), {
        Say(<<"set">>) \o N(1, 10) \o Name \o N(1, 1) \o Name,
        Say(<<"set">>) \o N(1, 10) \o Name \o N(0, 0),
        Say(<<"show">>),
        One({"add", "delete"}) \o N(1, 10) \o SwitchMac}))})

SwmProfileOps == {
    Write("cli.swm.profile", After(Say(<<"swm", "profile">>), {
        Say(<<"show">>),
        One({"add", "delete", "enable_all", "disable_all"}) \o SwitchMac}))}

SwmDetailOps == {
    Write("cli.swm.detail", After(Say(<<"swm", "detail">>), {
        Say(<<"show">>),
        One({"comment", "name", "passwd"}) \o SwitchMac \o Name,
        Say(<<"config">>) \o SwitchMac \o NonNeg,
        Say(<<"port", "show">>) \o SwitchMac,
        Say(<<"port">>) \o SwitchMac \o N(1, 28) \o Name \o NonNeg \o NonNeg \o Name,
        Say(<<"rate">>) \o SwitchMac \o N(1, 28) \o One({"i", "e"})
        \o Or(PosInt, One({"e", "d"}))}))}

SwmSearchOps == Under(<<"swm">>, {
    Write("cli.swm.maintain", {
        Say(<<"maintain">>) \o One({"reboot", "reset"}) \o SwitchMac,
        Say(<<"maintain", "show">>)}),
    Write("cli.swm.search", {
        Say(<<"search", "mac">>) \o SwitchMac,
        Say(<<"search", "ip">>) \o Ip,
        Say(<<"search", "description">>) \o Text}),
    Write("cli.swm.db", {
        Say(<<"db", "ctl">>) \o One({"en", "dis", "show"}),
        Say(<<"db", "alert", "notify">>) \o One({"N", "S"}),
        Say(<<"db", "alert", "action">>) \o One({"S", "B"}),
        Say(<<"db", "alert">>) \o One({"sms", "mail"}) \o PosInt})})

SwmAlertOps == {
    Write("cli.swm.alert", After(Say(<<"swm", "alert">>), {
        One({"enable", "disable", "show", "display"}),
        One({"en", "dis"}) \o N(1, 8),
        Say(<<"set">>) \o N(1, 8) \o Say(<<"log">>) \o One({"e", "d"}),
        Say(<<"set">>) \o N(1, 8) \o Say(<<"name">>) \o Name,
        Say(<<"set">>) \o N(2, 8) \o Say(<<"color">>) \o One({"O", "R", "N"}),
        Say(<<"set">>) \o N(3, 8) \o Say(<<"notif">>) \o One({"e", "d"}),
        Say(<<"set">>) \o N(3, 8) \o Say(<<"obj">>) \o N(1, 4) \o N(1, 10),
        One({"en", "dis"}) \o One({"sw", "port"}) \o Mac,
        One({"sw", "port"}) \o Say(<<"show">>) \o Mac,
        Say(<<"set", "sw">>) \o Mac \o PosInt \o PosInt,
        Say(<<"set", "port">>) \o Mac \o PosInt \o PosInt \o PosInt}))}

SwmLogOps == Under(<<"swm">>, {
    Write("cli.swm.log", After(Say(<<"log">>), {
        Say(<<"show">>) \o One({"filter", "day", "week"}),
        Say(<<"set", "level">>) \o N(1, 8) \o OnOff,
        Say(<<"set", "type">>) \o N(1, 2) \o OnOff,
        Say(<<"set", "switch">>) \o SwitchMac \o OnOff})),
    Write("cli.swm.snmp", After(Say(<<"snmp">>), {
        One({"sys", "poe"}) \o SwitchMac,
        Say(<<"iftbl">>) \o SwitchMac \o N(1, 28),
        Say(<<"trpcom", "show">>) \o SwitchMac,
        Say(<<"trpcom", "set">>) \o SwitchMac \o Name}))})

\* src/domains/qos.ts
QosSetupOps == {
    Write("cli.qos.setup", After(Say(<<"qos", "setup">>), Some(
        <<F("-W") \o N(1, 12), F("-m") \o N(0, 3), F("-i") \o N(1, 100000),
          F("-o") \o N(1, 100000), F("-r") \o Kind("ratio"), F("-u") \o Bit,
          F("-p") \o N(0, 100), F("-t") \o Bit, F("-V"), F("-I") \o PosInt,
          F("-O") \o PosInt, F("-v") \o Bit>>)))}

QosAddress == Or(Ip, Kind("ipv4 pair"))

QosClassOps == Under(<<"qos">>, {
    Write("cli.qos.class", After(Say(<<"class">>) \o F("-c") \o N(1, 3), {
        Opt(F("-n") \o Name) \o F("-a") \o AnyOf(<<F("-m") \o Bit, F("-l") \o QosAddress>>),
        Opt(F("-n") \o Name) \o F("-e") \o PosInt
        \o AnyOf(<<F("-m") \o Bit, F("-l") \o QosAddress>>),
        F("-d") \o PosInt})),
    Write("cli.qos.type", {
        Say(<<"type">>) \o F("-a") \o Name \o F("-t") \o N(1, 254)
        \o F("-p") \o Kind("port range")}),
    Write("cli.qos.voip", {Say(<<"voip">>) \o OnOff}),
    Destructive("cli.qos.setdefault", {Say(<<"setdefault">>)})})

LanOps ==
    PortmaptimeOps \cup VigbrgOps \cup VlanGroupOps \cup VlanTagOps \cup VlanSubmodeOps
    \cup MsubnetAddrOps \cup MsubnetNatOps \cup MsubnetServerOps \cup MsubnetMtuOps
    \cup PortSniffOps \cup Port8021xOps \cup SwitchListOps \cup SwitchSetOps \cup SwmGroupOps
    \cup SwmProfileOps \cup SwmDetailOps \cup SwmSearchOps \cup SwmAlertOps \cup SwmLogOps
    \cup QosSetupOps \cup QosClassOps
===============================================================================

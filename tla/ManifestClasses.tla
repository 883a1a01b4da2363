---------------------------- MODULE ManifestClasses ----------------------------
(***************************************************************************)
(* The class of every CLI entry of the capability manifest, as              *)
(* tools/manifest/classify.ts puts it together from the hand-written tables *)
(* of classification-data.ts, split-families.ts and recon.ts.  The tables   *)
(* were written apart from the operations of src/domains, which carry a     *)
(* class of their own.                                                      *)
(*                                                                          *)
(* An entry is named by its id. A heading that is not split is named by the *)
(* id its title slugs to, where the code looks families up by the title's    *)
(* first variant.                                                           *)
(***************************************************************************)
EXTENDS TLC

\* Entries with the class each is given.
Classed(reads, writes, destructives) ==
    [id \in reads \cup writes \cup destructives |->
        CASE id \in reads        -> "read"
          [] id \in writes       -> "write"
          [] id \in destructives -> "destructive"]

(***************************************************************************)
(* SPLIT_FAMILIES: headings that document several commands, from the first   *)
(* to the last of each definition's name.                                    *)
(***************************************************************************)
IpfSetToLocal8021x == Classed(
    {"cli.hsportal.info", "cli.hsportal.level", "cli.local8021x"},
    {"cli.ipf.set", "cli.ipf.set.rule", "cli.ddns.set", "cli.ddns.set.update",
     "cli.hsportal.info.set", "cli.hsportal.level.set",
     "cli.hsportal.level.delete", "cli.local8021x.enable",
     "cli.local8021x.method"},
    {"cli.hsportal.info.clear"})

WolToShowStatistic == Classed(
    {"cli.show.traffic", "cli.show.traffic.wan", "cli.show.traffic.ip",
     "cli.show.traffic.session", "cli.show.clienttraffic",
     "cli.show.clienttraffic.device", "cli.show.statistic"},
    {"cli.wol", "cli.wol.fromwan", "cli.wol.fromwansetting",
     "cli.show.traffic.ipstats", "cli.show.statistic.reset"},
    {})

ServiceToWanBudget == Classed(
    {"cli.service", "cli.service.refresh", "cli.wan.lb.status",
     "cli.wan.vlan.stat", "cli.wan.budget.status"},
    {"cli.service.login", "cli.service.transferowner", "cli.wan.lb",
     "cli.wan.lb.mode", "cli.wan.vlan", "cli.wan.budget"},
    {"cli.service.transfer", "cli.service.clear"})

CsmDnsfToObjectIpGrp == Classed(
    {"cli.csm.dnsf.localbw.show", "cli.vpn.list", "cli.vpn.list.profile",
     "cli.vpn.remote", "cli.object.ip.obj", "cli.object.ip.grp.view"},
    {"cli.csm.dnsf", "cli.csm.dnsf.localbw.set", "cli.vpn.remote.set",
     "cli.object.ip.obj.set", "cli.object.ip.grp", "cli.object.ip.grp.set"},
    {"cli.csm.dnsf.localbw.clear", "cli.object.ip.obj.setdefault",
     "cli.object.ip.grp.setdefault"})

ObjectIpv6ObjToObjectCountry == Classed(
    {"cli.object.ipv6.obj.view", "cli.object.ipv6.grp.view",
     "cli.object.country.view", "cli.object.country.list"},
    {"cli.object.ipv6.obj", "cli.object.ipv6.obj.set", "cli.object.ipv6.grp",
     "cli.object.ipv6.grp.set", "cli.object.country",
     "cli.object.country.set", "cli.object.country.activate"},
    {"cli.object.ipv6.obj.setdefault", "cli.object.ipv6.grp.setdefault",
     "cli.object.country.setdefault"})

ObjectServiceObjToObjectKw == Classed(
    {"cli.object.service.obj", "cli.object.service.grp.view",
     "cli.object.kw.show", "cli.object.kw.view"},
    {"cli.object.service.obj.set", "cli.object.service.grp",
     "cli.object.service.grp.set", "cli.object.kw", "cli.object.kw.set"},
    {"cli.object.service.obj.setdefault", "cli.object.service.grp.setdefault",
     "cli.object.kw.setdefault"})

ObjectFeToObjectMail == Classed(
    {"cli.object.fe.show", "cli.object.fe.view", "cli.object.sms.show",
     "cli.object.sms.view", "cli.object.mail.show", "cli.object.mail.view"},
    {"cli.object.fe", "cli.object.fe.set", "cli.object.sms",
     "cli.object.sms.set", "cli.object.mail", "cli.object.mail.set"},
    {"cli.object.fe.setdefault", "cli.object.sms.setdefault",
     "cli.object.mail.setdefault"})

ObjectNotiToSysPollbuf == Classed(
    {"cli.object.noti.show", "cli.object.noti.view",
     "cli.object.schedule.view", "cli.sys.pollbuf"},
    {"cli.object.noti", "cli.object.noti.set", "cli.object.schedule",
     "cli.object.schedule.set", "cli.sys.pollbuf.on", "cli.sys.pollbuf.off"},
    {"cli.object.noti.setdefault", "cli.object.schedule.setdefault"})

SysTimeToSysCfg == Classed(
    {"cli.sys.time", "cli.sys.time.show", "cli.sys.dashboard",
     "cli.sys.dashboard.show", "cli.sys.maxsession", "cli.sys.cfg.status"},
    {"cli.sys.time.inquire", "cli.sys.time.server", "cli.sys.time.wan",
     "cli.sys.time.zone", "cli.sys.time.pseudo", "cli.sys.dashboard.set",
     "cli.sys.maxsession.set"},
    {"cli.sys.cfg.default"})

MngtRmtcfg == Classed(
    {"cli.mngt.rmtcfg.status"},
    {"cli.mngt.rmtcfg.disable", "cli.mngt.rmtcfg.protocol"},
    {"cli.mngt.rmtcfg.enable"})

Linux == Classed(
    {"cli.linux.status", "cli.linux.service.ssh.status",
     "cli.linux.service.telnet.status", "cli.linux.syslog.status",
     "cli.linux.ring.debug"},
    {"cli.linux.setlinuxip", "cli.linux.service.ssh.enable",
     "cli.linux.service.ssh.disable", "cli.linux.service.ssh.setport",
     "cli.linux.service.telnet.enable", "cli.linux.service.telnet.disable",
     "cli.linux.service.telnet.setport", "cli.linux.syslog.enable",
     "cli.linux.syslog.disable", "cli.linux.clean.a", "cli.linux.clean.b",
     "cli.linux.clean.d", "cli.linux.ring.set", "cli.linux.ring.send",
     "cli.linux.ring.clean", "cli.linux.ring.test"},
    {"cli.linux.clean.o", "cli.linux.clean.w"})

DosToPortmaptime == Classed(
    {"cli.dos.v", "cli.dos.p.show", "cli.dos.b.show", "cli.internet.v",
     "cli.port.status", "cli.port.sniff.status", "cli.port.8021x.status",
     "cli.portmaptime.l"},
    {"cli.dos.a", "cli.dos.d", "cli.dos", "cli.internet", "cli.port.sniff",
     "cli.port.8021x.enable", "cli.port.8021x.disable",
     "cli.port.8021x.addport", "cli.port.8021x.delport", "cli.port",
     "cli.portmaptime.f", "cli.portmaptime"},
    {})

RadiusInternalToAppqos == Classed(
    {"cli.radius.show", "cli.radius.external.view",
     "cli.radius.external.viewprofile", "cli.radius.external.log",
     "cli.appqos.view", "cli.appqos.traceable.v", "cli.appqos.untraceable.v"},
    {"cli.radius.enable", "cli.radius.authport", "cli.radius.setauthmethod",
     "cli.radius.client.add", "cli.radius.client.del",
     "cli.radius.enabledot1x", "cli.radius.setdot1xmethod",
     "cli.radius.external", "cli.appqos.enable", "cli.appqos.traceable.e",
     "cli.appqos.traceable.d", "cli.appqos.untraceable.e",
     "cli.appqos.untraceable.d"},
    {})

ApmEnableToApmLbcfg == Classed(
    {"cli.apm.show", "cli.apm.discover", "cli.apm.query",
     "cli.apm.profile.summary", "cli.apm.profile.show", "cli.apm.cache.show",
     "cli.apm.lbcfg.show"},
    {"cli.apm.enable", "cli.apm.disable", "cli.apm.clear",
     "cli.apm.profile.clone", "cli.apm.profile.del", "cli.apm.profile.reset",
     "cli.apm.profile.apply", "cli.apm.cache.clear", "cli.apm.lbcfg.set"},
    {})

IpIgmpProxyToIpDataflowmonitor == Classed(
    {"cli.ip.igmpproxy.status", "cli.ip.igmpsnoop.status",
     "cli.ip.igmpsnoop.table", "cli.ip.dataflowmonitor.status"},
    {"cli.ip.igmpproxy.set", "cli.ip.igmpproxy.reset", "cli.ip.igmpproxy.wan",
     "cli.ip.igmpproxy.query", "cli.ip.igmpproxy.ppp",
     "cli.ip.igmpproxy.version", "cli.ip.igmpproxy.syslog",
     "cli.ip.igmpsnoop.enable", "cli.ip.igmpsnoop.disable",
     "cli.ip.igmpsnoop.txquery", "cli.ip.igmpsnoop.mode",
     "cli.ip.igmpsnoop.chkleave", "cli.ip.igmpsnoop.separate",
     "cli.ip.igmpsnoop.portchk", "cli.ip.igmpsnoop.acceptlist",
     "cli.ip.dataflowmonitor.on", "cli.ip.dataflowmonitor.off"},
    {})

IpBgpToIp6Ntp == Classed(
    {"cli.ip.bgp.show", "cli.ip.bgp.neighbor.show", "cli.ip.bgp.static.show",
     "cli.ip.ospf.status", "cli.ip.ospf.cfg.show", "cli.ip.ospf.nbr",
     "cli.ipf.flowtrack.view", "cli.ip6.neigh.a", "cli.ip6.ntp.v"},
    {"cli.ip.bgp", "cli.ip.ospf.en", "cli.ip.ospf.dis", "cli.ip.ospf.cfg.set",
     "cli.ipf.flowtrack.set", "cli.ip6.neigh.s", "cli.ip6.neigh.d",
     "cli.ip6.ntp.p"},
    {})

SrvDhcpPublicToVpnMroute == Classed(
    {"cli.srv.dhcp.public.status", "cli.usb.user.list",
     "cli.vlan.submode.status", "cli.vpn.mroute.list"},
    {"cli.srv.dhcp.public.start", "cli.srv.dhcp.public.cnt",
     "cli.srv.dhcp.public.add", "cli.srv.dhcp.public.del", "cli.usb.user.rm",
     "cli.usb.user.enable", "cli.usb.user.disable", "cli.vlan.submode.on",
     "cli.vlan.submode.off", "cli.vpn.mroute.add", "cli.vpn.mroute.del",
     "cli.vpn.mroute.addmsa", "cli.vpn.mroute.delmsa"},
    {})

VpnMssToWanMultifno == Classed(
    {"cli.vpn.mss.show", "cli.vpn.fromlan.status", "cli.wan.lbel.status",
     "cli.wan.multifno.status"},
    {"cli.vpn.mss.default", "cli.vpn.mss.set", "cli.vpn.fromlan.enable",
     "cli.vpn.fromlan.disable", "cli.vpn.fromlan.add",
     "cli.vpn.fromlan.remove", "cli.wan.lbel", "cli.wan.multifno"},
    {})

LogToIpArp == Classed(
    {"cli.log.c", "cli.log.f", "cli.log.t", "cli.log.w", "cli.log.p",
     "cli.log.x", "cli.log.h", "cli.ip.arp"},
    {"cli.log.F", "cli.ip.arp.add", "cli.ip.arp.del", "cli.ip.arp.flush",
     "cli.ip.arp.accept", "cli.ip.arp.setcachelife"},
    {})

IpRouteToIpSession == Classed(
    {"cli.ip.route", "cli.ip.route.cnc", "cli.ip.route.tel", "cli.ip.session"},
    {"cli.ip.route.add", "cli.ip.route.del", "cli.ip.session.on",
     "cli.ip.session.off", "cli.ip.session.add", "cli.ip.session.del",
     "cli.ip.session.default", "cli.ip.session.defaultp2p",
     "cli.ip.session.timer", "cli.ip.session.block", "cli.ip.session.unblock"},
    {"cli.ip.route.default", "cli.ip.route.clean"})

WanDetect == Classed(
    {"cli.wan.detect"},
    {"cli.wan.detect.mode", "cli.wan.detect.target", "cli.wan.detect.target2",
     "cli.wan.detect.targetgw", "cli.wan.detect.ttl",
     "cli.wan.detect.interval", "cli.wan.detect.retry"},
    {})

SplitFamilies ==
    IpfSetToLocal8021x @@ WolToShowStatistic @@ ServiceToWanBudget
    @@ CsmDnsfToObjectIpGrp @@ ObjectIpv6ObjToObjectCountry
    @@ ObjectServiceObjToObjectKw @@ ObjectFeToObjectMail
    @@ ObjectNotiToSysPollbuf @@ SysTimeToSysCfg @@ MngtRmtcfg @@ Linux
    @@ DosToPortmaptime @@ RadiusInternalToAppqos @@ ApmEnableToApmLbcfg
    @@ IpIgmpProxyToIpDataflowmonitor @@ IpBgpToIp6Ntp
    @@ SrvDhcpPublicToVpnMroute @@ VpnMssToWanMultifno @@ LogToIpArp
    @@ IpRouteToIpSession @@ WanDetect

(***************************************************************************)
(* LIVE_FIRMWARE_RECON_COMMANDS: commands the manual does not have.          *)
(***************************************************************************)
ReconRows1 == Classed(
    {"cli.show.cpu", "cli.show.memory", "cli.show.cocpu", "cli.show.cputemp",
     "cli.show.flow", "cli.show.voip", "cli.show.qryrdsl", "cli.sys.info",
     "cli.sys.appstatistic", "cli.sys.appbandwidth", "cli.fs.ls",
     "cli.fs.info", "cli.fs.pwd", "cli.dpdk.statistic", "cli.dpdk.cmdlog",
     "cli.vrrp.show", "cli.usb.disk", "cli.vpn.graph", "cli.srv.nat.view"},
    {"cli.vrrp.enable", "cli.vrrp.set", "cli.vrrp.apply", "cli.vrrp.reset"},
    {})

ReconRows2 == Classed(
    {"cli.ddns.show.all", "cli.ip.session.list",
     "cli.local8021x.showlocalcer", "cli.fs.cat", "cli.vpn.dpdkctrl.dump",
     "cli.vpn.wg.show"},
    {"cli.local8021x.cerset", "cli.fs.mkfile", "cli.fs.mkdir", "cli.fs.ren",
     "cli.fs.cd", "cli.fs.cp", "cli.fs.test", "cli.vpn.udp",
     "cli.vpn.passapm", "cli.vpn.dpdkctrl.set"},
    {"cli.fs.format", "cli.fs.rm", "cli.vpn.dpdkctrl.flush"})

ReconRows3 == Classed(
    {"cli.mngt.lbinterface.status", "cli.wan.detect2.show",
     "cli.wan.detect2.result", "cli.wan.lbweight.status"},
    {"cli.vpn.wg.enable", "cli.vpn.wg.interface", "cli.vpn.wg.peer",
     "cli.mngt.ssholdkex", "cli.mngt.nosecurel2tpmngt",
     "cli.mngt.validationcode", "cli.mngt.lbinterface", "cli.wan.dpdkport",
     "cli.wan.detect2", "cli.wan.lbweight", "cli.wan.voipdect"},
    {"cli.vpn.wg.keygen", "cli.vpn.wg.keyset", "cli.wan.drop"})

ReconRows4 == Classed(
    {"cli.wan.voipdect.view", "cli.wan.voipdect.rtp",
     "cli.wan.phymode.status", "cli.sys.ipfixnetflow.status",
     "cli.ip.igmpfl.status", "cli.ipf.hashanalysis", "cli.show.ping",
     "cli.usb.ftpusage", "cli.vlan.map", "cli.radius.showlocalcer"},
    {"cli.sys.pwenc", "cli.sys.con2tel", "cli.sys.mpage",
     "cli.sys.ipfixnetflow", "cli.ip.igmpfl"},
    {"cli.wan.phymode", "cli.ipf.default", "cli.qos.setdefault"})

LiveFirmwareRecon == ReconRows1 @@ ReconRows2 @@ ReconRows3 @@ ReconRows4

(***************************************************************************)
(* Headings with one entry: the family they belong to, and two overlays.     *)
(***************************************************************************)
ReadOnlyFamilies ==
    {"cli.show.status", "cli.show.lan", "cli.show.dmz", "cli.show.dns",
     "cli.show.openport", "cli.show.nat", "cli.show.portmap",
     "cli.show.pmtime", "cli.show.session", "cli.show.traffic",
     "cli.show.clienttraffic", "cli.show.statistic", "cli.sys.version",
     "cli.sys.cmdlog", "cli.sys.cc", "cli.sys.qrybuf", "cli.sys.health",
     "cli.wan.status", "cli.ip.ping", "cli.ip.tracert", "cli.ip6.ping",
     "cli.ip6.tracert"}

WriteFamilies ==
    {"cli.sys.passwd", "cli.sys.autoreboot", "cli.sys.commit", "cli.sys.name",
     "cli.sys.domainname", "cli.sys.tftpd", "cli.sys.syslog",
     "cli.sys.mailalert", "cli.sys.webhook", "cli.sys.tr069",
     "cli.sys.license", "cli.sys.alg", "cli.mngt.sshport",
     "cli.mngt.telnetport", "cli.mngt.httpport", "cli.mngt.httpsport",
     "cli.mngt.ftpport", "cli.mngt.sslvpnport", "cli.mngt.accesslist",
     "cli.mngt.wanlogin", "cli.mngt.bfp", "cli.mngt.snmp", "cli.mngt.noping",
     "cli.mngt.echoicmp", "cli.mngt.defenseworm", "cli.mngt.telnettimeout",
     "cli.mngt.sshtimeout", "cli.wan.enable", "cli.wan.disable",
     "cli.wan.mtu.mtu2", "cli.wan.pppmru", "cli.wan.dns", "cli.wan.detectmtu",
     "cli.wan.detectmtu6", "cli.wan.lb", "cli.wan.failover",
     "cli.wan.forward", "cli.wan.vlan", "cli.wan.mvlan", "cli.wan.budget",
     "cli.srv.dhcp.on", "cli.srv.dhcp.off", "cli.srv.dhcp.dns1",
     "cli.srv.dhcp.dns2", "cli.srv.dhcp.gateway", "cli.srv.dhcp.startip",
     "cli.srv.dhcp.leasetime", "cli.srv.dhcp.status", "cli.srv.dhcp.relay",
     "cli.srv.nat.dmz", "cli.srv.nat.openport", "cli.srv.nat.portmap",
     "cli.srv.nat.trigger", "cli.ip.addr", "cli.ip.nmask", "cli.ip.pubaddr",
     "cli.ip.lanalias", "cli.ip.dhcpc", "cli.ip.bindmac", "cli.ip.bandwidth",
     "cli.vlan.group", "cli.vlan.on", "cli.vlan.off", "cli.vlan.status",
     "cli.vlan.vid", "cli.vlan.subnet", "cli.vlan.tagged", "cli.vlan.sysvid"}

\* The headings of the families written with an ellipsis: mngt lanaccess, msubnet.
WriteFamilyPrefixes ==
    {"cli.mngt.lanaccess", "cli.msubnet.switch", "cli.msubnet.addr",
     "cli.msubnet.nmask", "cli.msubnet.status", "cli.msubnet.dhcps",
     "cli.msubnet.nat", "cli.msubnet.gateway", "cli.msubnet.ipcnt",
     "cli.msubnet.talk", "cli.msubnet.startip", "cli.msubnet.pppip",
     "cli.msubnet.nodetype", "cli.msubnet.primwins", "cli.msubnet.secwins",
     "cli.msubnet.tftp", "cli.msubnet.mtu", "cli.msubnet.leasetime"}

DangerListFamilies == {"cli.sys.reboot"}

\* Headings that are left unclassified and blocked.
SessionMetaFamilies == {"cli.exit", "cli.quit"}
DocumentationBlockedFamilies ==
    {"cli.hsportal.pingen", "cli.ip.telnet", "cli.ipf.flowtest",
     "cli.sys.admin"}

SiblingLiveVerified == Classed(
    {"cli.csm.appe.show", "cli.ddns.log", "cli.ddns.show", "cli.ip.landnsres",
     "cli.ip.dnsforward", "cli.ipf.view", "cli.ldap.view",
     "cli.tacacsplus.view", "cli.object.ip.obj", "cli.object.service.obj",
     "cli.switch.status", "cli.switch.list", "cli.switch.query",
     "cli.sys.pollbuf", "cli.sys.frlog", "cli.sys.dnscachetbl",
     "cli.sys.time", "cli.sys.dashboard", "cli.sys.maxsession",
     "cli.upnp.nat", "cli.usb.devstat", "cli.usb.temp", "cli.vigbrg.status",
     "cli.vigbrg.wanstatus", "cli.vigbrg.wlanstatus", "cli.vpn.list",
     "cli.vpn.remote", "cli.hsportal.info", "cli.hsportal.level",
     "cli.local8021x", "cli.nand.bad.nand.usage", "cli.apm.stanum",
     "cli.ha.show", "cli.ha.status", "cli.swm.show", "cli.swm.get",
     "cli.service", "cli.msubnet.status", "cli.srv.dhcp.status",
     "cli.vlan.status", "cli.wan.detectmtu", "cli.wan.detectmtu6"},
    {"cli.csm.appe.set", "cli.csm.ucf", "cli.csm.ucf.obj.index.uac",
     "cli.csm.ucf.obj.index.eac", "cli.csm.ucf.obj.index.wf", "cli.csm.wcf",
     "cli.csm.dnsf", "cli.ddns.enable", "cli.ddns.forceupdate",
     "cli.ip6.addr", "cli.ip6.mngt", "cli.ipf.set", "cli.ipf.rule",
     "cli.ldap.user", "cli.ldap.set", "cli.tacacsplus.set", "cli.qos.setup",
     "cli.qos.class", "cli.switch.on", "cli.switch.off", "cli.testmail",
     "cli.upnp.off", "cli.upnp.on", "cli.vigbrg.set", "cli.vpn.setup",
     "cli.vpn.ovpn", "cli.vpn.dialout", "cli.hsportal.setup", "cli.wol",
     "cli.user", "cli.ha.set", "cli.swm.post", "cli.swm.enable.disable",
     "cli.swm.group", "cli.swm.profile", "cli.swm.detail", "cli.swm.maintain",
     "cli.swm.search", "cli.swm.db", "cli.swm.alert", "cli.swm.log",
     "cli.swm.snmp"},
    {})

DocumentationSyntax == Classed(
    {"cli.csm.appe.config", "cli.ip6.tspc", "cli.ip6.online",
     "cli.srv.nat.status", "cli.srv.nat.showall", "cli.sys.iface",
     "cli.upnp.service", "cli.upnp.subscribe", "cli.upnp.tmpvs",
     "cli.vpn.ike", "cli.apm.syslog", "cli.apm.apsyslog"},
    {"cli.switch.i", "cli.csm.appe.prof", "cli.ddns.set", "cli.ddns.time",
     "cli.ddns.setdefault", "cli.ip.pubsubnet", "cli.ip.pubmask",
     "cli.ip.rip", "cli.ip.wanrip", "cli.ip.maxnatuser", "cli.ip.policyrt",
     "cli.ip.spoofdef", "cli.ip6.dhcp.reqopt", "cli.ip6.dhcp.client",
     "cli.ip6.dhcp.server", "cli.ip6.dhcp.optionc", "cli.ip6.dhcp.options",
     "cli.ip6.internet", "cli.ip6.pneigh", "cli.ip6.route", "cli.ip6.radvd",
     "cli.ip6.aiccu", "cli.ip6.lan", "cli.ip6.session", "cli.ip6.bandwidth",
     "cli.mngt.certimport", "cli.mngt.ip6iids", "cli.object.ip.grp",
     "cli.object.ipv6.obj", "cli.object.ipv6.grp", "cli.object.country",
     "cli.object.service.grp", "cli.object.kw", "cli.object.fe",
     "cli.object.sms", "cli.object.mail", "cli.object.noti",
     "cli.object.schedule", "cli.qos.type", "cli.qos.voip",
     "cli.srv.dhcp.dhcp2", "cli.srv.dhcp.frcdnsmanl", "cli.srv.dhcp.ipcnt",
     "cli.srv.dhcp.nodetype", "cli.srv.dhcp.primwins", "cli.srv.dhcp.secwins",
     "cli.srv.dhcp.expiredrecycleip", "cli.srv.dhcp.tftp",
     "cli.srv.dhcp.tftpdel", "cli.srv.dhcp.option", "cli.srv.nat.ipsecpass",
     "cli.srv.nat.pseudoctl", "cli.srv.nat.rsttimeout",
     "cli.switch.notrespond", "cli.switch.clear", "cli.switch.syslog",
     "cli.sys.adminuser", "cli.sys.board", "cli.sys.bonjour", "cli.sys.ftpd",
     "cli.sys.sipalg", "cli.sys.rtspalg", "cli.sys.arpautoreq",
     "cli.sys.daylightsave", "cli.sys.eaptls", "cli.upnp.wan",
     "cli.vigbrg.closeall", "cli.vigbrg.cfgip", "cli.vlan.pri",
     "cli.vlan.restart", "cli.vpn.l2lset", "cli.vpn.l2ldrop",
     "cli.vpn.l2ldialout", "cli.vpn.dinset", "cli.vpn.subnet",
     "cli.vpn.option", "cli.vpn.trunk", "cli.vpn.netbios",
     "cli.vpn.multicast", "cli.vpn.pass2nd", "cli.vpn.pass2nat",
     "cli.vpn.samesubnet", "cli.vpn.mirror", "cli.vpn.isolate", "cli.vpn.mfa",
     "cli.wan.dfcheck"},
    {})

\* classifyCliCommand: danger first, then what is blocked, then reads, then
\* writes. A heading that is in none of them stays unclassified.
FamilyClasses ==
    Classed({}, {}, DangerListFamilies)
    @@ [id \in SessionMetaFamilies \cup DocumentationBlockedFamilies |-> "unknown"]
    @@ Classed(ReadOnlyFamilies, {}, {})
    @@ Classed({}, WriteFamilies \cup WriteFamilyPrefixes, {})

\* Mutant of Classification: the families are looked up before the overlays.
ClassificationByFamily ==
    SplitFamilies @@ LiveFirmwareRecon
    @@ FamilyClasses @@ SiblingLiveVerified @@ DocumentationSyntax

\* buildCliEntriesForHeading and buildLiveFirmwareReconEntries: what a live
\* router has shown overrides the manual's syntax, and that the family tables;
\* a split heading consults none of the three.
Classification ==
    SplitFamilies @@ LiveFirmwareRecon
    @@ SiblingLiveVerified @@ DocumentationSyntax @@ FamilyClasses
===============================================================================

---------------------------- MODULE ConsoleForms ----------------------------
(***************************************************************************)
(* The forms of the web console in which a record is edited or made: what  *)
(* can be entered in each, what its functions do, and the functions of the *)
(* actions they call.  ConsoleForm is their behaviour.                     *)
(***************************************************************************)

(* Inputs: open ones can be used while a request runs, guarded ones are    *)
(* disabled; quiet ones change the copy without marking it as changed.     *)
Ins(open, guarded, quiet) ==
    [open |-> open, guarded |-> guarded, quiet |-> quiet]

(* The constructor and set, what an edit starts from.                      *)
(*   base     "props": the record, unless the copy has changes; "settings" *)
(*            and "store": a copy taken whenever the store changes, which  *)
(*            ends the changes or not; "new": a copy of its own            *)
(*   clears   set takes the message away                                   *)
(*   inplace  fields edited in the record itself                           *)
(*   paged    the form is in a row of a list that has pages and a filter   *)
OnProps == [base |-> "props", clears |-> FALSE, inplace |-> {}, paged |-> FALSE]
InRow   == [OnProps EXCEPT !.paged = TRUE]

(* onSave.                                                                 *)
(*   timers   timeouts after a save: give up the copy ("drop"), take the   *)
(*            message away ("clear"), "both", or enable the form "again"   *)
(*   says     the message                                                  *)
(*   gate     the button needs changes, or only a copy                     *)
(*   locks    nothing can be done in the form after it                     *)
(*   enter    the Enter key calls it too, and tests nothing                *)
RowSave ==
    [timers |-> {"drop", "clear"}, says |-> "saved", gate |-> "changed",
     locks |-> FALSE, enter |-> FALSE]
CardSave   == [RowSave EXCEPT !.timers = {"both"}]
PageSave   == [RowSave EXCEPT !.timers = {}]
CreateSave == [RowSave EXCEPT !.timers = {"again"}, !.says = "created"]

(* The other buttons: to delete the record, and one more.                  *)
NoButtons == [deletes |-> FALSE, acts |-> "none"]
Deletes   == [NoButtons EXCEPT !.deletes = TRUE]

(* The actions: whether the answer to commit goes to the store.            *)
Commits == [answers |-> FALSE]
Answers == [answers |-> TRUE]

Form(inputs, lists, edit, save, buttons, writes) ==
    [open |-> inputs.open, guarded |-> inputs.guarded, quiet |-> inputs.quiet,
     lists |-> UNION lists,
     base |-> edit.base, clears |-> edit.clears, inplace |-> edit.inplace,
     paged |-> edit.paged,
     timers |-> save.timers, says |-> save.says, gate |-> save.gate,
     locks |-> save.locks, enter |-> save.enter,
     deletes |-> buttons.deletes, acts |-> buttons.acts,
     answers |-> writes.answers]
-----------------------------------------------------------------------------

(* Authority *)
AuthorityLists == {"roles", "network_roles"}
AuthorityEdit == InRow
AuthoritySave == RowSave
AuthorityInputs ==
    Ins({"name", "comment", "type", "key", "certificate"}, {"roles",
        "network_roles", "organization"}, {})
AuthorityButtons == Deletes

(* Balancer *)
BalancerEdit == InRow
BalancerBackends == {"backends"}
BalancerDomains == {"domains"}
BalancerSave == RowSave
BalancerButtons == Deletes
BalancerInputs ==
    Ins({"domains", "backends", "name", "comment", "type", "check_path"},
        {"certificates", "state", "datacenter", "websockets",
        "organization"}, {})

(* Block *)
BlockEdit == OnProps
BlockSave == CardSave
BlockButtons == Deletes
BlockSubnets == {"subnets", "subnets6"}
BlockExcludes == {"excludes"}
BlockInputs ==
    Ins({"comment"}, {"subnets", "subnets6", "excludes", "name", "type",
        "netmask", "gateway", "gateway6"}, {})

(* Certificate *)
CertificateEdit == OnProps
CertificateSave == CardSave
CertificateButtons == Deletes
CertificateDomains == {"acme_domains"}
CertificateInputs ==
    Ins({"name", "comment", "key", "certificate"}, {"type", "organization",
        "acme_domains"}, {})

(* Datacenter *)
DatacenterEdit == OnProps
DatacenterSave == CardSave
DatacenterButtons == Deletes
DatacenterInputs ==
    Ins({"organizations", "comment", "match_organizations"},
        {"public_storages", "name", "private_storage",
        "private_storage_class", "backup_storage", "backup_storage_class"},
        {})

(* Device *)
DeviceEdit == OnProps
DeviceSave ==
    [CardSave EXCEPT !.says = "none", !.gate = "copy", !.enter = TRUE]
DeviceButtons == [Deletes EXCEPT !.acts = "test"]
DeviceInputs == Ins({"name"}, {}, {})

(* Disk *)
DiskEdit == InRow
DiskSave == RowSave
DiskButtons == [Deletes EXCEPT !.acts = "restore"]
DiskInputs ==
    Ins({"name", "comment"}, {"instance", "index", "delete_protection",
        "new_size", "backup"}, {})

(* Domain *)
DomainEdit == InRow
DomainSave == RowSave
DomainButtons == Deletes
DomainInputs ==
    Ins({"name", "comment", "type", "aws_id", "aws_secret"}, {}, {})

(* Firewall *)
FirewallEdit == InRow
FirewallRoles == {"network_roles"}
FirewallIngress == {"ingress"}
FirewallSave == RowSave
FirewallButtons == Deletes
FirewallInputs ==
    Ins({"ingress", "name", "comment"}, {"network_roles", "organization"},
        {})

(* Image *)
ImageEdit == InRow
ImageSave == RowSave
ImageButtons == Deletes
ImageInputs == Ins({"name", "comment"}, {}, {})

(* Instance *)
InstanceEdit == InRow
InstanceRoles == {"network_roles"}
InstanceDrives == {"drive_devices"}
InstanceIsos == {"isos"}
InstanceUsb == {"usb_devices"}
InstancePci == {"pci_devices"}
InstanceIscsi == {"iscsi_devices"}
InstanceSave == RowSave
InstanceButtons == [Deletes EXCEPT !.acts = "operate"]
InstanceInputs ==
    Ins({"iscsi_devices", "name", "comment", "no_public_address",
        "no_host_address"}, {"network_roles", "drive_devices", "isos",
        "usb_devices", "pci_devices", "memory", "processors", "vpc",
        "subnet", "oracle_subnet", "domain", "root_enabled", "vnc", "spice",
        "gui", "uefi", "secure_boot", "delete_protection",
        "skip_source_dest_check"}, {})

(* Node *)
NodeEdit == InRow
NodeTypes == {"types"}
NodeRoles == {"network_roles"}
NodeSave == CardSave
NodeButtons == [Deletes EXCEPT !.acts = "operate"]
NodeSubnets == {"oracle_subnets"}
NodeBlocks == {"blocks", "blocks6"}
NodeDrives == {"blocks6", "instance_drives"}
NodeInputs ==
    Ins({"blocks", "blocks6", "comment", "forwarded_proto_header"},
        {"external_interfaces", "internal_interfaces", "oracle_subnets",
        "instance_drives", "certificates", "network_roles", "name", "types",
        "admin_domain", "user_domain", "webauthn_domain", "protocol",
        "port", "no_redirect_server", "zone", "network_mode",
        "network_mode6", "host_block", "host_nat", "oracle_host_route",
        "oracle_user", "oracle_public_key", "jumbo_frames", "iscsi",
        "pci_passthrough", "usb_passthrough", "hugepages", "hugepages_size",
        "firewall", "gui", "gui_mode", "gui_user", "hypervisor", "vga",
        "vga_render", "forwarded_for_header"}, {})

(* Organization *)
OrganizationEdit == OnProps
OrganizationRoles == {"roles"}
OrganizationSave == CardSave
OrganizationButtons == Deletes
OrganizationInputs == Ins({"name", "comment"}, {"roles"}, {})

(* Policy *)
PolicyEdit == OnProps
PolicyRoles == {"roles"}
PolicySave == CardSave
PolicyButtons == Deletes
PolicyInputs ==
    Ins({"name", "comment", "roles", "admin_secondary", "user_secondary",
        "rules", "disabled", "admin_device_secondary",
        "user_device_secondary"}, {}, {})

(* Storage *)
StorageEdit == OnProps
StorageSave == CardSave
StorageButtons == [Deletes EXCEPT !.acts = "sync"]
StorageInputs ==
    Ins({"comment"}, {"name", "endpoint", "bucket", "type", "access_key",
        "secret_key", "insecure"}, {})

(* Vpc *)
VpcEdit == InRow
VpcSubnets == {"subnets"}
VpcRoutes == {"routes"}
VpcSave == RowSave
VpcButtons == Deletes
VpcInputs == Ins({"name", "comment", "network", "subnets", "routes"}, {}, {})

(* Zone *)
ZoneEdit == OnProps
ZoneSave == CardSave
ZoneButtons == Deletes
ZoneInputs == Ins({"name", "comment"}, {"network_mode"}, {})

(* Settings *)
SettingsEdit == [OnProps EXCEPT !.base = "settings", !.clears = TRUE]
SettingsSave == PageSave
SettingsInputs ==
    Ins({"auth_providers", "auth_secondary_providers", "auth_admin_expire",
        "auth_admin_max_duration", "auth_user_expire",
        "auth_user_max_duration"}, {}, {})

(* User *)
UserEdit == [OnProps EXCEPT !.base = "store", !.clears = TRUE]
UserRoles == {"roles"}
UserSave == PageSave
UserButtons == Deletes
UserInputs ==
    Ins({"roles", "username", "comment", "password", "generate_secret",
        "type", "administrator", "disabled", "active_until"}, {}, {})
UserCreate == [PageSave EXCEPT !.says = "created", !.locks = TRUE]

(* InstanceNew *)
InstanceNewEdit == [OnProps EXCEPT !.base = "new"]
InstanceNewSave == CreateSave
InstanceNewRoles == {"network_roles"}
InstanceNewInputs ==
    Ins({"comment", "image_backing", "no_public_address",
        "no_host_address"}, {"name", "network_roles", "organization",
        "node", "zone", "vpc", "subnet", "oracle_subnet", "domain",
        "root_enabled", "vnc", "spice", "gui", "state", "uefi",
        "secure_boot", "image", "delete_protection", "init_disk_size",
        "memory", "processors", "count", "skip_source_dest_check"}, {"zone",
        "vpc", "subnet", "oracle_subnet"})

(* DiskNew *)
DiskNewEdit == [OnProps EXCEPT !.base = "new"]
DiskNewSave == CreateSave
DiskNewInputs ==
    Ins({"backing"}, {"name", "organization", "delete_protection",
        "instance", "index", "image", "size", "zone", "node"}, {"zone",
        "node"})

(* The functions of the actions that write a record. *)
AuthorityWrites == Commits
BalancerWrites == Commits
BlockWrites == Commits
CertificateWrites == Commits
DatacenterWrites == Commits
DeviceWrites == Commits
DiskWrites == Commits
DomainWrites == Commits
FirewallWrites == Commits
ImageWrites == Commits
InstanceWrites == Commits
NodeWrites == Commits
OrganizationWrites == Commits
PolicyWrites == Commits
StorageWrites == Commits
VpcWrites == Commits
ZoneWrites == Commits
SettingsWrites == Answers
UserWrites == Answers
-----------------------------------------------------------------------------
(* The forms.                                                              *)

AuthorityForm ==
    Form(AuthorityInputs, {AuthorityLists}, AuthorityEdit, AuthoritySave,
         AuthorityButtons, AuthorityWrites)
BalancerForm ==
    Form(BalancerInputs, {BalancerBackends, BalancerDomains}, BalancerEdit,
         BalancerSave, BalancerButtons, BalancerWrites)
BlockForm ==
    Form(BlockInputs, {BlockSubnets, BlockExcludes}, BlockEdit, BlockSave,
         BlockButtons, BlockWrites)
CertificateForm ==
    Form(CertificateInputs, {CertificateDomains}, CertificateEdit,
         CertificateSave, CertificateButtons, CertificateWrites)
DatacenterForm ==
    Form(DatacenterInputs, {}, DatacenterEdit, DatacenterSave,
         DatacenterButtons, DatacenterWrites)
DeviceForm ==
    Form(DeviceInputs, {}, DeviceEdit, DeviceSave, DeviceButtons,
         DeviceWrites)
DiskForm ==
    Form(DiskInputs, {}, DiskEdit, DiskSave, DiskButtons, DiskWrites)
DomainForm ==
    Form(DomainInputs, {}, DomainEdit, DomainSave, DomainButtons,
         DomainWrites)
FirewallForm ==
    Form(FirewallInputs, {FirewallRoles, FirewallIngress}, FirewallEdit,
         FirewallSave, FirewallButtons, FirewallWrites)
ImageForm ==
    Form(ImageInputs, {}, ImageEdit, ImageSave, ImageButtons, ImageWrites)
InstanceForm ==
    Form(InstanceInputs, {InstanceRoles, InstanceDrives, InstanceIsos,
         InstanceUsb, InstancePci, InstanceIscsi}, InstanceEdit,
         InstanceSave, InstanceButtons, InstanceWrites)
NodeForm ==
    Form(NodeInputs, {NodeRoles, NodeSubnets, NodeBlocks, NodeDrives},
         [NodeEdit EXCEPT !.inplace = NodeTypes], NodeSave, NodeButtons,
         NodeWrites)
OrganizationForm ==
    Form(OrganizationInputs, {OrganizationRoles}, OrganizationEdit,
         OrganizationSave, OrganizationButtons, OrganizationWrites)
PolicyForm ==
    Form(PolicyInputs, {PolicyRoles}, PolicyEdit, PolicySave, PolicyButtons,
         PolicyWrites)
StorageForm ==
    Form(StorageInputs, {}, StorageEdit, StorageSave, StorageButtons,
         StorageWrites)
VpcForm ==
    Form(VpcInputs, {VpcSubnets, VpcRoutes}, VpcEdit, VpcSave, VpcButtons,
         VpcWrites)
ZoneForm ==
    Form(ZoneInputs, {}, ZoneEdit, ZoneSave, ZoneButtons, ZoneWrites)
SettingsForm ==
    Form(SettingsInputs, {}, SettingsEdit, SettingsSave, NoButtons,
         SettingsWrites)
UserForm ==
    Form(UserInputs, {UserRoles}, UserEdit, UserSave, UserButtons,
         UserWrites)
UserNewForm ==
    Form(UserInputs, {UserRoles}, [UserEdit EXCEPT !.base = "new"],
         UserCreate, NoButtons, Commits)
InstanceNewForm ==
    Form(InstanceNewInputs, {InstanceNewRoles}, InstanceNewEdit,
         InstanceNewSave, NoButtons, InstanceWrites)
DiskNewForm ==
    Form(DiskNewInputs, {}, DiskNewEdit, DiskNewSave, NoButtons, DiskWrites)
=============================================================================

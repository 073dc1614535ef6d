----------------------------- MODULE Blueprint -----------------------------
(****************************************************************************)
(* The canvas as a program: the node catalog and the Inspector of           *)
(* src/apps/web/app/workspace/page.tsx, and the compiler of                 *)
(* src/apps/web/app/lib/bundleGenerator.ts that turns nodes and edges into  *)
(* main.tf, variables.tf, outputs.tf, hosts.ini and the manifests.          *)
(*                                                                          *)
(* A file is the set of its blocks.  A block has the address others name it *)
(* by, the addresses it names (uses), and the fields of its node it spells  *)
(* out (reads).  Of a field's text only two kinds matter: a node's name,    *)
(* and the text that attaches it to another block.                          *)
(****************************************************************************)
EXTENDS Naturals, Sequences, FiniteSets

CONSTANTS
  Palettes,   \* the sets of catalog entries the user drops together
  Renames,    \* names the user may type over a default one
  MaxNodes,   \* bound: nodes on the canvas
  MaxEdges,   \* bound: connections
  MaxEdits,   \* bound: edits in the Inspector
  MaxForms    \* bound: nodes beside the targets on a canvas where any field is edited
              \* and any output is picked, not only those that name or attach a node

ASSUME DesignAssumption == MaxNodes \in Nat /\ MaxEdits \in Nat

VARIABLES
  design,  \* the canvas: a sequence of nodes
  wiring,  \* its connections: a sequence of <<source id, target id>>
  edited,  \* the field the Inspector changed last: <<id, field>> or <<>>
  edits    \* edits made so far

designVars == <<design, wiring, edited, edits>>
-----------------------------------------------------------------------------
(* The catalog.  A node's id starts with its entry's id and ends in four     *)
(* digits of the clock, which the model takes for a fresh number.            *)

Targets    == {"aws_target", "gcp_target"}
Terraform  == {"aws_instance.web_server", "aws_security_group", "aws_s3_bucket",
               "aws_db_instance", "aws_vpc", "aws_subnet"}
Ansible    == {"update-packages", "nginx", "nodejs", "postgresql", "open-port", "copy-env",
               "deploy-node-app", "apt_install", "create_user", "systemd_service",
               "git_clone", "shell_command", "file_copy"}
Kubernetes == {"k8s_deployment", "k8s_service", "k8s_configmap", "k8s_secret",
               "k8s_ingress", "k8s_pvc"}
Catalog    == Targets \cup Terraform \cup Ansible \cup Kubernetes

\* A text that attaches: empty, a literal id, the address of a block, or an
\* output of another node put in by the variable picker.
NoText        == [how |-> "none", to |-> <<>>, out |-> ""]
Literal       == [how |-> "literal", to |-> <<>>, out |-> ""]
Address(a)    == [how |-> "address", to |-> a, out |-> ""]
Output(id, out) == [how |-> "hole", to |-> id, out |-> out]

\* The field that names the block, with its default text.
NameField ==
  [k \in Terraform |->
     CASE k = "aws_instance.web_server" -> "instanceName"
       [] k = "aws_security_group"      -> "sgName"
       [] k = "aws_s3_bucket"           -> "bucketName"
       [] k = "aws_db_instance"         -> "dbName"
       [] k = "aws_vpc"                 -> "vpcName"
       [] k = "aws_subnet"              -> "subnetName"]

DefaultName ==
  [k \in Terraform |->
     CASE k = "aws_instance.web_server" -> "web_server"
       [] k = "aws_security_group"      -> "web_sg"
       [] k = "aws_s3_bucket"           -> "whiparc-user-bucket"
       [] k = "aws_db_instance"         -> "appdb"
       [] k = "aws_vpc"                 -> "app_vpc"
       [] k = "aws_subnet"              -> "app_subnet_1a"]

\* The parameters a node starts with: the fields that have a value ...
TerraformDefaults(k) ==
  CASE k = "aws_instance.web_server" ->
         {"instanceName", "amiId", "instanceType", "subnetId", "securityGroupId", "rootVolumeSize", "tags"}
    [] k = "aws_security_group" -> {"sgName", "vpcId", "description", "ingressPorts"}
    [] k = "aws_s3_bucket"      -> {"bucketName", "forceDestroy", "versioningEnabled"}
    [] k = "aws_db_instance"    ->
         {"dbName", "allocatedStorage", "instanceClass", "username", "password", "engineVersion",
          "vpcSecurityGroupIds", "dbSubnetGroupName"}
    [] k = "aws_vpc"            -> {"vpcName", "cidrBlock", "enableDnsHostnames"}
    [] k = "aws_subnet"         -> {"subnetName", "vpcId", "cidrBlock", "availabilityZone", "mapPublicIp"}

AnsibleDefaults(k) ==
  {"ansibleHost", "ansibleUser"} \cup
  CASE k = "apt_install"     -> {"packages", "state"}
    [] k = "create_user"     -> {"username", "shell", "createHome"}
    [] k = "systemd_service" -> {"serviceName", "state", "enabled"}
    [] k = "git_clone"       -> {"repoUrl", "destPath", "branch"}
    [] k = "shell_command"   -> {"command", "chdir"}
    [] k = "file_copy"       -> {"srcPath", "destPath", "owner", "mode"}
    [] k = "open-port"       -> {"port"}
    [] k = "postgresql"      -> {"dbUser", "dbPass"}
    [] k = "deploy-node-app" -> {"startCommand", "appPort"}
    [] OTHER                 -> {}

KubernetesDefaults(k) ==
  CASE k = "k8s_deployment" ->
         {"deploymentName", "replicas", "imageName", "containerPort", "cpuLimit", "memoryLimit"}
    [] k = "k8s_service"    -> {"serviceName", "serviceType", "port", "targetPort"}
    [] k = "k8s_configmap"  -> {"configMapName", "dataKey", "dataValue"}
    [] k = "k8s_secret"     -> {"secretName", "secretKey", "secretValue"}
    [] k = "k8s_ingress"    -> {"ingressName", "host", "path", "serviceName", "servicePort"}
    [] k = "k8s_pvc"        -> {"pvcName", "storageSize", "storageClass"}

Defaults(k) ==
  CASE k \in Terraform  -> TerraformDefaults(k)
    [] k \in Ansible    -> AnsibleDefaults(k)
    [] k \in Kubernetes -> KubernetesDefaults(k)
    [] OTHER            -> {}

\* ... and the text that attaches it: a virtual machine starts with the literal
\* id of a subnet, a subnet with the address of the default VPC.
DefaultLink(k) ==
  CASE k = "aws_instance.web_server" -> Literal
    [] k = "aws_subnet"              -> Address(<<"aws_vpc", "app_vpc">>)
    [] OTHER                         -> NoText
-----------------------------------------------------------------------------
(* The Inspector: the fields it offers for a node.                           *)

InstanceFields == {"instanceName", "amiId", "instanceType", "subnetId", "securityGroupId",
                   "rootVolumeSize", "tags"}
GcpFields      == {"gcpInstanceName", "gcpMachineType", "gcpImage", "gcpNetwork", "gcpDiskSize"}
AzureFields    == {"azureVmName", "azureVmSize", "azurePublisher", "azureOffer", "azureSku",
                   "azureDiskSize"}
FirewallFields == {"sgName", "description", "httpPort", "httpsPort", "allowedCidr", "vpcId",
                   "sshEnabled", "ingressPorts"}
BucketFields   == {"bucketName", "versioningEnabled", "forceDestroy"}
DatabaseFields == {"dbName", "engineVersion", "instanceClass", "allocatedStorage", "username",
                   "password", "vpcSecurityGroupIds", "dbSubnetGroupName"}
VpcFields      == {"vpcName", "cidrBlock", "enableDnsHostnames"}
SubnetFields   == {"subnetName", "vpcId", "cidrBlock", "availabilityZone", "mapPublicIp"}

TaskFields(k) ==
  {"ansibleHost", "ansibleUser"} \cup
  CASE k = "open-port"       -> {"port"}
    [] k = "postgresql"      -> {"dbUser", "dbPass"}
    [] k = "deploy-node-app" -> {"startCommand", "appPort"}
    [] OTHER                 -> {}

ModuleFields(k) ==
  CASE k = "apt_install"     -> {"packages", "state"}
    [] k = "create_user"     -> {"username", "shell", "createHome"}
    [] k = "systemd_service" -> {"serviceName", "state", "enabled"}
    [] OTHER                 -> {}

CommandFields(k) ==
  CASE k = "git_clone"     -> {"repoUrl", "destPath", "branch", "credentialId"}
    [] k = "shell_command" -> {"command", "chdir"}
    [] k = "file_copy"     -> {"srcPath", "destPath", "owner", "mode"}
    [] OTHER               -> {}

TargetFields(k) ==
  CASE k = "aws_target" -> {"environment", "credentialId", "region"}
    [] k = "gcp_target" -> {"environment", "credentialId", "projectId", "region", "gcpZone", "sshKeyId"}

WorkloadFields(k) ==
  CASE k = "k8s_deployment" ->
         {"deploymentName", "replicas", "containerPort", "imageName", "cpuLimit", "memoryLimit"}
    [] k = "k8s_service"    -> {"serviceName", "serviceType", "port", "targetPort"}
    [] OTHER                -> {}

ManifestFields(k) ==
  CASE k = "k8s_configmap" -> {"configMapName", "dataKey", "dataValue"}
    [] k = "k8s_secret"    -> {"secretName", "secretKey", "secretValue"}
    [] k = "k8s_ingress"   -> {"ingressName", "host", "path", "servicePort", "serviceName"}
    [] k = "k8s_pvc"       -> {"pvcName", "storageSize", "storageClass"}
    [] OTHER               -> {}

Offered(k) ==
  CASE k = "aws_instance.web_server" -> InstanceFields \cup GcpFields \cup AzureFields
    [] k = "aws_security_group"      -> FirewallFields
    [] k = "aws_s3_bucket"           -> BucketFields
    [] k = "aws_db_instance"         -> DatabaseFields
    [] k = "aws_vpc"                 -> VpcFields
    [] k = "aws_subnet"              -> SubnetFields
    [] k \in Ansible                 -> TaskFields(k) \cup ModuleFields(k) \cup CommandFields(k)
    [] k \in Targets                 -> TargetFields(k)
    [] k \in Kubernetes              -> WorkloadFields(k) \cup ManifestFields(k)

\* The two fields whose text attaches a node, and what they may name.
LinkField(k) ==
  CASE k = "aws_instance.web_server" -> "subnetId"
    [] k \in {"aws_security_group", "aws_subnet"} -> "vpcId"
    [] k \in Ansible -> "ansibleHost"
    [] OTHER -> "none"

GuardField(k) ==
  CASE k = "aws_instance.web_server" -> "securityGroupId"
    [] k = "aws_db_instance" -> "vpcSecurityGroupIds"
    [] OTHER -> "none"

LinkedTo(f) ==
  CASE f = "subnetId" -> {"aws_subnet"}
    [] f = "vpcId"    -> {"aws_vpc"}
    [] f \in {"securityGroupId", "vpcSecurityGroupIds"} -> {"aws_security_group"}
    [] OTHER -> {}

\* The variable picker lists the outputs of the Terraform nodes.
PickerOutputs ==
  [k \in Terraform |->
     CASE k = "aws_instance.web_server" -> {"public_ip", "private_ip", "id", "ssh_user"}
       [] k = "aws_security_group"      -> {"sg_id", "sg_name"}
       [] k = "aws_s3_bucket"           -> {"bucket_name", "bucket_arn"}
       [] k = "aws_db_instance"         -> {"endpoint", "port", "db_name", "username"}
       [] k = "aws_vpc"                 -> {"vpc_id", "cidr_block"}
       [] k = "aws_subnet"              -> {"subnet_id", "availability_zone"}]
-----------------------------------------------------------------------------
(* The compiler.                                                             *)

Kind(id)      == id[1]
Nodes         == {design[i] : i \in DOMAIN design}
OfKind(kinds) == {i \in DOMAIN design : Kind(design[i].id) \in kinds}
Has(kinds)    == OfKind(kinds) # {}

\* The first of these places, in the order the nodes or connections were made.
First(places)  == CHOOSE i \in places : \A j \in places : i <= j
FirstOf(kinds) == design[First(OfKind(kinds))].id

\* Connections from a node of one of these kinds, and where the first of them starts.
Wired(id, kinds)  == {x \in DOMAIN wiring : wiring[x][2] = id /\ Kind(wiring[x][1]) \in kinds}
Source(id, kinds) == wiring[First(Wired(id, kinds))][1]

\* A block is named by its node's name field, by the default when that is empty.
BlockName(id) ==
  IF \E n \in Nodes : n.id = id /\ n.name # ""
  THEN (CHOOSE n \in Nodes : n.id = id).name ELSE DefaultName[Kind(id)]

At(id) == <<Kind(id), BlockName(id)>>

\* With no target on the canvas the compiler takes an AWS one.
HasAws == Has({"aws_target"}) \/ ~Has(Targets)
HasGcp == Has({"gcp_target"})

\* What attaches a node to a block of kind k: its own text, else the first
\* connection, else, where the compiler looks further, the first of the canvas.
Attached(n, text, k, further) ==
  CASE text.how = "address"                         -> {text.to}
    [] text.how \in {"literal", "hole"}             -> {}
    [] text.how = "none" /\ Wired(n.id, {k}) # {}   -> {At(Source(n.id, {k}))}
    [] OTHER -> IF further /\ Has({k}) THEN {At(FirstOf({k}))} ELSE {}

Block(at, uses, reads) == [at |-> at, uses |-> uses, reads |-> reads]
Variable(name)         == Block(<<"var", name>>, {}, {})

Variables ==
  (IF HasAws THEN {Variable("aws_region"), Variable("instance_type"), Variable("aws_ssh_pub_key")}
             ELSE {})
  \cup
  (IF HasGcp THEN {Variable("gcp_project_id"), Variable("gcp_region"), Variable("gcp_zone"),
                   Variable("gcp_ssh_pub_key")}
             ELSE {})

\* The provider blocks spell out the fields of the first target of each cloud, Google's
\* in the default values of its variables.
Providers ==
  (IF HasAws THEN {Block(<<"provider", "aws">>, {}, {"environment", "region"})} ELSE {})
  \cup
  (IF HasGcp THEN {Block(<<"provider", "google">>,
                         {<<"var", "gcp_project_id">>, <<"var", "gcp_region">>, <<"var", "gcp_zone">>},
                         {"projectId", "region", "gcpZone"})}
             ELSE {})

\* Mutant: the automatic network is in the VPC that has the default name.
M_AutoNetwork ==
  IF Has({"aws_vpc"})
  THEN {Block(<<"aws_subnet", "whiparc_auto_subnet">>, {<<"aws_vpc", "app_vpc">>}, {}),
        Block(<<"aws_route_table_association", "whiparc_auto_subnet_assoc">>,
              {<<"aws_subnet", "whiparc_auto_subnet">>, <<"aws_route_table", "app_vpc">>}, {})}
  ELSE {Block(<<"data.aws_vpc", "default">>, {}, {}),
        Block(<<"data.aws_subnets", "default">>, {<<"data.aws_vpc", "default">>}, {})}

\* The network a machine gets that names no subnet and finds none: a subnet in the
\* first VPC, else the default VPC's subnets.
AutoNetwork ==
  IF Has({"aws_vpc"})
  THEN LET vpc == BlockName(FirstOf({"aws_vpc"}))
       IN  {Block(<<"aws_subnet", "whiparc_auto_subnet">>, {<<"aws_vpc", vpc>>}, {}),
            Block(<<"aws_route_table_association", "whiparc_auto_subnet_assoc">>,
                  {<<"aws_subnet", "whiparc_auto_subnet">>, <<"aws_route_table", vpc>>}, {})}
  ELSE {Block(<<"data.aws_vpc", "default">>, {}, {}),
        Block(<<"data.aws_subnets", "default">>, {<<"data.aws_vpc", "default">>}, {})}

AutoSubnet ==
  IF Has({"aws_vpc"}) THEN <<"aws_subnet", "whiparc_auto_subnet">> ELSE <<"data.aws_subnets", "default">>

InstanceBlocks(n) ==
  LET subnet == Attached(n, n.link, "aws_subnet", TRUE)
      lost   == subnet = {} /\ n.link.how = "none"
  IN  {Block(<<"aws_key_pair", "whiparc_key">>, {<<"var", "aws_ssh_pub_key">>}, {}),
       Block(At(n.id),
             {<<"aws_key_pair", "whiparc_key">>} \cup subnet
               \cup (IF lost THEN {AutoSubnet} ELSE {})
               \cup Attached(n, n.guard, "aws_security_group", TRUE),
             InstanceFields)}
      \cup (IF lost THEN AutoNetwork ELSE {})

GcpBlocks(n) ==
  {Block(<<"google_compute_network", "vpc_network">>, {}, {}),
   Block(<<"google_compute_subnetwork", "subnet">>,
         {<<"google_compute_network", "vpc_network">>, <<"var", "gcp_region">>}, {}),
   Block(<<"google_compute_instance", "vm_instance">>,
         {<<"google_compute_subnetwork", "subnet">>, <<"var", "gcp_zone">>, <<"var", "gcp_ssh_pub_key">>},
         {"gcpInstanceName", "instanceName", "gcpMachineType", "gcpDiskSize", "rootVolumeSize", "gcpImage"})}

\* Once a node has one of the two web ports, the list of ports is not read.
FirewallBlocks(n) ==
  {Block(At(n.id), Attached(n, n.link, "aws_vpc", TRUE),
         {"sgName", "description", "allowedCidr", "vpcId"} \cup
         (IF n.keys \cap {"httpPort", "httpsPort"} # {}
          THEN {"httpPort", "httpsPort", "sshEnabled"} ELSE {"ingressPorts"}))}

BucketBlocks(n) ==
  {Block(At(n.id), {}, {"bucketName", "forceDestroy"}),
   Block(<<"aws_s3_bucket_versioning", BlockName(n.id)>>, {At(n.id)}, {"versioningEnabled"})}

\* Mutant: the subnet group is offered and not written.
M_DatabaseBlocks(n) ==
  {Block(At(n.id), Attached(n, n.guard, "aws_security_group", FALSE), DatabaseFields \ {"dbSubnetGroupName"})}

DatabaseBlocks(n) ==
  {Block(At(n.id), Attached(n, n.guard, "aws_security_group", FALSE), DatabaseFields)}

VpcBlocks(n) ==
  LET name == BlockName(n.id)
  IN  {Block(At(n.id), {}, VpcFields),
       Block(<<"aws_internet_gateway", name>>, {At(n.id)}, {}),
       Block(<<"aws_route_table", name>>, {At(n.id), <<"aws_internet_gateway", name>>}, {})}

\* A subnet in no VPC names the default one, whose data block is not written here.
SubnetBlocks(n) ==
  LET vpc == Attached(n, n.link, "aws_vpc", TRUE)
  IN  {Block(At(n.id),
             IF vpc = {} /\ n.link.how = "none" THEN {<<"data.aws_vpc", "default">>} ELSE vpc,
             SubnetFields)}
      \cup {Block(<<"aws_route_table_association", BlockName(n.id)>>,
                  {At(n.id), <<"aws_route_table", v[2]>>}, {}) : v \in vpc}

ResourceBlocks(n) ==
  LET k == Kind(n.id)
  IN  CASE k = "aws_instance.web_server" ->
             (IF HasAws THEN InstanceBlocks(n) ELSE {}) \cup (IF HasGcp THEN GcpBlocks(n) ELSE {})
        [] k = "aws_security_group" /\ HasAws -> FirewallBlocks(n)
        [] k = "aws_s3_bucket" /\ HasAws      -> BucketBlocks(n)
        [] k = "aws_db_instance" /\ HasAws    -> DatabaseBlocks(n)
        [] k = "aws_vpc" /\ HasAws            -> VpcBlocks(n)
        [] k = "aws_subnet" /\ HasAws         -> SubnetBlocks(n)
        [] OTHER -> {}

\* main.tf and variables.tf, written only for a canvas with a Terraform node.
MainTf == IF ~Has(Terraform) THEN {}
          ELSE Providers \cup Variables \cup
               UNION {ResourceBlocks(design[i]) : i \in OfKind(Terraform)}

\* The outputs each node has anyway.
StaticOutputs(n) ==
  LET k == Kind(n.id)
  IN  IF HasAws /\ k \in {"aws_instance.web_server", "aws_s3_bucket", "aws_db_instance"}
      THEN {Block(<<"output", BlockName(n.id)>>, {At(n.id)}, {})} ELSE {}

\* The outputs the compiler has an expression for.
HclOutputs ==
  [k \in Terraform |->
     CASE k = "aws_instance.web_server" -> {"public_ip", "private_ip", "id", "ssh_user"}
       [] k = "aws_security_group"      -> {"sg_id", "sg_name"}
       [] k = "aws_s3_bucket"           -> {"bucket_name", "bucket_arn"}
       [] k = "aws_db_instance"         -> {"endpoint", "port", "db_name", "username"}
       [] k = "aws_vpc"                 -> {"vpc_id", "cidr_block"}
       [] k = "aws_subnet"              -> {"subnet_id", "availability_zone"}]

\* The output for a picked one.  A canvas with a GCP target has them for machines
\* only, and a subnet whose name is empty gets another default name here.
DynamicOutput(h) ==
  LET k    == Kind(h.to)
      gcp  == <<"google_compute_instance", "vm_instance">>
      name == IF k = "aws_subnet" /\ \A n \in Nodes : n.id = h.to => n.name = ""
              THEN "app_subnet" ELSE BlockName(h.to)
  IN  CASE h.out \notin HclOutputs[k]               -> {}
        [] HasGcp /\ k # "aws_instance.web_server" -> {}
        [] OTHER -> {Block(<<"picked", h.to, h.out>>,
                           IF HasGcp THEN {gcp} ELSE {<<k, name>>}, {})}

\* The outputs that are picked somewhere on the canvas, of nodes that are on it.
Texts  == UNION {{n.link, n.guard} : n \in Nodes}
Picked == {t \in Texts : t.how = "hole" /\ \E n \in Nodes : n.id = t.to}

OutputsTf ==
  IF ~Has(Terraform) THEN {}
  ELSE (UNION {StaticOutputs(n) : n \in Nodes}) \cup (UNION {DynamicOutput(h) : h \in Picked})

\* The tasks no other task leads to; hosts.ini is about the first of them.
FirstTasks == {i \in OfKind(Ansible) : Wired(design[i].id, Ansible) = {}}
FirstTask  == design[First(FirstTasks)]
Hosts      == {"aws_instance.web_server", "gcp_target"}

\* Its host: the machine wired to that task, the address typed there, the first
\* machine, the GCP target's machine, or this computer.
HostUses ==
  LET wired  == FirstTasks # {} /\ Wired(FirstTask.id, Hosts) # {}
      typed  == FirstTasks # {} /\ FirstTask.link # NoText
      aws    == Has({"aws_instance.web_server"})
      gcp    == <<"google_compute_instance", "web_server">>
      on(id) == IF Kind(id) = "gcp_target" THEN gcp ELSE At(id)
  IN  CASE wired                              -> {on(Source(FirstTask.id, Hosts))}
        [] ~wired /\ typed                    -> {}
        [] ~wired /\ ~typed /\ aws            -> {At(FirstOf({"aws_instance.web_server"}))}
        [] ~wired /\ ~typed /\ ~aws /\ HasGcp -> {gcp}
        [] OTHER                              -> {}

HostsIni == IF Has(Ansible) THEN {Block(<<"host", "web_server_1">>, HostUses, {})} ELSE {}

HostReads(n) ==
  IF FirstTasks = {} \/ FirstTask.id # n.id THEN {}
  ELSE {"ansibleUser"} \cup (IF Wired(n.id, Hosts) = {} THEN {"ansibleHost"} ELSE {})

\* What the task of a node in playbook.yml spells out.
TaskReads(k) ==
  CASE k = "postgresql"      -> {"dbUser", "dbPass"}
    [] k = "open-port"       -> {"port"}
    [] k = "deploy-node-app" -> {"startCommand", "appPort"}
    [] OTHER                 -> {}

ModuleReads(k) ==
  CASE k = "apt_install"     -> {"packages", "state"}
    [] k = "create_user"     -> {"username", "shell", "createHome"}
    [] k = "systemd_service" -> {"serviceName", "state", "enabled"}
    [] k = "git_clone"       -> {"repoUrl", "destPath", "branch", "credentialId"}
    [] k = "shell_command"   -> {"command", "chdir"}
    [] k = "file_copy"       -> {"srcPath", "destPath", "owner", "mode"}
    [] OTHER                 -> {}

ManifestReads(k) ==
  CASE k = "k8s_deployment" ->
         {"deploymentName", "replicas", "imageName", "containerPort", "cpuLimit", "memoryLimit"}
    [] k = "k8s_service"    -> {"serviceName", "serviceType", "port", "targetPort"}
    [] k = "k8s_configmap"  -> {"configMapName", "dataKey", "dataValue"}
    [] k = "k8s_secret"     -> {"secretName", "secretKey", "secretValue"}
    [] k = "k8s_ingress"    -> {"ingressName", "host", "path", "serviceName", "servicePort"}
    [] k = "k8s_pvc"        -> {"pvcName", "storageSize", "storageClass"}

Bundle == MainTf \cup OutputsTf \cup HostsIni

\* What main.tf, if there is one, holds of a target: its cloud's provider, if no
\* target of that cloud comes before it.
TargetBlocks(n) ==
  LET k == Kind(n.id)
  IN  {b \in MainTf : /\ b.at = <<"provider", IF k = "aws_target" THEN "aws" ELSE "google">>
                     /\ n.id = FirstOf({k})}

\* The fields of a node that some file spells out.
Reads(n) ==
  LET k == Kind(n.id)
  IN  CASE k \in Terraform  -> UNION {b.reads : b \in ResourceBlocks(n)}
        [] k \in Ansible    -> TaskReads(k) \cup ModuleReads(k) \cup HostReads(n)
        [] k \in Kubernetes -> ManifestReads(k)
        [] k \in Targets    -> UNION {b.reads : b \in TargetBlocks(n)}
-----------------------------------------------------------------------------
(* The user's steps. *)

DesignInit ==
  /\ design = <<>>
  /\ wiring = <<>>
  /\ edited = <<>>
  /\ edits = 0

\* The model mixes only the entries of one palette; any other is dropped alone.
Fits(k) ==
  /\ Len(design) < MaxNodes
  /\ design # <<>> => \E palette \in Palettes : {k} \cup {Kind(n.id) : n \in Nodes} \subseteq palette

FewForms == Cardinality(OfKind(Catalog \ Targets)) <= MaxForms

\* A number is taken by a node, or by a text about one that may be gone; a node has
\* two texts, so there is always one left.
Reserved == {n.id[2] : n \in Nodes} \cup {t.to[2] : t \in {t \in Texts : t.how = "hole"}}
Numbers  == 1..(3 * MaxNodes)

Put(k, keys, link) ==
  /\ \E x \in Numbers \ Reserved :
       /\ \A y \in 1..(x - 1) : y \in Reserved
       /\ design' = Append(design, [id |-> <<k, x>>, keys |-> keys, link |-> link, guard |-> NoText,
                                   name |-> IF k \in Terraform THEN DefaultName[k] ELSE ""])
  /\ edited' = <<>>
  /\ UNCHANGED <<wiring, edits>>

\* A click in the library: every default parameter is stored.
ClickEntry(k) == Fits(k) /\ Put(k, Defaults(k), DefaultLink(k))

\* A drag from the library: machines and firewalls get other defaults.
DropEntry(k) ==
  /\ Fits(k)
  /\ CASE k = "aws_instance.web_server" ->
            Put(k, {"instanceName", "amiId", "instanceType", "subnetId", "rootVolumeSize", "tags"}, NoText)
       [] k = "aws_security_group" ->
            Put(k, {"sgName", "httpPort", "httpsPort", "sshEnabled", "allowedCidr"}, NoText)
       [] OTHER -> Put(k, Defaults(k), DefaultLink(k))

DrawWire(i, j) ==
  /\ i # j
  /\ Len(wiring) < MaxEdges
  /\ LET e == <<design[i].id, design[j].id>>
     IN  /\ \A x \in DOMAIN wiring : wiring[x] # e
         /\ wiring' = Append(wiring, e)
  /\ edited' = <<>>
  /\ UNCHANGED <<design, edits>>

\* Every edit stores its field beside the parameters the node has.
Store(i, f, n) ==
  /\ edits < MaxEdits
  /\ edits' = edits + 1
  /\ design' = [design EXCEPT ![i] = [n EXCEPT !.keys = @ \cup {f}]]
  /\ edited' = <<design[i].id, f>>
  /\ UNCHANGED wiring

EditField(i, f) ==
  /\ FewForms
  /\ f \in Offered(Kind(design[i].id))
  /\ Store(i, f, design[i])

Rename(i, name) ==
  /\ Kind(design[i].id) \in Terraform
  /\ name # design[i].name
  /\ Store(i, NameField[Kind(design[i].id)], [design[i] EXCEPT !.name = name])

\* Texts the user may put in field f: none, an address, or a picked output.
TextsFor(f) ==
  {NoText} \cup {Address(At(design[j].id)) : j \in OfKind(LinkedTo(f))}
  \cup UNION {{Output(design[j].id, out) : out \in PickerOutputs[Kind(design[j].id)]}
                 : j \in {j \in OfKind(Terraform) : FewForms}}

Attach(i, text) ==
  LET k == Kind(design[i].id)
  IN  \/ /\ LinkField(k) # "none"
         /\ text \in TextsFor(LinkField(k))
         /\ Store(i, LinkField(k), [design[i] EXCEPT !.link = text])
      \/ /\ GuardField(k) # "none"
         /\ text \in TextsFor(GuardField(k))
         /\ Store(i, GuardField(k), [design[i] EXCEPT !.guard = text])

\* A node goes with its connections; what stays keeps its order.
EraseNode(i) ==
  LET kept == {x \in DOMAIN wiring : design[i].id \notin {wiring[x][1], wiring[x][2]}}
  IN  /\ edits < MaxEdits
      /\ edits' = edits + 1
      /\ design' = [j \in 1..(Len(design) - 1) |-> IF j < i THEN design[j] ELSE design[j + 1]]
      /\ \E at \in [1..Cardinality(kept) -> kept] :
           /\ \A x, y \in DOMAIN at : x < y => at[x] < at[y]
           /\ wiring' = [x \in DOMAIN at |-> wiring[at[x]]]
      /\ edited' = <<>>

DesignNext ==
  \/ \E k \in Catalog : ClickEntry(k) \/ DropEntry(k)
  \/ \E i, j \in DOMAIN design : DrawWire(i, j)
  \/ \E i \in DOMAIN design :
       \/ \E f \in Offered(Kind(design[i].id)) : EditField(i, f)
       \/ \E name \in Renames \cup {""} : Rename(i, name)
       \/ \E text \in TextsFor("subnetId") \cup TextsFor("vpcId") \cup TextsFor("securityGroupId") :
            Attach(i, text)
       \/ EraseNode(i)

DesignSpec == DesignInit /\ [][DesignNext]_designVars
-----------------------------------------------------------------------------
(* Properties. *)

DesignTypeOK ==
  /\ \A i \in DOMAIN design :
       /\ Kind(design[i].id) \in Catalog
       /\ design[i].keys \subseteq Offered(Kind(design[i].id))
  /\ \A i, j \in DOMAIN design : i # j => design[i].id # design[j].id
  /\ \A x \in DOMAIN wiring : \A end \in {1, 2} : \E i \in DOMAIN design : design[i].id = wiring[x][end]
  /\ edits \in 0..MaxEdits

ClosedOver(blocks, within) == \A b \in blocks : b.uses \subseteq {x.at : x \in within}

\* What the compiler takes from the user as it stands: an address typed in a field,
\* and a subnet for which there is no VPC at all.
Addresses      == {At(design[i].id) : i \in OfKind(Terraform)}
AddressesExist == \A t \in Texts : t.how = "address" => t.to \in Addresses
SubnetsHaveVpc == Has({"aws_subnet"}) => Has({"aws_vpc"})

\* Every address a generated file names is one the bundle declares, however the
\* blocks were attached (a typed address, a connection, the first of the canvas, the
\* default network), after any renames, cleared names and deletions; and every
\* output the picker offers is written.  With a GCP target this is so of main.tf.
BundleIsClosed ==
  AddressesExist /\ SubnetsHaveVpc =>
    /\ ClosedOver(MainTf, MainTf)
    /\ ~HasGcp /\ (\A h \in Picked : BlockName(h.to) # DefaultName["aws_subnet"]) =>
         /\ ClosedOver(OutputsTf \cup HostsIni, MainTf)
         /\ \A h \in Picked : \E b \in OutputsTf : b.at = <<"picked", h.to, h.out>>

\* A target whose fields no file holds: only a canvas with a Terraform node has a
\* main.tf, and of two targets of one cloud the compiler takes the first.
IdleTarget(n) ==
  Kind(n.id) \in Targets /\ (~Has(Terraform) \/ n.id # FirstOf({Kind(n.id)}))

\* The fields the Inspector offers that no file spells out: those of a cloud that is
\* not targeted, of an idle target, a network name, what only the server reads, the
\* ports a firewall does not use, and the host of a task that is not the first.
Deaf(n) ==
  {"gcpNetwork", "credentialId", "sshKeyId"} \cup AzureFields
  \cup (IF HasGcp THEN {} ELSE GcpFields)
  \cup (IF HasAws THEN {} ELSE (UNION {Offered(k) : k \in Terraform}) \ GcpFields)
  \cup (IF n.keys \cap {"httpPort", "httpsPort"} = {} THEN {"sshEnabled"} ELSE {"ingressPorts"})
  \cup (IF Kind(n.id) = "gcp_target" THEN {"environment"} ELSE {})
  \cup (IF IdleTarget(n) THEN TargetFields(Kind(n.id)) ELSE {})
  \cup (IF HostReads(n) = {} THEN {"ansibleHost", "ansibleUser"} ELSE {"ansibleHost"})

\* An edit in the Inspector reaches the files: some file spells out the field just
\* changed, but for the ones named above.  The Inspector's fields and the
\* compiler's are two lists in two files.
EditReachesFiles ==
  \A i \in DOMAIN design :
    edited # <<>> /\ design[i].id = edited[1] /\ edited[2] \notin Deaf(design[i])
      => edited[2] \in Reads(design[i])
=============================================================================

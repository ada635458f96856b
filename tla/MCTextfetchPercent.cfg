SPECIFICATION Spec
CONSTANTS
  ArgLists <- MCArgLists
  Handle = {"procs", "os-release", "plist", "plist_fd", "plist_map", "plist_data", "model_key",
            "iterator", "service", "keys", "values", "properties", "model", "parent", "class_code",
            "cpufreq_dir", "vulkan", "vk_instance", "meminfo", "host_port",
            "supply_dir", "supply_node", "power_info", "power_list"}
  BlockBits = 32
  NoCommand = NoCommand
  OsReleases <- MCOsReleases
  VersionLines <- MCVersionLines
  DarwinName <- MCDarwin
  DarwinMajors = {24, 99}
  Dmis <- MCDmis
  Plists <- MCPlists
  ModelIds = {"Mac1"}
  Properties <- MCProperties
  LongVendor <- MCLongVendors
  VendorGarbage <- MCVendorGarbage
  AllCaps <- MCAllCaps
  ToLower <- MCToLower
  FamilyGarbage <- MCFamilyGarbage
  ProcCounts = {2, 5}
  ProcWidth = 4
  Uptimes = {100000}
  AppleCpus <- MCAppleCpus
  Registries <- MCRegistries
  Accelerators <- MCAccelerators
  PciDevices <- MCPciDevices
  MinHz = 100
  MaxHz = 500
  MinKHz = 10
  MaxKHz = 50
  HzPerKHz = 10
  Phones <- MCPhones
  VkDevices <- MCVkDevices
  VkMax = 2
  GpuDrivers <- MCGpuDrivers
  VendorNames <- MCVendorNames
  Meminfos <- MCMeminfos
  PageCounts <- MCPageCounts
  RamSizes = {64, 4096}
  SwapUsages <- MCSwapUsages
  CountWidth = 256
  PageSize = 4
  Kilo = 16
  Machines <- MCMachines
  AndroidFiles <- MCAndroidFiles
  PowerSources <- MCPowerSources
  Uint8Max = 255
  Int32Max = 1000
  Uint32Max = 10
INVARIANT PercentIsTheCharge

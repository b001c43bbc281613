SPECIFICATION LayersSpec
CONSTANTS
  Absent = Absent
 Families = {{"keep_permission","uname","gname","uid","gid","numeric_owner","same_owner","no_same_owner","owner","group","no_same_permissions","same_permissions"},{"mtime","ctime","atime","clamp_mtime","clamp_ctime","clamp_atime","keep_timestamp","no_keep_timestamp"}, {"password","password_file","aes","camellia","argon2","pbkdf2","zstd","store","level","module_level"}, {"output","overwrite","no_overwrite","unsolid","restore","set","modify","remove","platform","name","value","out_dir"}, {"dump","name","regex_match","encoding","password","fast"},{"null","files_from","exclude_from","missing_time","newer_ctime","newer_mtime_than","working_dir"}}
 MaxFlags = 1
 MaxOfFamily = 4
\* the commands end
CHECK_DEADLOCK FALSE
INVARIANTS
  FlagsAct
  AttributesReturn
  TimesKept
  PatternsCover
  NamesSafe
  PlacedTextStays
  AsArchived
  ExistingStays
  FastReadFindsAll
  EntriesReadBack
  ListingTrue
  EditsTrue
  ChecksTell
PROPERTY
  NothingUnasked

SPECIFICATION LayersSpec
CONSTANTS
  Absent = Absent
 Families = {{"keep_permission","uname","gname","uid","gid","numeric_owner","same_owner","no_same_owner","owner","group","no_same_permissions","same_permissions"},{"mtime","ctime","atime","clamp_mtime","clamp_ctime","clamp_atime","keep_timestamp","no_keep_timestamp"}, {"password","password_file","aes","camellia","argon2","pbkdf2","zstd","store","level","module_level"}}
 MaxFlags = 1
 MaxOfFamily = 4
\* the commands end
CHECK_DEADLOCK FALSE
INVARIANT
  OverwritesOnlyIfAllowed

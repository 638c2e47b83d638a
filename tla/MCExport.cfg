CONSTANT Machines <- MCMachines
CONSTANT Options <- MCOptions
SPECIFICATION ExportSpec
INVARIANT ExportedMeansDesign
INVARIANT PreparedIsWritable
 
PROPERTY ImplementsDesign
